---------------------------- MODULE LanguageServer ----------------------------
(***************************************************************************)
(* The diagnostics of `bino lsp`: internal/lsp/analyzer.go, server.go and  *)
(* handlers_sync.go.  Every buffer has a debounced analysis whose runs are *)
(* timer goroutines; project-wide findings come from goroutines of their   *)
(* own; both kinds end in one publication per file that merges the two.    *)
(* What the client sends is handled in its order.  The state of the        *)
(* project, `loaded`, belongs to the backend.                              *)
(***************************************************************************)
EXTENDS Naturals

CONSTANTS
    Docs,       \* the files that may be open
    Runs,       \* analyses: an inflight record, its timer and its goroutine
    Fetches,    \* goroutines of refreshProjectDiagnostics
    None,
    MaxTexts,   \* bound: texts the client sends
    MaxChanges, \* bound: changes of the project, when the backend is a daemon
    Prompt,     \* a goroutine that only has to publish does so within the debounce
    Restarts    \* a file that is opened again starts with version 1 again

ASSUME NamesAssumption == None \notin Runs /\ None \notin Nat
ASSUME BoundAssumption == MaxTexts \in Nat /\ MaxChanges \in Nat /\ Prompt \in BOOLEAN /\ Restarts \in BOOLEAN

VARIABLES
    buf,        \* docs: version and text of each buffer, version 0 when closed
    texts,      \* the number of texts sent
    pending,    \* pending: the inflight record of each document
    cancelOf,   \* inflight.cancel: the run an inflight record can cancel
    run,        \* where each run is, what it has read, what it will publish
    cancelled,  \* runs whose context is cancelled
    draft,      \* draftDiags: the text they are about
    fetch,      \* where each project refresh is
    project,    \* projectDiags: the loaded project they are about
    shown,      \* the merge the client shows for each file
    loaded      \* the project as the backend has loaded it

lspVars == <<buf, texts, pending, cancelOf, run, cancelled, draft, fetch, project, shown>>
analyzer == <<pending, cancelOf, run, cancelled>>
client == <<buf, texts>>
published == <<draft, project, shown>>

Closed == [ver |-> 0, text |-> 0]
Open(d) == buf[d] # Closed

FreeRun == [at |-> "free", doc |-> None, seen |-> Closed, merge |-> None]
FreeFetch == [at |-> "free", diags |-> None, left |-> {}, merge |-> None]

Init ==
    /\ buf = [d \in Docs |-> Closed]
    /\ texts = 0
    /\ pending = [d \in Docs |-> None]
    /\ cancelOf = [r \in Runs |-> None]
    /\ run = [r \in Runs |-> FreeRun]
    /\ cancelled = {}
    /\ draft = [d \in Docs |-> None]
    \* Initialized has started the first one.
    /\ \E k \in Fetches : fetch = [j \in Fetches |-> IF j = k THEN [FreeFetch EXCEPT !.at = "fetch"] ELSE FreeFetch]
    /\ project = None
    /\ shown = [d \in Docs |-> None]

\* What publishFile reads under the lock.
Merge(d) == [draft |-> draft[d], project |-> project]

-----------------------------------------------------------------------------
(* Analyzer.                                                                *)

Unused(d) == {r \in Runs : run[r].at = "free" /\ \A e \in Docs \ {d} : pending[e] # r}

\* Runs whose context Schedule or Cancel cancels for d.
Cancellable(d) == IF pending[d] = None THEN {} ELSE {cancelOf[pending[d]]} \ {None}

\* timer.Stop: too late for a goroutine that has started.
Stopped(d) == {r \in Runs : r = pending[d] /\ run[r].at = "armed"}

BugArmed(D) == {d \in D : pending[d] = None}
Armed(D) == D

\* Schedule, for every document of D; the map gives each its new record.
Schedule(D, new) ==
    LET old == UNION {Stopped(d) : d \in Armed(D)}
    IN  /\ pending' = [d \in Docs |-> IF d \in Armed(D) THEN new[d] ELSE pending[d]]
        /\ cancelled' = cancelled \cup UNION {Cancellable(d) : d \in Armed(D)}
        /\ run' = [r \in Runs |->
                     IF \E d \in Armed(D) : r = new[d]
                     THEN [FreeRun EXCEPT !.at = "armed", !.doc = CHOOSE d \in Armed(D) : r = new[d]]
                     ELSE IF r \in old THEN FreeRun ELSE run[r]]
        /\ cancelOf' = [r \in Runs |-> IF r \in old \/ \E d \in Armed(D) : r = new[d] THEN None ELSE cancelOf[r]]

News(D) == {new \in [D -> Runs] : \A d, e \in D : new[d] \in Unused(d) /\ (new[d] = new[e] => d = e)}

Cancel(d) ==
    /\ cancelled' = cancelled \cup Cancellable(d)
    /\ run' = [r \in Runs |-> IF r \in Stopped(d) THEN FreeRun ELSE run[r]]
    /\ cancelOf' = [r \in Runs |-> IF r \in Stopped(d) THEN None ELSE cancelOf[r]]
    /\ pending' = [pending EXCEPT ![d] = None]

Publishing(d) == {r \in Runs : run[r].doc = d /\ run[r].at \in {"answered", "publish", "stored", "send"}}

\* The debounce is over.
Fire(r) ==
    /\ run[r].at = "armed"
    /\ Prompt => Publishing(run[r].doc) = {}
    /\ run' = [run EXCEPT ![r].at = "fired"]
    /\ UNCHANGED <<client, pending, cancelOf, cancelled, fetch, published>>

\* The run ends; cancelling it again has no effect.
EndRun(r) ==
    /\ run' = [run EXCEPT ![r] = FreeRun]
    /\ cancelOf' = [f \in Runs |-> IF cancelOf[f] = r THEN None ELSE cancelOf[f]]
    /\ cancelled' = cancelled \ {r}
    /\ UNCHANGED pending

\* run() takes the record that is pending by now: another one, when the
\* document was scheduled again after the timer had fired.
StartRun(r) ==
    /\ run[r].at = "fired"
    /\ \/ /\ pending[run[r].doc] = None
          /\ EndRun(r)
       \/ /\ pending[run[r].doc] # None
          /\ cancelOf' = [cancelOf EXCEPT ![pending[run[r].doc]] = r]
          /\ run' = [run EXCEPT ![r].at = "started"]
          /\ UNCHANGED <<pending, cancelled>>
    /\ UNCHANGED <<client, fetch, published>>

GetBuffer(r) ==
    /\ run[r].at = "started"
    /\ \/ ~Open(run[r].doc) /\ EndRun(r)
       \/ /\ Open(run[r].doc)
          /\ run' = [run EXCEPT ![r].at = "validate", ![r].seen = buf[run[r].doc]]
          /\ UNCHANGED <<pending, cancelOf, cancelled>>
    /\ UNCHANGED <<client, fetch, published>>

\* ValidateDraft returns; a cancelled run is superseded.
Answered(r) ==
    /\ run[r].at = "validate"
    /\ \/ r \in cancelled /\ EndRun(r)
       \/ /\ r \notin cancelled
          /\ run' = [run EXCEPT ![r].at = "answered"]
          /\ UNCHANGED <<pending, cancelOf, cancelled>>
    /\ UNCHANGED <<client, fetch, published>>

BugUnchanged(r) == Open(run[r].doc)
\* The buffer did not advance while it was analyzed: its version is the same.
Unchanged(r) == Open(run[r].doc) /\ buf[run[r].doc].ver = run[r].seen.ver

\* Both a result and an error are published: the error clears the draft's.
CheckVersion(r) ==
    /\ run[r].at = "answered"
    /\ \/ ~Unchanged(r) /\ EndRun(r)
       \/ /\ Unchanged(r)
          /\ run' = [run EXCEPT ![r].at = "publish"]
          /\ UNCHANGED <<pending, cancelOf, cancelled>>
    /\ UNCHANGED <<client, fetch, published>>

StoreDraft(r) ==
    /\ run[r].at = "publish"
    /\ draft' = [draft EXCEPT ![run[r].doc] = run[r].seen.text]
    /\ run' = [run EXCEPT ![r].at = "stored"]
    /\ UNCHANGED <<client, pending, cancelOf, cancelled, fetch, project, shown>>

\* publishFile: the lock is released before the notification is sent.
MergeDraft(r) ==
    /\ run[r].at = "stored"
    /\ run' = [run EXCEPT ![r].at = "send", ![r].merge = Merge(run[r].doc)]
    /\ UNCHANGED <<client, pending, cancelOf, cancelled, fetch, published>>

SendDraft(r) ==
    /\ run[r].at = "send"
    /\ shown' = [shown EXCEPT ![run[r].doc] = run[r].merge]
    /\ EndRun(r)
    /\ UNCHANGED <<client, fetch, draft, project>>

Analysis(r) ==
    \/ StartRun(r) \/ GetBuffer(r) \/ Answered(r) \/ CheckVersion(r)
    \/ StoreDraft(r) \/ MergeDraft(r) \/ SendDraft(r)

-----------------------------------------------------------------------------
(* What the client sends.                                                   *)

NewText(d, ver) ==
    /\ texts < MaxTexts
    /\ texts' = texts + 1
    /\ buf' = [buf EXCEPT ![d] = [ver |-> ver, text |-> texts + 1]]
    /\ \E new \in News({d}) : Schedule({d}, new)

DidOpen(d) ==
    /\ ~Open(d)
    /\ NewText(d, IF Restarts THEN 1 ELSE texts + 1)
    /\ UNCHANGED <<fetch, published>>

DidChange(d) ==
    /\ Open(d)
    /\ NewText(d, buf[d].ver + 1)
    /\ UNCHANGED <<fetch, published>>

DidClose(d) ==
    /\ Open(d)
    /\ Cancel(d)
    /\ buf' = [buf EXCEPT ![d] = Closed]
    /\ draft' = [draft EXCEPT ![d] = None]
    /\ shown' = IF draft[d] = None THEN shown
                ELSE [shown EXCEPT ![d] = [draft |-> None, project |-> project]]
    /\ UNCHANGED <<texts, fetch, project>>

-----------------------------------------------------------------------------
(* Project-wide findings.                                                   *)

Idle == {k \in Fetches : fetch[k].at = "free"}

BugSpawn ==
    IF Idle = Fetches THEN \E k \in Idle : fetch' = [fetch EXCEPT ![k].at = "fetch"] ELSE UNCHANGED fetch

\* Each change has a project refresh of its own.
Spawn == \E k \in Idle : fetch' = [fetch EXCEPT ![k].at = "fetch"]

\* They have the answer and only have to store it.
Storing == {k \in Fetches : fetch[k].at = "store"}

\* The buffers that are analyzed again when the project has changed.
Reopened == {d \in Docs : Open(d)}

\* onProjectChange: the watch loop calls it, or the reader of the daemon's events.
OnProjectChange ==
    /\ Prompt => Storing = {}
    /\ Spawn
    /\ \E new \in News(Reopened) : Schedule(Reopened, new)
    /\ UNCHANGED <<client, published>>

\* ValidateProject answers with what is loaded, or fails.
Fetch(k) ==
    /\ fetch[k].at = "fetch"
    /\ fetch' = [fetch EXCEPT ![k] = [@ EXCEPT !.at = "store", !.diags = loaded]]
    /\ UNCHANGED <<client, analyzer, published>>

FailFetch(k) ==
    /\ fetch[k].at = "fetch"
    /\ fetch' = [fetch EXCEPT ![k] = FreeFetch]
    /\ UNCHANGED <<client, analyzer, published>>

StoreProject(k) ==
    /\ fetch[k].at = "store"
    /\ project' = fetch[k].diags
    /\ fetch' = [fetch EXCEPT ![k] = [@ EXCEPT !.at = "publish", !.left = Docs, !.diags = None]]
    /\ UNCHANGED <<client, analyzer, draft, shown>>

MergeProject(k) ==
    /\ fetch[k].at = "publish"
    /\ \E d \in fetch[k].left :
         fetch' = [fetch EXCEPT ![k] = [@ EXCEPT !.at = "send", !.merge = [doc |-> d, merge |-> Merge(d)]]]
    /\ UNCHANGED <<client, analyzer, published>>

SendProject(k) ==
    LET d == fetch[k].merge.doc
        left == fetch[k].left \ {d}
    IN  /\ fetch[k].at = "send"
        /\ shown' = [shown EXCEPT ![d] = fetch[k].merge.merge]
        /\ fetch' = [fetch EXCEPT ![k] =
                       IF left = {} THEN FreeFetch ELSE [@ EXCEPT !.at = "publish", !.left = left, !.merge = None]]
        /\ UNCHANGED <<client, analyzer, draft, project>>

Refreshing(k) == Fetch(k) \/ StoreProject(k) \/ MergeProject(k) \/ SendProject(k)

-----------------------------------------------------------------------------

\* Every step but OnProjectChange, which is a step of the backend too.
LspNext ==
    \/ \E d \in Docs : DidOpen(d) \/ DidChange(d) \/ DidClose(d)
    \/ \E r \in Runs : Fire(r) \/ Analysis(r)
    \/ \E k \in Fetches : Refreshing(k)

\* The daemon has loaded the project again and has told its clients.
ProjectChange ==
    /\ loaded < MaxChanges
    /\ loaded' = loaded + 1
    /\ OnProjectChange

Next ==
    \/ ProjectChange
    \/ (LspNext /\ UNCHANGED loaded)
    \/ \E k \in Fetches : FailFetch(k) /\ UNCHANGED loaded

vars == <<lspVars, loaded>>

\* Timers fire, goroutines run, and validations return.
LspFairness ==
    /\ \A r \in Runs : WF_vars((Fire(r) \/ Analysis(r)) /\ UNCHANGED loaded)
    /\ \A k \in Fetches : WF_vars(Refreshing(k) /\ UNCHANGED loaded)

ServerInit == Init /\ loaded = 0

Spec == ServerInit /\ [][Next]_vars
LiveSpec == Spec /\ LspFairness

-----------------------------------------------------------------------------
(* Properties.                                                              *)

Coming(d) == \E r \in Runs : run[r].doc = d

\* When no analysis of an open buffer is on its way, the draft findings are
\* about the text it holds: no older result has overwritten them, and no
\* newer text was left without an analysis.
DraftFresh == \A d \in Docs : Open(d) /\ ~Coming(d) => draft[d] = buf[d].text

\* A text that stays in an open buffer is analyzed.
LatestAnalyzed ==
    \A d \in Docs : \A t \in 1..MaxTexts :
        buf[d].text = t ~> draft[d] = t \/ buf[d].text # t

\* Nothing the client shows of a draft gives way to an older one.
NoStaleShown ==
    [][\A d \in Docs :
         shown[d] # None /\ shown'[d] # None /\ shown[d].draft # None /\ shown'[d].draft # None
             => shown'[d].draft >= shown[d].draft]_shown
=============================================================================
