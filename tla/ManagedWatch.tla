----------------------------- MODULE ManagedWatch -----------------------------
(***************************************************************************)
(* The watch loop of a managed state: internal/daemon/managed.go with      *)
(* watchfilter.go and State.Refresh.  Events of files the loaded documents *)
(* do not read are dropped; those dropped while a refresh runs are checked *)
(* again behind it.  The watcher calls the handler on a goroutine of its   *)
(* own, the loop refreshes on another one.  EditorSession instantiates the *)
(* module and states what is assumed of its constants.                     *)
(***************************************************************************)
EXTENDS Naturals

CONSTANTS
    Manifests,  \* files that are always relevant
    Data,       \* files that are relevant when a manifest names them
    ChanCap,    \* capacity of refreshCh
    MaxEdits,   \* bound: changes on disk
    MaxFailures \* bound: refreshes that fail

VARIABLES
    disk,       \* the edit that wrote each file last
    names,      \* the data files each manifest on disk names
    watching,   \* the file watcher has registered its directories
    unseen,     \* files changed after the first load and before that
    events,     \* files whose event has not been handled
    refs,       \* refs: the data files the handler takes for relevant
    refreshing, \* refreshing
    dropped,    \* dropped
    queue,      \* the number of reasons in refreshCh
    reasons,    \* the loop has reasons, and its timer runs
    phase,      \* where the loop is
    toRead,     \* the files the running refresh has not read yet
    read,       \* what it has read: the edits, and the data files named
    loaded,     \* State: the edits the documents and views are made of
    documents,  \* State: the data files the loaded documents name
    broken,     \* the last refresh has failed
    failures

vars == <<disk, names, watching, unseen, events, refs, refreshing, dropped, queue,
          reasons, phase, toRead, read, loaded, documents, broken, failures>>
files == <<disk, names, watching, unseen>>
handler == <<refs, refreshing, dropped>>
refresh == <<toRead, read>>
state == <<loaded, documents, broken, failures>>

Files == Manifests \cup Data

TypeOK ==
    /\ disk \in [Files -> 0..MaxEdits]
    /\ names \in [Manifests -> SUBSET Data]
    /\ watching \in BOOLEAN /\ broken \in BOOLEAN /\ refreshing \in BOOLEAN /\ reasons \in BOOLEAN
    /\ unseen \in SUBSET Files /\ events \in SUBSET Files
    /\ refs \in SUBSET Data /\ dropped \in SUBSET Data
    /\ queue \in 0..ChanCap
    /\ phase \in {"idle", "begin", "load", "finish", "failed", "tell"}
    /\ toRead \in SUBSET Files
    /\ read \in [edits : [Files -> 0..MaxEdits], named : SUBSET Data]
    /\ loaded \in [Files -> 0..MaxEdits]
    /\ documents \in SUBSET Data
    /\ failures \in 0..MaxFailures

\* The daemon has loaded the project once and does not watch it yet.
Init ==
    /\ disk = [f \in Files |-> 0]
    /\ names \in [Manifests -> SUBSET Data]
    /\ watching = FALSE
    /\ unseen = {}
    /\ events = {}
    /\ loaded = disk
    /\ documents = UNION {names[m] : m \in Manifests}
    /\ refs = documents
    /\ refreshing = FALSE
    /\ dropped = {}
    /\ queue = 0
    /\ reasons = FALSE
    /\ phase = "idle"
    /\ toRead = {}
    /\ read = [edits |-> disk, named |-> {}]
    /\ broken = FALSE
    /\ failures = 0

-----------------------------------------------------------------------------
(* The disk and the watcher.                                                *)

\* The edits are numbered.
Following(n) ==
    /\ \A f \in Files : disk[f] < n
    /\ n = 1 \/ \E f \in Files : disk[f] = n - 1

\* Before the watch begins nobody hears of it.
Edit(f) ==
    /\ \E n \in 1..MaxEdits : Following(n) /\ disk' = [disk EXCEPT ![f] = n]
    /\ IF f \in Manifests
       THEN \E named \in SUBSET Data : names' = [names EXCEPT ![f] = named]
       ELSE UNCHANGED names
    /\ IF watching
       THEN events' = events \cup {f} /\ unseen' = unseen \ {f}
       ELSE unseen' = unseen \cup {f} /\ UNCHANGED events
    /\ UNCHANGED <<watching, handler, queue, reasons, phase, refresh, state>>

\* Watch() is called after the first load; it starts from the loaded documents.
Watch ==
    /\ ~watching
    /\ watching' = TRUE
    /\ UNCHANGED <<disk, names, unseen, events, handler, queue, reasons, phase, refresh, state>>

\* A full channel drops the reason: a refresh is due anyway.
Enqueue(n) == queue' = IF queue + n > ChanCap THEN ChanCap ELSE queue + n

Relevant(f) == f \in Manifests \cup refs

BugRemember(f) == FALSE
\* The running refresh may be adding a reference to it.
Remember(f) == refreshing

Handle(f) ==
    /\ f \in events
    /\ events' = events \ {f}
    /\ IF Relevant(f)
       THEN Enqueue(1) /\ UNCHANGED dropped
       ELSE /\ dropped' = IF Remember(f) THEN dropped \cup {f} ELSE dropped
            /\ UNCHANGED queue
    /\ UNCHANGED <<files, refs, refreshing, reasons, phase, refresh, state>>

-----------------------------------------------------------------------------
(* The loop.                                                                *)

\* A reason comes from the channel and starts the timer again.
Take ==
    /\ phase = "idle"
    /\ queue > 0
    /\ queue' = queue - 1
    /\ reasons' = TRUE
    /\ UNCHANGED <<files, events, handler, phase, refresh, state>>

\* 300 ms without another one.
Tick ==
    /\ phase = "idle"
    /\ reasons
    /\ reasons' = FALSE
    /\ phase' = "begin"
    /\ UNCHANGED <<files, events, handler, queue, refresh, state>>

Begin ==
    /\ phase = "begin"
    /\ refreshing' = TRUE
    /\ phase' = "load"
    /\ toRead' = Files
    /\ read' = [read EXCEPT !.named = {}]
    /\ UNCHANGED <<files, events, refs, dropped, queue, reasons, state>>

\* State.Refresh reads the manifests, one after another, then the data.
Read(f) ==
    /\ phase = "load"
    /\ f \in toRead
    /\ f \in Data => toRead \cap Manifests = {}
    /\ toRead' = toRead \ {f}
    /\ read' = [edits |-> [read.edits EXCEPT ![f] = disk[f]],
                named |-> IF f \in Manifests THEN read.named \cup names[f] ELSE read.named]
    /\ UNCHANGED <<files, events, handler, queue, reasons, phase, state>>

Loaded ==
    /\ phase = "load"
    /\ toRead = {}
    /\ loaded' = read.edits
    /\ documents' = read.named
    /\ unseen' = {}
    /\ broken' = FALSE
    /\ phase' = "finish"
    /\ UNCHANGED <<disk, names, watching, events, handler, queue, reasons, refresh, failures>>

BugKeepState ==
    /\ loaded' = [f \in Files |-> 0]
    /\ documents' = {}
\* State keeps the old documents.
KeepState == UNCHANGED <<loaded, documents>>

\* The documents do not load.
FailLoad ==
    /\ phase = "load"
    /\ failures < MaxFailures
    /\ failures' = failures + 1
    /\ broken' = TRUE
    /\ KeepState
    /\ phase' = "failed"
    /\ toRead' = {}
    /\ UNCHANGED <<files, events, handler, queue, reasons, read>>

BugRecheck(next) == {}
\* The events dropped meanwhile that the new references make relevant.
Recheck(next) == dropped \cap next

\* finishRefresh, and its notify calls behind the unlock.
FinishRefresh(next) ==
    /\ refs' = next
    /\ dropped' = {}
    /\ refreshing' = FALSE
    /\ IF Recheck(next) = {} THEN UNCHANGED queue ELSE Enqueue(1)

Finish ==
    /\ phase = "finish"
    /\ FinishRefresh(documents)
    /\ phase' = "tell"
    /\ UNCHANGED <<files, events, reasons, refresh, state>>

Fail ==
    /\ phase = "failed"
    /\ FinishRefresh(refs)
    /\ phase' = "idle"
    /\ UNCHANGED <<files, events, reasons, refresh, state>>

\* onRefresh.
Tell ==
    /\ phase = "tell"
    /\ phase' = "idle"
    /\ UNCHANGED <<files, events, handler, queue, reasons, refresh, state>>

-----------------------------------------------------------------------------

Loop == Take \/ Tick \/ Begin \/ Loaded \/ Finish \/ Fail \/ Tell \/ \E f \in Files : Read(f)

Step == Watch \/ FailLoad \/ Take \/ Tick \/ Begin \/ Loaded \/ Finish \/ Fail
        \/ \E f \in Files : Edit(f) \/ Handle(f) \/ Read(f)

Next == Step \/ Tell

\* The goroutines are scheduled and the timer fires.
Fairness == WF_vars(Loop) /\ \A f \in Files : WF_vars(Handle(f))

Spec == Init /\ [][Next]_vars
LiveSpec == Spec /\ Fairness

-----------------------------------------------------------------------------
(* Properties.                                                              *)

\* A refresh that starts later is on its way, or the running one has yet to
\* read the file, or will check its event again.
Due(f) ==
    \/ f \in events
    \/ queue > 0 \/ reasons \/ phase = "begin"
    \/ f \in toRead
    \/ phase = "load" /\ read.edits[f] = disk[f]
    \/ phase \in {"load", "finish"} /\ f \in dropped

\* What the state should have followed: the manifests, and the data files its
\* documents name.
Followed == Manifests \cup documents

\* No change is lost between the watcher, the filter and the debounce: an
\* outdated file of the loaded project has a refresh coming, unless it was
\* changed before the watch began, or the last refresh has failed.
ChangesDue == \A f \in Followed : loaded[f] = disk[f] \/ Due(f) \/ f \in unseen \/ broken

F == INSTANCE Follower WITH Keys <- Files, source <- disk, copy <- loaded

\* The loaded project implements Follower over the files on disk: whatever the
\* events, the debounce and failing refreshes do, it never goes back to an older
\* change of a file and is never emptied (State.Refresh: a project that does not
\* load leaves the documents as they were).
StateFollows == F!Spec

\* Every such change is loaded in the end.
ChangesLoaded ==
    \A f \in Files :
        f \in Followed /\ loaded[f] # disk[f]
            ~> f \notin Followed \/ loaded[f] = disk[f] \/ broken \/ f \in unseen
=============================================================================
