---------------------------- MODULE EditorSession ----------------------------
(***************************************************************************)
(* `bino lsp` without a daemon: internal/cli/lsp_inprocess.go.  The        *)
(* language server has a managed state of its own; the watch loop calls    *)
(* onProjectChange behind each refresh, on its own goroutine.              *)
(***************************************************************************)
EXTENDS LanguageServer

CONSTANTS
    Manifests,  \* files of the watch that are always relevant,
    Data,       \* or relevant when a manifest names them
    ChanCap,    \* capacity of refreshCh
    MaxEdits,   \* bound: changes on disk
    MaxFailures \* bound: refreshes that fail

ASSUME WatchAssumption ==
    /\ Manifests \cap Data = {}
    /\ ChanCap \in Nat \ {0}
    /\ MaxEdits \in Nat
    /\ MaxFailures \in Nat

VARIABLES disk, names, watching, unseen, events, refs, refreshing, dropped, queue,
          reasons, phase, toRead, read, documents, broken, failures

\* The project that the watch loads is the one the server reports on.
W == INSTANCE ManagedWatch

watchVars == <<disk, names, watching, unseen, events, refs, refreshing, dropped, queue,
               reasons, phase, toRead, read, loaded, documents, broken, failures>>
sessionVars == <<lspVars, watchVars>>

SessionInit == Init /\ W!Init

\* Start's callback.
TellServer == W!Tell /\ OnProjectChange

SessionNext ==
    \/ TellServer
    \/ (W!Step /\ UNCHANGED lspVars)
    \/ (LspNext /\ UNCHANGED watchVars)

\* Goroutines run, timers fire, and validations return.
SessionFairness ==
    /\ WF_sessionVars(TellServer)
    /\ WF_sessionVars(W!Loop /\ phase # "tell" /\ UNCHANGED lspVars)
    /\ \A f \in W!Files : WF_sessionVars(W!Handle(f) /\ UNCHANGED lspVars)
    /\ \A r \in Runs : WF_sessionVars((Fire(r) \/ Analysis(r)) /\ UNCHANGED watchVars)
    /\ \A k \in Fetches : WF_sessionVars(Refreshing(k) /\ UNCHANGED watchVars)

SessionSpec == SessionInit /\ [][SessionNext]_sessionVars
LiveSession == SessionSpec /\ SessionFairness

-----------------------------------------------------------------------------
(* Properties.                                                              *)

\* What the watch promises holds in the session: no change is lost on its way, and
\* the loaded project follows the files and never goes back (ManagedWatch).
ChangesDue == W!ChangesDue
StateFollows == W!StateFollows

\* When nothing is on its way the findings the server holds are about the
\* project that is loaded: the last of two overlapping refreshes wins.
ProjectFollows ==
    phase # "finish" /\ phase # "tell" /\ Idle = Fetches => project = loaded

\* A change of a file the project reads ends in the findings of the server.
ChangesReported ==
    \A f \in W!Files :
        f \in W!Followed /\ loaded[f] # disk[f]
            ~> \/ f \notin W!Followed \/ f \in unseen \/ broken
               \/ (loaded[f] = disk[f] /\ project # None /\ project[f] = disk[f])
=============================================================================
