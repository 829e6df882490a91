--------------------------- MODULE PreviewProcess ---------------------------
(***************************************************************************)
(* The `bino preview` subprocess of a daemon: internal/daemon/preview.go.  *)
(* The HTTP routes and the MCP tools call Start and Stop; a goroutine per  *)
(* subprocess reads its output and reports its state; another one kills a  *)
(* stopped subprocess that does not go; Shutdown waits for the last one    *)
(* before the daemon exits.  Steps under p.mu are atomic, the onStatus     *)
(* callback runs after the unlock.  Time is abstract: a timer may fire as  *)
(* soon as it runs.                                                        *)
(***************************************************************************)
EXTENDS Naturals

CONSTANTS
    Children,   \* the subprocesses a daemon may start, each once
    None,       \* no subprocess
    Foreign     \* a server of somebody else on the preview's port

ASSUME ChildrenAssumption == None \notin Children /\ Foreign \notin Children

VARIABLES
    cmd,        \* p.cmd: the subprocess the daemon manages
    status,     \* p.status
    proc,       \* what each subprocess does
    sig,        \* the strongest signal each subprocess has got
    unread,     \* the subprocesses whose ready line is still in the pipe
    watcher,    \* where the watch goroutine of each subprocess is
    killer,     \* the goroutine of stop() that waits three seconds
    port,       \* who listens on the preview's port
    told,       \* the last preview-status event
    daemon,     \* where the daemon is in its shutdown
    swept       \* the subprocess Shutdown waits for

vars == <<cmd, status, proc, sig, unread, watcher, killer, port, told, daemon, swept>>
child == <<proc, unread, port>>
goroutines == <<watcher, killer, told>>
shutdown == <<daemon, swept>>

TypeOK ==
    /\ cmd \in Children \cup {None}
    /\ status \in {"stopped", "starting", "running"}
    /\ proc \in [Children -> {"unborn", "booting", "serving", "dead"}]
    /\ sig \in [Children -> {"none", "interrupt", "kill"}]
    /\ unread \in SUBSET Children
    /\ watcher \in [Children -> {"off", "reading", "notify", "telling", "done"}]
    /\ killer \in [Children -> {"off", "waiting", "over"}]
    /\ port \in Children \cup {None, Foreign}
    /\ told \in {"stopped", "running"}
    /\ daemon \in {"up", "stopping", "closing", "down"}
    /\ swept \in Children \cup {None}

Init ==
    /\ cmd = None
    /\ status = "stopped"
    /\ proc = [c \in Children |-> "unborn"]
    /\ sig = [c \in Children |-> "none"]
    /\ unread = {}
    /\ watcher = [c \in Children |-> "off"]
    /\ killer = [c \in Children |-> "off"]
    /\ port = None
    /\ told = "stopped"
    /\ daemon = "up"
    /\ swept = None

Alive(c) == proc[c] \in {"booting", "serving"}

-----------------------------------------------------------------------------
(* The subprocess: it binds the port before it prints the ready line, and   *)
(* fails at once when the port is taken.                                    *)

Bind(c) ==
    /\ proc[c] = "booting"
    /\ port = None
    /\ port' = c
    /\ proc' = [proc EXCEPT ![c] = "serving"]
    /\ unread' = unread \cup {c}
    /\ UNCHANGED <<cmd, status, sig, goroutines, shutdown>>

\* It ends: the port is taken, it honours the interrupt, it is killed, it fails.
Die(c) ==
    /\ Alive(c)
    /\ proc' = [proc EXCEPT ![c] = "dead"]
    /\ port' = IF port = c THEN None ELSE port
    /\ UNCHANGED <<cmd, status, sig, unread, goroutines, shutdown>>

\* A preview started in a terminal takes the port, or leaves it.
ForeignServer ==
    /\ \/ port = None /\ port' = Foreign
       \/ port = Foreign /\ port' = None
    /\ UNCHANGED <<cmd, status, proc, sig, unread, goroutines, shutdown>>

-----------------------------------------------------------------------------
(* Start, Stop and Shutdown.                                                *)

BugIdle(c) == status # "running" /\ proc[c] = "unborn"

\* Nothing runs: a Start does not return the state of a running preview.
Idle(c) == cmd = None /\ proc[c] = "unborn"

\* A late request may still come while the daemon shuts down: the HTTP
\* server gives up waiting for its handlers after five seconds.
Start(c) ==
    /\ daemon # "down"
    /\ Idle(c)
    /\ cmd' = c
    /\ status' = "starting"
    /\ proc' = [proc EXCEPT ![c] = "booting"]
    /\ watcher' = [watcher EXCEPT ![c] = "reading"]
    /\ UNCHANGED <<sig, unread, killer, port, told, shutdown>>

Reset ==
    /\ cmd' = None
    /\ status' = "stopped"

\* stop(): where the interrupt cannot be sent the process is killed.
Interrupt(c) ==
    /\ \E s \in {"interrupt", "kill"} : sig' = [sig EXCEPT ![c] = s]
    /\ killer' = [killer EXCEPT ![c] = "waiting"]
    /\ Reset

Stop ==
    /\ daemon # "down"
    /\ cmd # None
    /\ Interrupt(cmd)
    /\ UNCHANGED <<child, watcher, told, shutdown>>

\* Nothing left to wait for: the process has exited, or its watcher is done.
BugReaped(c) == sig[c] # "none"
Reaped(c) == watcher[c] = "done"

Shutdown ==
    /\ daemon = "up"
    /\ \/ /\ cmd = None
          /\ daemon' = "closing"
          /\ UNCHANGED <<cmd, status, sig, killer, swept>>
       \/ /\ cmd # None
          /\ Interrupt(cmd)
          /\ swept' = cmd
          /\ daemon' = "stopping"
    /\ UNCHANGED <<child, watcher, told>>

\* The five seconds of Shutdown are over: a last kill, then it still waits.
GiveUpWaiting(c) == sig' = [sig EXCEPT ![c] = "kill"]

ShutdownTimeout ==
    /\ daemon = "stopping"
    /\ ~Reaped(swept)
    /\ GiveUpWaiting(swept)
    /\ UNCHANGED <<cmd, status, child, goroutines, shutdown>>

ShutdownDone ==
    /\ daemon = "stopping"
    /\ Reaped(swept)
    /\ daemon' = "closing"
    /\ UNCHANGED <<cmd, status, sig, child, goroutines, swept>>

\* The daemon's process ends, in order or killed: its goroutines end with it.
Exit ==
    /\ daemon = "closing"
    /\ daemon' = "down"
    /\ UNCHANGED <<cmd, status, sig, child, goroutines, swept>>

Crash ==
    /\ daemon \in {"up", "stopping"}
    /\ daemon' = "down"
    /\ UNCHANGED <<cmd, status, sig, child, goroutines, swept>>

-----------------------------------------------------------------------------
(* The goroutines of the daemon.                                            *)

BugIsReady(c) == status = "starting"
IsReady(c) == cmd = c /\ status = "starting"

\* watch() reads the ready line ...
ReadReady(c) ==
    /\ daemon # "down"
    /\ watcher[c] = "reading"
    /\ c \in unread
    /\ unread' = unread \ {c}
    /\ \/ /\ IsReady(c)
          /\ status' = "running"
          /\ watcher' = [watcher EXCEPT ![c] = "notify"]
       \/ /\ ~IsReady(c)
          /\ UNCHANGED <<status, watcher>>
    /\ UNCHANGED <<cmd, proc, sig, killer, port, told, shutdown>>

\* ... and reports it after the unlock.
TellRunning(c) ==
    /\ daemon # "down"
    /\ watcher[c] = "notify"
    /\ told' = "running"
    /\ watcher' = [watcher EXCEPT ![c] = "reading"]
    /\ UNCHANGED <<cmd, status, sig, child, killer, shutdown>>

BugReports(c) == cmd = c
\* Another preview has replaced this one: its state is not this one's to report.
Reports(c) == cmd \in {c, None}

BugEnded(c) == IF Reports(c) THEN "telling" ELSE "reading"
\* done is closed whether or not there is something to report.
Ended(c) == IF Reports(c) THEN "telling" ELSE "done"

\* The output ends: watch() reaps the process and resets the state if it is its own.
Reap(c) ==
    /\ daemon # "down"
    /\ watcher[c] = "reading"
    /\ c \notin unread
    /\ proc[c] = "dead"
    /\ watcher' = [watcher EXCEPT ![c] = Ended(c)]
    /\ IF cmd = c THEN Reset ELSE UNCHANGED <<cmd, status>>
    /\ UNCHANGED <<sig, child, killer, told, shutdown>>

TellStopped(c) ==
    /\ daemon # "down"
    /\ watcher[c] = "telling"
    /\ told' = "stopped"
    /\ watcher' = [watcher EXCEPT ![c] = "done"]
    /\ UNCHANGED <<cmd, status, sig, child, killer, shutdown>>

BugKillNow(c) == UNCHANGED sig
KillNow(c) == sig' = [sig EXCEPT ![c] = "kill"]

\* Three seconds after stop() the process is still there, or it has gone.
Kill(c) ==
    /\ daemon # "down"
    /\ killer[c] = "waiting"
    /\ \/ ~Reaped(c) /\ KillNow(c)
       \/ Reaped(c) /\ UNCHANGED sig
    /\ killer' = [killer EXCEPT ![c] = "over"]
    /\ UNCHANGED <<cmd, status, child, watcher, told, shutdown>>

-----------------------------------------------------------------------------

Goroutine(c) == ReadReady(c) \/ TellRunning(c) \/ Reap(c) \/ TellStopped(c) \/ Kill(c)

Next ==
    \/ \E c \in Children : Start(c) \/ Bind(c) \/ Die(c) \/ Goroutine(c)
    \/ ForeignServer
    \/ Stop \/ Shutdown \/ ShutdownTimeout \/ ShutdownDone \/ Exit \/ Crash

\* The goroutines are scheduled, timers fire, and a killed process dies.  A
\* process that was only interrupted may go on.
Fairness ==
    /\ \A c \in Children : WF_vars(Goroutine(c)) /\ WF_vars(sig[c] = "kill" /\ Die(c))
    /\ WF_vars(ShutdownTimeout) /\ WF_vars(ShutdownDone) /\ WF_vars(Exit)

Spec == Init /\ [][Next]_vars
LiveSpec == Spec /\ Fairness

-----------------------------------------------------------------------------
(* Properties.                                                              *)

\* At most one preview is meant to run: every other process that is alive has
\* been told to go, and while it has not been killed someone is there to do it.
OneManaged ==
    \A c \in Children : Alive(c) /\ c # cmd =>
        /\ sig[c] # "none"
        /\ sig[c] = "interrupt" /\ daemon # "down" => killer[c] = "waiting"

\* "running" is said of the process that listens on the port, or of one that
\* has just died: a caller that waits for it never probes the preview that was
\* stopped before, nor a server of somebody else.
RunningServes == status = "running" => port = cmd \/ proc[cmd] = "dead"

\* When the last preview is gone and every watcher is done, the last event
\* the clients got does not leave them with a preview that runs.
NoGhost ==
    (\A c \in Children : watcher[c] \in {"off", "done"}) => told = "stopped"

\* What callers of Status and clients of the event stream hear is true: neither
\* a preview that does not serve nor one that is gone is said to run.
Truthful == RunningServes /\ NoGhost

\* Shutdown does not return before the process it stopped has exited.
ShutdownReaps == swept # None /\ daemon = "closing" => proc[swept] = "dead"

\* A process that was told to go goes, unless the daemon that watches it dies first.
StoppedDies == \A c \in Children : sig[c] # "none" ~> proc[c] = "dead" \/ daemon = "down"

\* Shutdown ends: a process that ignores the interrupt does not keep the daemon alive.
ShutdownEnds == daemon = "stopping" ~> daemon = "down"

\* The daemon leaves no subprocess behind when it exits.
NoChildLeft == daemon = "closing" => \A c \in Children : ~Alive(c)
=============================================================================
