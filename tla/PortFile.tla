------------------------------ MODULE PortFile ------------------------------
(***************************************************************************)
(* The life of the daemons of one project and how their clients find them: *)
(* internal/daemon/portfile.go, internal/cli/daemon.go, the editor's       *)
(* client (vscode-bino/src/daemonClient.ts), and `bino lsp` and `bino mcp` *)
(* (internal/cli/lsp_server.go, mcp.go).  A daemon announces itself in     *)
(* .bino/daemon.json; nothing but the file system synchronizes the         *)
(* processes.                                                              *)
(***************************************************************************)
EXTENDS Naturals

CONSTANTS
    Daemons,    \* the daemon processes, each a process id of its own
    ByHand,     \* those of them that are started in a terminal
    Tools,      \* the `bino lsp` and `bino mcp` processes
    None,       \* no file, or no daemon
    Torn,       \* a file that is not valid JSON: truncated, not yet written
    MaxFailures \* bound: daemons that fail to start, or are killed

ASSUME NamesAssumption == {None, Torn} \cap Daemons = {} /\ None # Torn /\ Tools \cap Daemons = {}
ASSUME FailuresAssumption == MaxFailures \in Nat

VARIABLES
    file,       \* the port file: absent, torn, or the daemon it names
    phase,      \* where each daemon is in its life
    read,       \* what each daemon or tool has read of the file
    spawned,    \* the daemons the editor has started, until it hears of their exit
    editor,     \* the editor's client: its status, and the daemon it looks at
    tool,       \* what each tool has found
    stolen,     \* a live daemon has lost its file to one that did not see it
    failures

vars == <<file, phase, read, spawned, editor, tool, stolen, failures>>

Content == Daemons \cup {None, Torn}

Phases == {"off", "check", "judge", "start", "write", "up", "drain", "gone"}

EditorStatus == {"idle", "look", "probe", "spawn", "poll", "pollProbe", "connected", "reconnect", "error"}

TypeOK ==
    /\ file \in Content
    /\ phase \in [Daemons -> Phases]
    /\ read \in [Daemons \cup Tools -> Content]
    /\ spawned \in SUBSET Daemons
    /\ editor \in [status : EditorStatus, at : Daemons \cup {None}]
    /\ tool \in [Tools -> {"look", "judge", "probe", "proxy", "standalone"}]
    /\ stolen \in BOOLEAN
    /\ failures \in 0..MaxFailures

Init ==
    /\ file = None
    /\ phase = [d \in Daemons |-> "off"]
    /\ read = [r \in Daemons \cup Tools |-> None]
    /\ spawned = {}
    /\ editor = [status |-> "idle", at |-> None]
    /\ tool = [t \in Tools |-> "look"]
    /\ stolen = FALSE
    /\ failures = 0

\* processAlive: the process exists, whatever it does.
Alive(d) == phase[d] \notin {"off", "gone"}

\* GET /health is answered.
Healthy(d) == phase[d] = "up"

Go(d, p) == phase' = [phase EXCEPT ![d] = p]

\* The process ends, and what it has read goes with it.
End(d) == Go(d, "gone") /\ read' = [read EXCEPT ![d] = None]

-----------------------------------------------------------------------------
(* ReadPortFile reads the content first and judges it next; in between the  *)
(* file may become another one.                                             *)

Found(c) == c \in Daemons /\ Alive(c)

\* A torn file and one that names a dead process are removed, whatever the
\* path holds by then; the caller hears that there is no daemon.
BugTakesAway(c) == FALSE
TakesAway(c) == c # None /\ ~Found(c)

\* The file is one that a live daemon has written or is about to write.
Owned(owners) == file \in owners \/ (file = Torn /\ \E d \in owners : phase[d] = "write")

Judge(c) ==
    /\ file' = IF TakesAway(c) THEN None ELSE file
    /\ stolen' = (stolen \/ (TakesAway(c) /\ Owned({d \in Daemons : Alive(d)})))

Rivals(d) == {e \in Daemons \ {d} : Alive(e)}

DaemonCheck(d) ==
    /\ phase[d] = "check"
    /\ read' = [read EXCEPT ![d] = file]
    /\ Go(d, "judge")
    /\ UNCHANGED <<file, spawned, editor, tool, stolen, failures>>

BugRefuses(c) == FALSE
\* "daemon already running"
Refuses(c) == Found(c)

DaemonJudge(d) ==
    /\ phase[d] = "judge"
    /\ Judge(read[d])
    /\ IF Refuses(read[d]) THEN End(d) ELSE Go(d, "start") /\ UNCHANGED read
    /\ UNCHANGED <<spawned, editor, tool, failures>>

ToolRead(t) ==
    /\ tool[t] = "look"
    /\ read' = [read EXCEPT ![t] = file]
    /\ tool' = [tool EXCEPT ![t] = "judge"]
    /\ UNCHANGED <<file, phase, spawned, editor, stolen, failures>>

ToolJudge(t) ==
    /\ tool[t] = "judge"
    /\ Judge(read[t])
    /\ tool' = [tool EXCEPT ![t] = IF Found(read[t]) THEN "probe" ELSE "standalone"]
    /\ UNCHANGED <<phase, read, spawned, editor, failures>>

\* It proxies to the daemon, or falls back to a state of its own.
ToolConnect(t) ==
    /\ tool[t] = "probe"
    /\ tool' = [tool EXCEPT ![t] = IF Healthy(read[t]) THEN "proxy" ELSE "standalone"]
    /\ read' = [read EXCEPT ![t] = None]
    /\ UNCHANGED <<file, phase, spawned, editor, stolen, failures>>

\* The client of the tool leaves and another one comes.
ToolRestart(t) ==
    /\ tool[t] \in {"proxy", "standalone"}
    /\ tool' = [tool EXCEPT ![t] = "look"]
    /\ UNCHANGED <<file, phase, read, spawned, editor, stolen, failures>>

-----------------------------------------------------------------------------
(* The daemon: the state is loaded and the port is bound before the file    *)
(* is written; it is drained and its preview stopped before it is removed.  *)

\* os.WriteFile truncates the file or creates it, also one that has been
\* written since the check ...
Truncate(d) ==
    /\ phase[d] = "start"
    /\ file' = Torn
    /\ stolen' = (stolen \/ (Owned(Rivals(d)) /\ file \in {Torn} \cup (Content \ {read[d]})))
    /\ Go(d, "write")
    /\ UNCHANGED <<read, spawned, editor, tool, failures>>

\* ... and writes to it, which no path shows if it was removed meanwhile.
WritePortFile(d) ==
    /\ phase[d] = "write"
    /\ file' = IF file = None THEN None ELSE d
    /\ read' = [read EXCEPT ![d] = None]
    /\ Go(d, "up")
    /\ UNCHANGED <<spawned, editor, tool, stolen, failures>>

\* A start that fails before the file is written.
FailStart(d) ==
    /\ failures < MaxFailures
    /\ phase[d] = "start"
    /\ failures' = failures + 1
    /\ End(d)
    /\ UNCHANGED <<file, spawned, editor, tool, stolen>>

\* SIGTERM, POST /shutdown, inactivity: the event streams are closed first.
Drain(d) ==
    /\ phase[d] = "up"
    /\ Go(d, "drain")
    /\ UNCHANGED <<file, read, spawned, editor, tool, stolen, failures>>

\* The requests are drained and the preview has been stopped: the file is
\* removed, whoever wrote it.
RemovePortFile(d) ==
    /\ phase[d] = "drain"
    /\ file' = None
    /\ stolen' = (stolen \/ Owned(Rivals(d)))
    /\ Go(d, "gone")
    /\ UNCHANGED <<read, spawned, editor, tool, failures>>

\* Killed: no file is removed, and the streams break.
Crash(d) ==
    /\ failures < MaxFailures
    /\ Alive(d)
    /\ failures' = failures + 1
    /\ End(d)
    /\ UNCHANGED <<file, spawned, editor, tool, stolen>>

-----------------------------------------------------------------------------
(* The editor's client.                                                     *)

Editor(s, d) == editor' = [status |-> s, at |-> d]

\* The first connect(), or a restart() that the user asks for while there is no
\* connection; the SIGTERM to the daemon it knew is a Drain.
Connect ==
    /\ editor.status \in {"idle", "error"}
    /\ Editor("look", None)
    /\ UNCHANGED <<file, phase, read, spawned, tool, stolen, failures>>

\* readPortFile: a torn file counts as none, and nothing is removed.
EditorRead ==
    /\ editor.status \in {"look", "poll"}
    /\ IF file \in Daemons
       THEN Editor(IF editor.status = "look" THEN "probe" ELSE "pollProbe", file)
       ELSE editor.status = "look" /\ Editor("spawn", None)
    /\ UNCHANGED <<file, phase, read, spawned, tool, stolen, failures>>

BugStale == "poll"  \* mutant: a stale file is waited for
\* A stale file leads to a new daemon, or to another poll.
Stale == IF editor.status = "probe" THEN "spawn" ELSE "poll"

\* healthCheck
EditorProbe ==
    /\ editor.status \in {"probe", "pollProbe"}
    /\ IF Healthy(editor.at)
       THEN Editor("connected", editor.at)
       ELSE Editor(Stale, None)
    /\ UNCHANGED <<file, phase, read, spawned, tool, stolen, failures>>

Unstarted == {d \in Daemons : phase[d] = "off"}

\* `bino daemon` in a terminal.
Launch(d) ==
    /\ d \in Unstarted \cap ByHand
    /\ Go(d, "check")
    /\ UNCHANGED <<file, read, spawned, editor, tool, stolen, failures>>

Spawn(d) ==
    /\ d \in Unstarted \ ByHand
    /\ d = CHOOSE e \in Unstarted \ ByHand : TRUE
    /\ editor.status = "spawn"
    /\ Go(d, "check")
    /\ spawned' = spawned \cup {d}
    /\ Editor("poll", None)
    /\ UNCHANGED <<file, read, tool, stolen, failures>>

\* No daemon is on its way, and none that answers is to be found.
Hopeless ==
    \A d \in Daemons :
        /\ phase[d] \notin {"check", "judge", "start", "write"}
        /\ file = d => ~Healthy(d)

\* Ten seconds without a daemon that answers; ten seconds are enough for a
\* daemon to start.
PollTimeout ==
    /\ editor.status = "poll"
    /\ Hopeless
    /\ Editor("error", None)
    /\ UNCHANGED <<file, phase, read, spawned, tool, stolen, failures>>

\* The event stream ends or breaks: the client is disconnected, and waits to be
\* asked for a restart.
StreamEnds ==
    /\ editor.status = "connected"
    /\ ~Healthy(editor.at)
    /\ Editor("idle", None)
    /\ UNCHANGED <<file, phase, read, spawned, tool, stolen, failures>>

\* The exit of a daemon it has started leads to a reconnect only while it still
\* is connected: the end of the stream may have been quicker.
SpawnedExits(d) ==
    /\ d \in spawned
    /\ phase[d] = "gone"
    /\ spawned' = spawned \ {d}
    /\ IF editor.status = "connected" THEN Editor("reconnect", None)
                                      ELSE UNCHANGED editor
    /\ UNCHANGED <<file, phase, read, tool, stolen, failures>>

\* Three seconds later.
Reconnect ==
    /\ editor.status = "reconnect"
    /\ Editor("look", None)
    /\ UNCHANGED <<file, phase, read, spawned, tool, stolen, failures>>

\* restart(): SIGTERM, 400 ms, connect().  The daemon may need longer.
Restart ==
    /\ editor.status = "connected"
    /\ phase' = IF Healthy(editor.at) THEN [phase EXCEPT ![editor.at] = "drain"] ELSE phase
    /\ Editor("look", None)
    /\ UNCHANGED <<file, read, spawned, tool, stolen, failures>>

-----------------------------------------------------------------------------

Next ==
    \/ \E d \in Daemons :
         \/ DaemonCheck(d) \/ DaemonJudge(d) \/ Truncate(d) \/ WritePortFile(d)
         \/ FailStart(d) \/ Drain(d) \/ RemovePortFile(d)
         \/ Crash(d) \/ Launch(d) \/ Spawn(d) \/ SpawnedExits(d)
    \/ \E t \in Tools : ToolRead(t) \/ ToolJudge(t) \/ ToolConnect(t) \/ ToolRestart(t)
    \/ Connect \/ EditorRead \/ EditorProbe \/ PollTimeout \/ StreamEnds \/ Reconnect \/ Restart

\* Processes run, and the editor's timers fire.  Nobody has to ask for a
\* restart or a connection, to kill a daemon or to let one fail.
Fairness ==
    /\ \A d \in Daemons :
         /\ WF_vars(DaemonCheck(d) \/ DaemonJudge(d) \/ Truncate(d) \/ WritePortFile(d))
         /\ WF_vars(RemovePortFile(d))
         /\ WF_vars(SpawnedExits(d))
    /\ \A t \in Tools : WF_vars(ToolJudge(t))
    /\ WF_vars(EditorRead) /\ WF_vars(EditorProbe) /\ WF_vars(\E d \in Daemons : Spawn(d))
    /\ WF_vars(StreamEnds) /\ WF_vars(Reconnect)

Spec == Init /\ [][Next]_vars
LiveSpec == Spec /\ Fairness

-----------------------------------------------------------------------------
(* Properties.                                                              *)

Serving == {d \in Daemons : Healthy(d)}

\* One daemon serves the project: "daemon already running" refuses a second.
OneDaemon == \A d, e \in Serving : d = e

\* Who has seen the file of a daemon that serves does not become a second one.
\* A second daemon needs a thief that did not see it: that judged an older
\* content, or a file that was half-written.
SecondDaemon == OneDaemon \/ stolen

\* A daemon that serves and is not in its port file cannot be found.
Hidden == \E d \in Serving : file # d

\* The daemons stand in the way of a connection by themselves: one is hidden,
\* one is on its way out, or (a bound) none is left that the editor could start.
Excused ==
    \/ Hidden
    \/ \E d \in Daemons : phase[d] = "drain"
    \/ editor.status = "spawn" /\ Unstarted \subseteq ByHand

Connected == editor.status = "connected" /\ Healthy(editor.at)

\* Once the editor looks for a daemon, by itself behind the exit of the last one
\* or asked to, and no daemon fails any more, it comes to be connected with one
\* that answers: neither the stale or torn file of a daemon that was killed nor
\* the daemons and tools that judge the same file keep it from that.
Recovers ==
    (editor.status \in {"look", "reconnect"} /\ failures = MaxFailures)
        ~> Connected \/ Excused

\* What the reconnect is there for: after the death of the daemon it has started
\* the editor finds or starts another by itself.  It does not when the end of the
\* event stream is handled before the exit of the process.
CrashRecovers ==
    \A d \in Daemons :
        (/\ editor = [status |-> "connected", at |-> d]
         /\ phase[d] = "gone" /\ d \in spawned /\ failures = MaxFailures)
            ~> Connected \/ Excused

\* A restart asked for ends with a connection to the next daemon.
RestartConnects ==
    editor.status = "look" ~> editor.status = "connected"
=============================================================================
