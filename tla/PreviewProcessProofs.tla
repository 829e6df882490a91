------------------------ MODULE PreviewProcessProofs ------------------------
(* The daemon's preview subprocess, for every number of subprocesses.        *)
EXTENDS PreviewProcess, TLAPS

\* A subprocess and what the daemon keeps of it.
Lives ==
    \A c \in Children :
        /\ proc[c] = "serving" <=> port = c
        /\ c \in unread => proc[c] \in {"serving", "dead"}
        /\ watcher[c] = "off" <=> proc[c] = "unborn"
        /\ watcher[c] \in {"telling", "done"} => proc[c] = "dead"

\* The managed one is watched, and its state is not "stopped".
Managed ==
    /\ cmd = None <=> status = "stopped"
    /\ cmd # None => watcher[cmd] \in {"reading", "notify"}

Watched == \E c \in Children : watcher[c] \in {"reading", "notify", "telling"}

\* Who has been told of a preview that runs will be told of its end.
Announced == told = "running" => Watched

Sweeping ==
    /\ daemon = "up" => swept = None
    /\ daemon = "stopping" => swept \in Children

Safe == OneManaged /\ RunningServes /\ ShutdownReaps

IInv == TypeOK /\ Lives /\ Managed /\ Announced /\ Sweeping /\ Safe

-----------------------------------------------------------------------------
LEMMA InitInv == Init => IInv
  <1> SUFFICES ASSUME Init PROVE IInv
    OBVIOUS
  <1> USE ChildrenAssumption DEF Init
  <1>1. TypeOK
    BY DEF TypeOK
  <1>2. Lives /\ Managed /\ Announced /\ Sweeping
    BY DEF Lives, Managed, Announced, Sweeping
  <1>3. Safe
    BY DEF Safe, OneManaged, RunningServes, ShutdownReaps, Alive
  <1> QED
    BY <1>1, <1>2, <1>3 DEF IInv

LEMMA TypeStep == TypeOK /\ [Next]_vars => TypeOK'
  <1> SUFFICES ASSUME TypeOK, [Next]_vars PROVE TypeOK'
    OBVIOUS
  <1> USE DEF TypeOK, child, goroutines, shutdown
  <1>1. ASSUME NEW c \in Children, Start(c) \/ Bind(c) \/ Die(c) PROVE TypeOK'
    BY <1>1 DEF Start, Bind, Die
  <1>2. ASSUME NEW c \in Children, Goroutine(c) PROVE TypeOK'
    BY <1>2 DEF Goroutine, ReadReady, TellRunning, Reap, Ended, Reset, TellStopped, Kill, KillNow
  <1>3. CASE ForeignServer \/ ShutdownTimeout \/ ShutdownDone \/ Exit \/ Crash
    BY <1>3 DEF ForeignServer, ShutdownTimeout, GiveUpWaiting, ShutdownDone, Exit, Crash
  <1>4. CASE Stop \/ Shutdown
    BY <1>4 DEF Stop, Shutdown, Interrupt, Reset
  <1>5. CASE UNCHANGED vars
    BY <1>5 DEF vars
  <1> QED
    BY <1>1, <1>2, <1>3, <1>4, <1>5 DEF Next

LEMMA LivesStep == IInv /\ [Next]_vars => Lives'
  <1> SUFFICES ASSUME IInv, [Next]_vars PROVE Lives'
    OBVIOUS
  <1> USE ChildrenAssumption DEF IInv, TypeOK, Lives, child, goroutines, shutdown
  <1>1. ASSUME NEW c \in Children, Start(c) PROVE Lives'
    BY <1>1 DEF Start, Idle
  <1>2. ASSUME NEW c \in Children, Bind(c) PROVE Lives'
    BY <1>2 DEF Bind
  <1>3. ASSUME NEW c \in Children, Die(c) PROVE Lives'
    BY <1>3 DEF Die, Alive
  <1>4. ASSUME NEW c \in Children, ReadReady(c) \/ TellRunning(c) \/ TellStopped(c) \/ Kill(c)
        PROVE  Lives'
    BY <1>4 DEF ReadReady, TellRunning, TellStopped, Kill
  <1>5. ASSUME NEW c \in Children, Reap(c) PROVE Lives'
    BY <1>5 DEF Reap, Ended
  <1>6. CASE ForeignServer
    BY <1>6 DEF ForeignServer
  <1>7. CASE Stop \/ Shutdown \/ ShutdownTimeout \/ ShutdownDone \/ Exit \/ Crash
    BY <1>7 DEF Stop, Shutdown, ShutdownTimeout, ShutdownDone, Exit, Crash
  <1>8. CASE UNCHANGED vars
    BY <1>8 DEF vars
  <1> QED
    BY <1>1, <1>2, <1>3, <1>4, <1>5, <1>6, <1>7, <1>8 DEF Next, Goroutine

LEMMA ManagedStep == IInv /\ [Next]_vars => Managed' /\ Announced' /\ Sweeping'
  <1> SUFFICES ASSUME IInv, [Next]_vars PROVE Managed' /\ Announced' /\ Sweeping'
    OBVIOUS
  <1> USE ChildrenAssumption
      DEF IInv, TypeOK, Managed, Announced, Watched, Sweeping, child, goroutines, shutdown
  <1>1. ASSUME NEW c \in Children, Start(c) PROVE Managed' /\ Announced' /\ Sweeping'
    <2>1. watcher' = [watcher EXCEPT ![c] = "reading"] /\ watcher'[c] = "reading" /\ cmd' = c
      BY <1>1 DEF Start
    <2> QED
      BY <1>1, <2>1 DEF Start
  <1>2. ASSUME NEW c \in Children, Bind(c) \/ Die(c) \/ Kill(c)
        PROVE  Managed' /\ Announced' /\ Sweeping'
    BY <1>2 DEF Bind, Die, Kill
  <1>3. ASSUME NEW c \in Children, ReadReady(c) PROVE Managed' /\ Announced' /\ Sweeping'
    BY <1>3 DEF ReadReady, IsReady
  <1>4. ASSUME NEW c \in Children, TellRunning(c) PROVE Managed' /\ Announced' /\ Sweeping'
    BY <1>4 DEF TellRunning
  <1>5. ASSUME NEW c \in Children, TellStopped(c) PROVE Managed' /\ Announced' /\ Sweeping'
    BY <1>5 DEF TellStopped
  <1>6. ASSUME NEW c \in Children, Reap(c) PROVE Managed' /\ Announced' /\ Sweeping'
    <2>1. Managed' /\ Sweeping'
      BY <1>6 DEF Reap, Reset
    <2>2. CASE Reports(c)
      <3>1. watcher'[c] = "telling"
        BY <1>6, <2>2 DEF Reap, Ended
      <3> QED
        BY <2>1, <3>1
    <2>3. CASE ~Reports(c)
      <3>1. cmd \in Children /\ cmd # c /\ watcher'[cmd] = watcher[cmd]
        BY <1>6, <2>3 DEF Reports, Reap
      <3> QED
        BY <2>1, <3>1
    <2> QED
      BY <2>2, <2>3
  <1>7. CASE Stop \/ Shutdown
    BY <1>7 DEF Stop, Shutdown, Interrupt, Reset
  <1>8. CASE ForeignServer \/ ShutdownTimeout \/ ShutdownDone \/ Exit \/ Crash
    BY <1>8 DEF ForeignServer, ShutdownTimeout, ShutdownDone, Exit, Crash
  <1>9. CASE UNCHANGED vars
    BY <1>9 DEF vars
  <1> QED
    BY <1>1, <1>2, <1>3, <1>4, <1>5, <1>6, <1>7, <1>8, <1>9 DEF Next, Goroutine

-----------------------------------------------------------------------------
LEMMA OneManagedStep == IInv /\ [Next]_vars => OneManaged'
  <1> SUFFICES ASSUME IInv, [Next]_vars PROVE OneManaged'
    OBVIOUS
  <1> USE ChildrenAssumption
      DEF IInv, TypeOK, Safe, OneManaged, Alive, child, goroutines, shutdown
  <1>1. ASSUME NEW c \in Children, Start(c) PROVE OneManaged'
    BY <1>1 DEF Start, Idle
  <1>2. ASSUME NEW c \in Children, Bind(c) \/ Die(c) \/ ReadReady(c) \/ TellRunning(c)
                                   \/ TellStopped(c) \/ Reap(c)
        PROVE  OneManaged'
    BY <1>2 DEF Bind, Die, ReadReady, TellRunning, TellStopped, Reap, Reset
  <1>3. ASSUME NEW c \in Children, Kill(c) PROVE OneManaged'
    BY <1>3 DEF Kill, KillNow, Reaped, Lives
  <1>4. CASE Stop \/ Shutdown
    BY <1>4 DEF Stop, Shutdown, Interrupt, Reset, Sweeping
  <1>5. CASE ShutdownTimeout
    BY <1>5 DEF ShutdownTimeout, GiveUpWaiting, Sweeping
  <1>6. CASE ForeignServer \/ ShutdownDone \/ Exit \/ Crash
    BY <1>6 DEF ForeignServer, ShutdownDone, Exit, Crash
  <1>7. CASE UNCHANGED vars
    BY <1>7 DEF vars
  <1> QED
    BY <1>1, <1>2, <1>3, <1>4, <1>5, <1>6, <1>7 DEF Next, Goroutine

LEMMA RunningServesStep == IInv /\ [Next]_vars => RunningServes'
  <1> SUFFICES ASSUME IInv, [Next]_vars PROVE RunningServes'
    OBVIOUS
  <1> USE ChildrenAssumption
      DEF IInv, TypeOK, Safe, RunningServes, Managed, child, goroutines, shutdown
  <1>1. ASSUME NEW c \in Children, Start(c) \/ Bind(c) \/ Die(c) PROVE RunningServes'
    BY <1>1 DEF Start, Bind, Die, Alive
  <1>2. ASSUME NEW c \in Children, ReadReady(c) PROVE RunningServes'
    BY <1>2 DEF ReadReady, IsReady, Lives
  <1>3. ASSUME NEW c \in Children, TellRunning(c) \/ TellStopped(c) \/ Reap(c) \/ Kill(c)
        PROVE  RunningServes'
    BY <1>3 DEF TellRunning, TellStopped, Reap, Reset, Kill
  <1>4. CASE ForeignServer
    BY <1>4 DEF ForeignServer
  <1>5. CASE Stop \/ Shutdown
    BY <1>5 DEF Stop, Shutdown, Interrupt, Reset
  <1>6. CASE ShutdownTimeout \/ ShutdownDone \/ Exit \/ Crash
    BY <1>6 DEF ShutdownTimeout, ShutdownDone, Exit, Crash
  <1>7. CASE UNCHANGED vars
    BY <1>7 DEF vars
  <1> QED
    BY <1>1, <1>2, <1>3, <1>4, <1>5, <1>6, <1>7 DEF Next, Goroutine

LEMMA ShutdownReapsStep == IInv /\ [Next]_vars => ShutdownReaps'
  <1> SUFFICES ASSUME IInv, [Next]_vars PROVE ShutdownReaps'
    OBVIOUS
  <1> USE ChildrenAssumption
      DEF IInv, TypeOK, Safe, ShutdownReaps, Sweeping, child, goroutines, shutdown
  <1>1. ASSUME NEW c \in Children, Start(c) \/ Bind(c) \/ Die(c) PROVE ShutdownReaps'
    BY <1>1 DEF Start, Idle, Bind, Die
  <1>2. ASSUME NEW c \in Children, Goroutine(c) PROVE ShutdownReaps'
    BY <1>2 DEF Goroutine, ReadReady, TellRunning, TellStopped, Reap, Kill
  <1>3. CASE ShutdownDone
    BY <1>3 DEF ShutdownDone, Reaped, Lives
  <1>4. CASE Stop \/ Shutdown
    BY <1>4 DEF Stop, Shutdown
  <1>5. CASE ForeignServer \/ ShutdownTimeout \/ Exit \/ Crash
    BY <1>5 DEF ForeignServer, ShutdownTimeout, Exit, Crash
  <1>6. CASE UNCHANGED vars
    BY <1>6 DEF vars
  <1> QED
    BY <1>1, <1>2, <1>3, <1>4, <1>5, <1>6 DEF Next

-----------------------------------------------------------------------------
LEMMA IInvStep == IInv /\ [Next]_vars => IInv'
  BY TypeStep, LivesStep, ManagedStep, OneManagedStep, RunningServesStep, ShutdownReapsStep
     DEF IInv, Safe

LEMMA Invariant == Spec => []IInv
  BY InitInv, IInvStep, PTL DEF Spec

\* However requests, timers and the ends of subprocesses fall: one that is not
\* managed has been told to go, and is killed if it stays (Start, stop).
THEOREM ProcessOneManaged == Spec => []OneManaged
  <1>1. IInv => OneManaged
    BY DEF IInv, Safe
  <1> QED
    BY Invariant, <1>1, PTL

\* "running" is only said of the process that serves, never because of one that
\* was stopped before or of another server (watch, the ready line).
THEOREM ProcessRunningServes == Spec => []RunningServes
  <1>1. IInv => RunningServes
    BY DEF IInv, Safe
  <1> QED
    BY Invariant, <1>1, PTL

\* No client is left with a preview that is gone (watch, behind the output).
THEOREM ProcessNoGhost == Spec => []NoGhost
  <1>1. IInv => NoGhost
    BY DEF IInv, TypeOK, Announced, Watched, NoGhost
  <1> QED
    BY Invariant, <1>1, PTL

\* Neither a preview that does not serve nor one that is gone is said to run.
THEOREM ProcessTruthful == Spec => []Truthful
  <1>1. RunningServes /\ NoGhost => Truthful
    BY DEF Truthful
  <1> QED
    BY <1>1, ProcessRunningServes, ProcessNoGhost, PTL

\* Shutdown returns when the process it stopped has exited (Shutdown).
THEOREM ProcessShutdownReaps == Spec => []ShutdownReaps
  <1>1. IInv => ShutdownReaps
    BY DEF IInv, Safe
  <1> QED
    BY Invariant, <1>1, PTL
=============================================================================
