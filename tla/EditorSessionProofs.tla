------------------------- MODULE EditorSessionProofs -------------------------
(* The watch loop of a managed state, the language server on it, and the     *)
(* session that composes them, for every set of files, buffers, analyses and *)
(* refreshes.                                                                *)
EXTENDS EditorSession, TLAPS

-----------------------------------------------------------------------------
(* The watch loop.                                                           *)

Working == phase \in {"load", "finish", "failed"}

\* The flags of the handler and the phase of the loop.
Phases ==
    /\ refreshing <=> Working
    /\ toRead # {} => phase = "load"
    /\ dropped # {} => Working
    /\ phase # "finish" => refs = documents
    /\ phase = "failed" => broken
    /\ events # {} \/ queue > 0 \/ reasons \/ phase # "idle" => watching

\* A file that the running refresh has read and that has changed since will be
\* asked about again, whether or not anything names it yet.
ReadDue ==
    phase = "load" =>
        \A f \in W!Files \ toRead :
            read.edits[f] = disk[f] \/ f \in events \/ queue > 0 \/ reasons \/ f \in dropped

\* What is loaded is never ahead of what was read, nor that of the disk.
Behind == \A f \in W!Files : loaded[f] <= read.edits[f] /\ read.edits[f] <= disk[f]

IInv == W!TypeOK /\ Phases /\ ReadDue /\ Behind /\ W!ChangesDue

-----------------------------------------------------------------------------
LEMMA InitInv == W!Init => IInv
  <1> SUFFICES ASSUME W!Init PROVE IInv
    OBVIOUS
  <1> USE WatchAssumption DEF W!Init, W!Files
  <1>1. W!TypeOK
    <2>1. documents \in SUBSET Data
      OBVIOUS
    <2>2. 0 \in 0..MaxEdits /\ 0 \in 0..ChanCap /\ 0 \in 0..MaxFailures
      OBVIOUS
    <2> QED
      BY <2>1, <2>2 DEF W!TypeOK
  <1>2. Phases /\ ReadDue /\ Behind /\ W!ChangesDue
    BY DEF Phases, Working, ReadDue, Behind, W!ChangesDue, W!Followed
  <1> QED
    BY <1>1, <1>2 DEF IInv

LEMMA EnqueueType ==
    ASSUME W!TypeOK, W!Enqueue(1)
    PROVE  queue' \in 0..ChanCap /\ queue' > 0
  BY WatchAssumption DEF W!TypeOK, W!Enqueue

LEMMA TypeStep == W!TypeOK /\ [W!Next]_watchVars => W!TypeOK'
  <1> SUFFICES ASSUME W!TypeOK, [W!Next]_watchVars PROVE W!TypeOK'
    OBVIOUS
  <1> USE WatchAssumption DEF W!TypeOK, W!files, W!handler, W!refresh, W!state
  <1>1. ASSUME NEW f \in W!Files, W!Edit(f) PROVE W!TypeOK'
    <2>1. disk' \in [W!Files -> 0..MaxEdits]
      BY <1>1 DEF W!Edit
    <2>2. names' \in [Manifests -> SUBSET Data]
      BY <1>1 DEF W!Edit
    <2> QED
      BY <1>1, <2>1, <2>2 DEF W!Edit
  <1>2. ASSUME NEW f \in W!Files, W!Handle(f) PROVE W!TypeOK'
    BY <1>2, EnqueueType DEF W!Handle, W!Relevant, W!Remember, W!Files
  <1>3. ASSUME NEW f \in W!Files, W!Read(f) PROVE W!TypeOK'
    BY <1>3 DEF W!Read
  <1>4. CASE W!Watch \/ W!Take \/ W!Tick \/ W!Begin \/ W!Tell
    <2>1. CASE W!Watch \/ W!Tick \/ W!Tell
      BY <2>1 DEF W!Watch, W!Tick, W!Tell
    <2>2. CASE W!Take
      <3>1. queue' \in 0..ChanCap
        BY <2>2 DEF W!Take
      <3> QED
        BY <2>2, <3>1 DEF W!Take
    <2>3. CASE W!Begin
      <3>1. read' \in [edits : [W!Files -> 0..MaxEdits], named : SUBSET Data]
        BY <2>3 DEF W!Begin
      <3> QED
        BY <2>3, <3>1 DEF W!Begin
    <2> QED
      BY <1>4, <2>1, <2>2, <2>3
  <1>5. CASE W!Loaded
    BY <1>5 DEF W!Loaded
  <1>6. CASE W!FailLoad
    BY <1>6 DEF W!FailLoad, W!KeepState
  <1>7. CASE W!Finish
    BY <1>7, EnqueueType DEF W!Finish, W!FinishRefresh
  <1>8. CASE W!Fail
    BY <1>8, EnqueueType DEF W!Fail, W!FinishRefresh
  <1>9. CASE UNCHANGED watchVars
    BY <1>9 DEF watchVars
  <1> QED
    BY <1>1, <1>2, <1>3, <1>4, <1>5, <1>6, <1>7, <1>8, <1>9 DEF W!Next, W!Step

LEMMA PhasesStep == IInv /\ [W!Next]_watchVars => Phases'
  <1> SUFFICES ASSUME IInv, [W!Next]_watchVars PROVE Phases'
    OBVIOUS
  <1> USE DEF IInv, W!TypeOK, Phases, Working, W!files, W!handler, W!refresh, W!state
  <1>1. ASSUME NEW f \in W!Files, W!Edit(f) PROVE Phases'
    BY <1>1 DEF W!Edit
  <1>2. ASSUME NEW f \in W!Files, W!Handle(f) PROVE Phases'
    BY <1>2 DEF W!Handle, W!Remember
  <1>3. ASSUME NEW f \in W!Files, W!Read(f) PROVE Phases'
    BY <1>3 DEF W!Read
  <1>4. CASE W!Watch \/ W!Take \/ W!Tick \/ W!Begin \/ W!Tell
    BY <1>4 DEF W!Watch, W!Take, W!Tick, W!Begin, W!Tell
  <1>5. CASE W!Loaded \/ W!FailLoad
    BY <1>5 DEF W!Loaded, W!FailLoad, W!KeepState
  <1>6. CASE W!Finish \/ W!Fail
    BY <1>6 DEF W!Finish, W!Fail, W!FinishRefresh
  <1>7. CASE UNCHANGED watchVars
    BY <1>7 DEF watchVars
  <1> QED
    BY <1>1, <1>2, <1>3, <1>4, <1>5, <1>6, <1>7 DEF W!Next, W!Step

LEMMA ReadStep == IInv /\ [W!Next]_watchVars => ReadDue' /\ Behind'
  <1> SUFFICES ASSUME IInv, [W!Next]_watchVars PROVE ReadDue' /\ Behind'
    OBVIOUS
  <1> USE DEF IInv, W!TypeOK, ReadDue, Behind, W!files, W!handler, W!refresh, W!state
  <1>1. ASSUME NEW f \in W!Files, W!Edit(f) PROVE ReadDue' /\ Behind'
    <2>1. PICK n \in 1..MaxEdits : W!Following(n) /\ disk' = [disk EXCEPT ![f] = n]
      BY <1>1 DEF W!Edit
    <2>2. \A g \in W!Files : disk'[g] >= disk[g] /\ (g # f => disk'[g] = disk[g])
      BY <2>1 DEF W!Following
    <2>3. Behind'
      BY <1>1, <2>2 DEF W!Edit
    <2>4. phase = "load" => events' = events \cup {f}
      BY <1>1 DEF W!Edit, Phases
    <2>5. ReadDue'
      BY <1>1, <2>2, <2>4 DEF W!Edit
    <2> QED
      BY <2>3, <2>5
  <1>2. ASSUME NEW f \in W!Files, W!Handle(f) PROVE ReadDue' /\ Behind'
    <2>1. CASE W!Relevant(f)
      BY <1>2, <2>1, EnqueueType DEF W!Handle
    <2>2. CASE ~W!Relevant(f)
      BY <1>2, <2>2 DEF W!Handle, W!Remember, Phases, Working
    <2> QED
      BY <2>1, <2>2
  <1>3. ASSUME NEW f \in W!Files, W!Read(f) PROVE ReadDue' /\ Behind'
    <2>1. read'.edits = [read.edits EXCEPT ![f] = disk[f]] /\ toRead' = toRead \ {f}
      BY <1>3 DEF W!Read
    <2>2. Behind'
      BY <1>3, <2>1 DEF W!Read
    <2>3. ReadDue'
      BY <1>3, <2>1 DEF W!Read
    <2> QED
      BY <2>2, <2>3
  <1>4. CASE W!Watch \/ W!Take \/ W!Tick \/ W!Tell
    BY <1>4 DEF W!Watch, W!Take, W!Tick, W!Tell
  <1>5. CASE W!Begin
    BY <1>5 DEF W!Begin
  <1>6. CASE W!Loaded
    BY <1>6 DEF W!Loaded
  <1>7. CASE W!FailLoad \/ W!Finish \/ W!Fail
    BY <1>7 DEF W!FailLoad, W!KeepState, W!Finish, W!Fail, W!FinishRefresh
  <1>8. CASE UNCHANGED watchVars
    BY <1>8 DEF watchVars
  <1> QED
    BY <1>1, <1>2, <1>3, <1>4, <1>5, <1>6, <1>7, <1>8 DEF W!Next, W!Step

-----------------------------------------------------------------------------
LEMMA DueStep == IInv /\ [W!Next]_watchVars => W!ChangesDue'
  <1> SUFFICES ASSUME IInv, [W!Next]_watchVars PROVE W!ChangesDue'
    OBVIOUS
  <1> USE DEF IInv, W!TypeOK, W!ChangesDue, W!Followed, W!Due, W!files, W!handler, W!refresh, W!state
  <1>1. ASSUME NEW f \in W!Files, W!Edit(f) PROVE W!ChangesDue'
    <2>1. \A g \in W!Files : g # f => disk'[g] = disk[g]
      BY <1>1 DEF W!Edit
    <2>2. f \in events' \/ f \in unseen'
      BY <1>1 DEF W!Edit
    <2>3. \A g \in W!Files : g # f => (g \in events => g \in events') /\ (g \in unseen => g \in unseen')
      BY <1>1 DEF W!Edit
    <2> QED
      BY <1>1, <2>1, <2>2, <2>3 DEF W!Edit, W!Files
  <1>2. ASSUME NEW f \in W!Files, W!Handle(f) PROVE W!ChangesDue'
    <2>1. CASE W!Relevant(f)
      BY <1>2, <2>1, EnqueueType DEF W!Handle
    <2>2. CASE ~W!Relevant(f) /\ phase = "finish"
      BY <1>2, <2>2 DEF W!Handle, W!Remember, Phases, Working
    <2>3. CASE ~W!Relevant(f) /\ phase # "finish"
      <3>1. f \notin Manifests \cup documents
        BY <2>3 DEF W!Relevant, Phases
      <3>2. dropped \subseteq dropped' /\ events' = events \ {f} /\ UNCHANGED queue
        BY <1>2, <2>3 DEF W!Handle
      <3> QED
        BY <1>2, <3>1, <3>2 DEF W!Handle
    <2> QED
      BY <2>1, <2>2, <2>3
  <1>3. ASSUME NEW f \in W!Files, W!Read(f) PROVE W!ChangesDue'
    <2>1. /\ read'.edits = [read.edits EXCEPT ![f] = disk[f]] /\ toRead' = toRead \ {f}
          /\ phase = "load" /\ UNCHANGED <<disk, unseen, events, dropped, queue, reasons, phase,
                                           loaded, documents, broken>>
      BY <1>3 DEF W!Read
    <2>2. read'.edits[f] = disk'[f]
      BY <2>1
    <2>3. \A g \in W!Files : g # f => read'.edits[g] = read.edits[g] /\ (g \in toRead => g \in toRead')
      BY <2>1
    <2> QED
      BY <2>1, <2>2, <2>3 DEF W!Files
  <1>4. CASE W!Watch \/ W!Tell
    BY <1>4 DEF W!Watch, W!Tell, Phases
  <1>5. CASE W!Take \/ W!Tick
    BY <1>5 DEF W!Take, W!Tick
  <1>6. CASE W!Begin
    BY <1>6 DEF W!Begin, W!Files
  <1>7. CASE W!Loaded
    <2>1. \A f \in W!Files : \/ loaded'[f] = disk'[f] \/ f \in events'
                             \/ queue' > 0 \/ reasons' \/ f \in dropped'
      BY <1>7 DEF W!Loaded, ReadDue
    <2>2. phase' = "finish" /\ documents' \subseteq W!Files
      BY <1>7 DEF W!Loaded, W!Files
    <2> QED
      BY <2>1, <2>2 DEF W!Files
  <1>8. CASE W!FailLoad
    BY <1>8 DEF W!FailLoad
  <1>9. CASE W!Finish
    <2>1. CASE W!Recheck(documents) = {}
      <3>1. \A f \in W!Followed : f \notin dropped
        BY <2>1, WatchAssumption DEF W!Recheck
      <3>2. UNCHANGED queue
        BY <1>9, <2>1 DEF W!Finish, W!FinishRefresh
      <3> QED
        BY <1>9, <3>1, <3>2 DEF W!Finish, W!FinishRefresh, Phases
    <2>2. CASE W!Recheck(documents) # {}
      BY <1>9, <2>2, EnqueueType DEF W!Finish, W!FinishRefresh
    <2> QED
      BY <2>1, <2>2
  <1>10. CASE W!Fail
    BY <1>10 DEF W!Fail, W!FinishRefresh, Phases
  <1>11. CASE UNCHANGED watchVars
    BY <1>11 DEF watchVars
  <1> QED
    BY <1>1, <1>2, <1>3, <1>4, <1>5, <1>6, <1>7, <1>8, <1>9, <1>10, <1>11 DEF W!Next, W!Step

LEMMA IInvStep == IInv /\ [W!Next]_watchVars => IInv'
  BY TypeStep, PhasesStep, ReadStep, DueStep DEF IInv

-----------------------------------------------------------------------------
\* No change of a file the project reads is lost between watcher, filter, debounce
\* and refresh, whatever references the refresh adds meanwhile (managed.go).
THEOREM WatchChangesDue == W!Spec => []ChangesDue
  <1>1. IInv => ChangesDue
    BY DEF IInv, ChangesDue
  <1>2. IInv /\ [W!Next]_W!vars => IInv'
    BY IInvStep DEF W!vars, watchVars
  <1> QED
    BY InitInv, <1>1, <1>2, PTL DEF W!Spec

\* Every step of the watch loop is one of Follower, or none.
LEMMA FollowStep == IInv /\ [W!Next]_watchVars => [W!F!Next]_<<disk, loaded>>
  <1> SUFFICES ASSUME IInv, [W!Next]_watchVars PROVE [W!F!Next]_<<disk, loaded>>
    OBVIOUS
  <1> USE WatchAssumption DEF IInv, W!TypeOK, W!files, W!handler, W!refresh, W!state
  <1>1. ASSUME NEW f \in W!Files, W!Edit(f) PROVE W!F!Change
    <2>1. PICK n \in 1..MaxEdits : W!Following(n) /\ disk' = [disk EXCEPT ![f] = n]
      BY <1>1 DEF W!Edit
    <2>2. disk' \in [W!Files -> Nat]
      BY <2>1
    <2>3. \A g \in W!Files : disk'[g] >= disk[g]
      BY <2>1 DEF W!Following
    <2>4. UNCHANGED loaded
      BY <1>1 DEF W!Edit
    <2> QED
      BY <2>2, <2>3, <2>4 DEF W!F!Change
  <1>2. CASE W!Loaded
    <2>1. loaded' = read.edits /\ UNCHANGED disk
      BY <1>2 DEF W!Loaded
    <2>2. loaded' \in [W!Files -> Nat] /\ \A f \in W!Files : loaded'[f] \in loaded[f] .. disk[f]
      BY <2>1 DEF Behind
    <2> QED
      BY <2>1, <2>2 DEF W!F!Next, W!F!Follow
  <1>3. ASSUME NEW f \in W!Files, W!Handle(f) \/ W!Read(f) PROVE UNCHANGED <<disk, loaded>>
    BY <1>3 DEF W!Handle, W!Read
  <1>4. CASE W!Watch \/ W!Take \/ W!Tick \/ W!Begin \/ W!Tell \/ W!FailLoad \/ W!Finish \/ W!Fail
    BY <1>4 DEF W!Watch, W!Take, W!Tick, W!Begin, W!Tell, W!FailLoad, W!KeepState, W!Finish, W!Fail
  <1>5. CASE UNCHANGED watchVars
    BY <1>5 DEF watchVars
  <1> QED
    BY <1>1, <1>2, <1>3, <1>4, <1>5 DEF W!Next, W!Step, W!F!Next

\* The loaded project only moves forward and never past the disk: State.Refresh
\* replaces it as a whole, and keeps it when a load fails.
THEOREM WatchFollows == W!Spec => StateFollows
  <1>1. W!Init => W!F!Init
    BY WatchAssumption DEF W!Init, W!F!Init
  <1>2. IInv /\ [W!Next]_W!vars => IInv' /\ [W!F!Next]_<<disk, loaded>>
    BY IInvStep, FollowStep DEF W!vars, watchVars
  <1> QED
    BY InitInv, <1>1, <1>2, PTL DEF W!Spec, StateFollows, W!StateFollows, W!F!Spec

-----------------------------------------------------------------------------
(* The analyses of the language server.                                      *)

\* The environment the theorems about the server are about: a goroutine that only
\* has to publish is not overtaken by a debounce, and a file that is opened again
\* does not start with a version it has had.
Editing == Prompt = TRUE /\ Restarts = FALSE

Stages == {"free", "armed", "fired", "started", "validate", "answered", "publish",
           "stored", "send"}

\* Between the start of a run and its end.
Inside == Stages \ {"free", "armed", "fired"}

Shape ==
    /\ buf \in [Docs -> [ver : Nat, text : Nat]]
    /\ texts \in Nat
    /\ pending \in [Docs -> Runs \cup {None}]
    /\ cancelOf \in [Runs -> Runs \cup {None}]
    /\ cancelled \in SUBSET Runs
    /\ draft = [d \in Docs |-> draft[d]]
    /\ run = [r \in Runs |-> [at |-> run[r].at, doc |-> run[r].doc,
                              seen |-> run[r].seen, merge |-> run[r].merge]]
    /\ \A r \in Runs :
         /\ run[r].at \in Stages /\ run[r].seen \in [ver : Nat, text : Nat]
         /\ run[r].at # "free" => run[r].doc \in Docs

\* Every buffer has an inflight record of its own, which cancels a run of that
\* buffer or none.
Records ==
    /\ \A d \in Docs : Open(d) <=> pending[d] # None
    /\ \A d, e \in Docs : pending[d] # None /\ pending[d] = pending[e] => d = e
    /\ \A d \in Docs :
         pending[d] # None =>
            /\ run[pending[d]].at # "free" => run[pending[d]].doc = d
            /\ cancelOf[pending[d]] # None =>
                 /\ run[cancelOf[pending[d]]].at \in Inside
                 /\ run[cancelOf[pending[d]]].doc = d
    /\ \A r \in Runs : run[r].at = "armed" => pending[run[r].doc] = r
    /\ \A r \in cancelled : run[r].at \in Inside

\* A version of a buffer tells its text, to a run that has read it, too.
HasRead == Inside \ {"started"}

Tells(r) ==
    run[r].at \in HasRead =>
        /\ run[r].seen.ver <= texts
        /\ Open(run[r].doc) =>
             /\ run[r].seen.ver <= buf[run[r].doc].ver
             /\ run[r].seen.ver = buf[run[r].doc].ver => run[r].seen = buf[run[r].doc]

VersionsTell == (\A d \in Docs : buf[d].ver <= texts) /\ \A r \in Runs : Tells(r)

\* The debounce of the buffer runs.
Waiting(d) == pending[d] # None /\ run[pending[d]].at = "armed"

\* A run that will publish what the buffer holds, unless another text comes.
Useful(r) ==
    \/ run[r].at = "fired"
    \/ run[r].at = "started" /\ r \notin cancelled
    \/ /\ run[r].at \in {"validate", "answered"}
       /\ r \notin cancelled /\ run[r].seen = buf[run[r].doc]
    \/ run[r].at = "publish" /\ run[r].seen = buf[run[r].doc]

\* It is about to overwrite the findings with those of an older text.
Outdated(r) == run[r].at = "publish" /\ run[r].seen # buf[run[r].doc]

Current(d) ==
    /\ \A r \in Runs : run[r].doc = d => ~Outdated(r)
    /\ draft[d] = buf[d].text \/ \E r \in Runs : run[r].doc = d /\ Useful(r)

\* An older result is only stored in front of a newer one.
Analyzed == \A d \in Docs : Open(d) => Waiting(d) \/ Current(d)

ServerInv == Shape /\ Records /\ VersionsTell /\ Analyzed

LEMMA ServerInvInit == Init => ServerInv
  <1> SUFFICES ASSUME Init PROVE ServerInv
    OBVIOUS
  <1> USE NamesAssumption, BoundAssumption DEF Init, Closed, FreeRun
  <1>1. Shape
    BY DEF Shape, Stages
  <1>2. Records /\ VersionsTell /\ Analyzed
    BY DEF Records, VersionsTell, Tells, HasRead, Analyzed, Open, Inside, Stages
  <1> QED
    BY <1>1, <1>2 DEF ServerInv

LEMMA ServerFollows ==
    ServerInv => DraftFresh
  <1> SUFFICES ASSUME ServerInv, NEW d \in Docs, Open(d), ~Coming(d)
               PROVE  draft[d] = buf[d].text
    BY DEF DraftFresh
  <1>1. ~Waiting(d)
    <2>1. pending[d] # None => pending[d] \in Runs
      BY DEF ServerInv, Shape
    <2> QED
      BY <2>1 DEF ServerInv, Records, Waiting, Coming
  <1> QED
    BY <1>1 DEF ServerInv, Analyzed, Current, Coming

-----------------------------------------------------------------------------
(* What its steps do to them.                                                *)

\* The run goes on, others stay where they are.
Goes(r, at, seen) ==
    /\ run'[r] = [at |-> at, doc |-> run[r].doc, seen |-> seen, merge |-> run'[r].merge]
    /\ run' = [q \in Runs |-> IF q = r THEN run'[r] ELSE run[q]]
    /\ UNCHANGED <<buf, texts, pending, cancelled>>

\* Steps of a run that leave the findings and the records alone.
Advances(r) ==
    /\ UNCHANGED <<cancelOf, draft>>
    /\ \/ /\ run[r].at = "armed" /\ Publishing(run[r].doc) = {}
          /\ Goes(r, "fired", run[r].seen)
       \/ /\ run[r].at = "started" /\ Open(run[r].doc)
          /\ Goes(r, "validate", buf[run[r].doc])
       \/ /\ run[r].at = "validate" /\ r \notin cancelled
          /\ Goes(r, "answered", run[r].seen)
       \/ /\ run[r].at = "answered" /\ Unchanged(r)
          /\ Goes(r, "publish", run[r].seen)
       \/ /\ run[r].at = "stored"
          /\ Goes(r, "send", run[r].seen)

Starts(r) ==
    /\ run[r].at = "fired" /\ pending[run[r].doc] # None
    /\ cancelOf' = [cancelOf EXCEPT ![pending[run[r].doc]] = r]
    /\ Goes(r, "started", run[r].seen)
    /\ UNCHANGED draft

Stores(r) ==
    /\ run[r].at = "publish"
    /\ draft' = [draft EXCEPT ![run[r].doc] = run[r].seen.text]
    /\ Goes(r, "stored", run[r].seen)
    /\ UNCHANGED cancelOf

\* Runs that end have nothing to add.
Ends(r) ==
    /\ \/ run[r].at = "fired" /\ pending[run[r].doc] = None
       \/ run[r].at = "started" /\ ~Open(run[r].doc)
       \/ run[r].at = "validate" /\ r \in cancelled
       \/ run[r].at = "answered" /\ ~Unchanged(r)
       \/ run[r].at = "send"
    /\ run' = [run EXCEPT ![r] = FreeRun]
    /\ cancelOf' = [q \in Runs |-> IF cancelOf[q] = r THEN None ELSE cancelOf[q]]
    /\ cancelled' = cancelled \ {r}
    /\ UNCHANGED <<buf, texts, pending, draft>>

\* The buffers of D have a new record each, whose timer runs.
Schedules(D, new) ==
    /\ \A d \in D :
         /\ pending'[d] = new[d] /\ cancelOf'[new[d]] = None
         /\ run'[new[d]] = [at |-> "armed", doc |-> d, seen |-> Closed, merge |-> None]
    /\ \A d \in Docs \ D : pending'[d] = pending[d]
    /\ \A r \in Runs : (\A d \in D : r # new[d]) =>
         \/ /\ run'[r] = run[r] /\ cancelOf'[r] = cancelOf[r]
            /\ run[r].at = "armed" => \A d \in D : pending[d] # r
         \/ /\ run[r].at = "armed" /\ (\E d \in D : pending[d] = r)
            /\ run'[r] = FreeRun /\ cancelOf'[r] = None
    /\ \A r \in Runs : r \in cancelled' =>
         \/ r \in cancelled
         \/ \E d \in D : pending[d] # None /\ cancelOf[pending[d]] = r
    /\ UNCHANGED draft

LEMMA ScheduleStep ==
    ASSUME Shape, NEW D \in SUBSET Docs, NEW new \in News(D), Schedule(D, new),
           UNCHANGED draft
    PROVE  Schedules(D, new)
  <1>1. /\ new \in [D -> Runs]
        /\ \A d, e \in D : new[d] = new[e] => d = e
        /\ \A d \in D : run[new[d]].at = "free"
    BY DEF News, Unused
  <1>2. \A d \in D : (CHOOSE e \in D : new[d] = new[e]) = d
    BY <1>1
  <1>3. ASSUME NEW d \in D
        PROVE  /\ pending'[d] = new[d] /\ cancelOf'[new[d]] = None
               /\ run'[new[d]] = [at |-> "armed", doc |-> d, seen |-> Closed, merge |-> None]
    BY <1>1, <1>2 DEF Schedule, Armed, FreeRun
  <1>4. \A d \in Docs \ D : pending'[d] = pending[d]
    BY DEF Schedule, Armed
  <1>5. ASSUME NEW r \in Runs, \A d \in D : r # new[d]
        PROVE  \/ /\ run'[r] = run[r] /\ cancelOf'[r] = cancelOf[r]
                  /\ run[r].at = "armed" => \A d \in D : pending[d] # r
               \/ /\ run[r].at = "armed" /\ (\E d \in D : pending[d] = r)
                  /\ run'[r] = FreeRun /\ cancelOf'[r] = None
    <2>1. ~\E d \in D : r = new[d]
      BY <1>5
    <2>2. CASE \E d \in D : r \in Stopped(d)
      <3>1. r \in UNION {Stopped(d) : d \in Armed(D)}
        BY <2>2 DEF Armed
      <3> QED
        BY <2>1, <2>2, <3>1 DEF Schedule, Armed, Stopped
    <2>3. CASE \A d \in D : r \notin Stopped(d)
      <3>1. r \notin UNION {Stopped(d) : d \in Armed(D)}
        BY <2>3 DEF Armed
      <3>2. run'[r] = run[r] /\ cancelOf'[r] = cancelOf[r]
        BY <2>1, <3>1 DEF Schedule, Armed
      <3> QED
        BY <2>3, <3>2 DEF Stopped
    <2> QED
      BY <2>2, <2>3
  <1>6. ASSUME NEW r \in cancelled'
        PROVE  r \in cancelled \/ \E d \in D : pending[d] # None /\ cancelOf[pending[d]] = r
    BY <1>6 DEF Schedule, Armed, Cancellable
  <1> QED
    BY <1>3, <1>4, <1>5, <1>6 DEF Schedules

\* Every step of the server, but for what it does to the project's findings.
ServerStep ==
    \/ \E r \in Runs : Advances(r) \/ Starts(r) \/ Stores(r) \/ Ends(r)
    \/ \E d \in Docs : \E new \in News({d}) :
         /\ Schedule({d}, new) /\ Schedules({d}, new)
         /\ Open(d)'
         /\ buf' = [buf EXCEPT ![d] = buf'[d]] /\ buf'[d] \in [ver : Nat, text : Nat]
         /\ texts' = texts + 1 /\ buf'[d].ver <= texts'
         /\ IF Open(d) THEN buf'[d].ver > buf[d].ver ELSE buf'[d].ver > texts
    \/ \E new \in News(Reopened) :
         /\ Schedule(Reopened, new) /\ Schedules(Reopened, new)
         /\ UNCHANGED <<buf, texts>>
    \/ \E d \in Docs :
         /\ Cancel(d) /\ UNCHANGED texts
         /\ buf' = [buf EXCEPT ![d] = Closed]
         /\ draft' = [draft EXCEPT ![d] = None]
    \/ UNCHANGED <<buf, texts, pending, cancelOf, run, cancelled, draft>>

LEMMA RunSteps ==
    ASSUME Editing, Shape, Records, NEW r \in Runs, Fire(r) \/ Analysis(r)
    PROVE  Advances(r) \/ Starts(r) \/ Stores(r) \/ Ends(r)
  <1>t. run[r] = [at |-> run[r].at, doc |-> run[r].doc, seen |-> run[r].seen, merge |-> run[r].merge]
    BY DEF Shape
  <1>r. run = [q \in Runs |-> run[q]]
    BY DEF Shape
  <1> USE DEF client, published
  <1>1. CASE Fire(r)
    BY <1>1, <1>t, <1>r DEF Fire, Editing, Advances, Goes
  <1>2. CASE StartRun(r)
    BY <1>2, <1>t, <1>r DEF StartRun, EndRun, Starts, Ends, Goes
  <1>3. CASE GetBuffer(r)
    <2>1. CASE Open(run[r].doc)
      <3>1. run' = [run EXCEPT ![r].at = "validate", ![r].seen = buf[run[r].doc]]
        BY <1>3, <2>1 DEF GetBuffer
      <3>2. Goes(r, "validate", buf[run[r].doc])
        BY <1>3, <1>t, <1>r, <2>1, <3>1 DEF GetBuffer, Goes
      <3> QED
        BY <1>3, <2>1, <3>2 DEF GetBuffer, Advances
    <2>2. CASE ~Open(run[r].doc)
      BY <1>3, <2>2 DEF GetBuffer, EndRun, Ends
    <2> QED
      BY <2>1, <2>2
  <1>4. CASE Answered(r)
    BY <1>4, <1>t, <1>r DEF Answered, EndRun, Advances, Ends, Goes
  <1>5. CASE CheckVersion(r)
    BY <1>5, <1>t, <1>r DEF CheckVersion, EndRun, Advances, Ends, Goes
  <1>6. CASE StoreDraft(r)
    BY <1>6, <1>t, <1>r DEF StoreDraft, Stores, Goes
  <1>7. CASE MergeDraft(r)
    BY <1>7, <1>t, <1>r DEF MergeDraft, Advances, Goes
  <1>8. CASE SendDraft(r)
    BY <1>8, <1>t, <1>r DEF SendDraft, EndRun, Ends
  <1> QED
    BY <1>1, <1>2, <1>3, <1>4, <1>5, <1>6, <1>7, <1>8 DEF Analysis

LEMMA ServerSteps ==
    ASSUME Editing, Shape, Records, VersionsTell,
           \/ LspNext
           \/ OnProjectChange
           \/ \E k \in Fetches : FailFetch(k)
           \/ UNCHANGED lspVars
    PROVE  ServerStep
  <1>1. ASSUME NEW r \in Runs, Fire(r) \/ Analysis(r) PROVE ServerStep
    BY <1>1, RunSteps DEF ServerStep
  <1>2. ASSUME NEW d \in Docs, DidOpen(d) \/ DidChange(d) PROVE ServerStep
    <2>1. \E ver \in {texts + 1, buf[d].ver + 1} :
            /\ NewText(d, ver) /\ UNCHANGED draft
            /\ IF Open(d) THEN ver = buf[d].ver + 1 ELSE ver = texts + 1
      BY <1>2 DEF DidOpen, DidChange, Editing, published
    <2>2. PICK ver \in {texts + 1, buf[d].ver + 1} :
            /\ NewText(d, ver) /\ UNCHANGED draft
            /\ IF Open(d) THEN ver = buf[d].ver + 1 ELSE ver = texts + 1
      BY <2>1
    <2>3. PICK new \in News({d}) : Schedule({d}, new)
      BY <2>2 DEF NewText
    <2>4. Schedules({d}, new)
      BY <2>2, <2>3, ScheduleStep
    <2>5. buf' = [buf EXCEPT ![d] = [ver |-> ver, text |-> texts + 1]] /\ texts' = texts + 1
      BY <2>2 DEF NewText
    <2>6. /\ buf'[d] = [ver |-> ver, text |-> texts + 1]
          /\ texts \in Nat /\ buf[d].ver \in Nat /\ buf[d].ver <= texts
      BY <2>5 DEF Shape, VersionsTell
    <2>7. Open(d)'
      BY <2>6 DEF Open, Closed
    <2>8. ver \in Nat /\ ver <= texts' /\ IF Open(d) THEN ver > buf[d].ver ELSE ver > texts
      BY <2>2, <2>5, <2>6
    <2>9. buf'[d] \in [ver : Nat, text : Nat] /\ buf'[d].ver = ver
      BY <2>6, <2>8
    <2> QED
      BY <2>3, <2>4, <2>5, <2>6, <2>7, <2>8, <2>9 DEF ServerStep
  <1>3. ASSUME NEW d \in Docs, DidClose(d) PROVE ServerStep
    BY <1>3 DEF DidClose, ServerStep
  <1>4. CASE OnProjectChange
    <2>1. PICK new \in News(Reopened) : Schedule(Reopened, new)
      BY <1>4 DEF OnProjectChange
    <2>2. Reopened \in SUBSET Docs /\ UNCHANGED <<buf, texts, draft>>
      BY <1>4 DEF OnProjectChange, Reopened, client, published
    <2> QED
      BY <2>1, <2>2, ScheduleStep DEF ServerStep
  <1>5. ASSUME NEW k \in Fetches, Refreshing(k) \/ FailFetch(k) PROVE ServerStep
    BY <1>5 DEF Refreshing, Fetch, StoreProject, MergeProject, SendProject, FailFetch,
                client, analyzer, published, ServerStep
  <1>6. CASE UNCHANGED lspVars
    BY <1>6 DEF lspVars, ServerStep
  <1> QED
    BY <1>1, <1>2, <1>3, <1>4, <1>5, <1>6 DEF LspNext

-----------------------------------------------------------------------------
(* The invariant holds behind each of them.                                  *)

LEMMA ShapeNext == ServerInv /\ ServerStep => Shape'
  <1> SUFFICES ASSUME ServerInv, ServerStep PROVE Shape'
    OBVIOUS
  <1> USE DEF ServerInv
  <1>1. ASSUME NEW r \in Runs, NEW at \in Stages, NEW seen \in [ver : Nat, text : Nat],
               Goes(r, at, seen), run[r].at # "free",
               cancelOf' \in [Runs -> Runs \cup {None}], draft' = [d \in Docs |-> draft'[d]]
        PROVE  Shape'
    <2>1. \A q \in Runs : run'[q] = IF q = r THEN run'[r] ELSE run[q]
      BY <1>1 DEF Goes
    <2>2. \A q \in Runs :
            run'[q] = [at |-> run'[q].at, doc |-> run'[q].doc, seen |-> run'[q].seen,
                       merge |-> run'[q].merge]
      BY <1>1, <2>1 DEF Goes, Shape
    <2>3. \A q \in Runs :
            /\ run'[q].at \in Stages /\ run'[q].seen \in [ver : Nat, text : Nat]
            /\ run'[q].at # "free" => run'[q].doc \in Docs
      BY <1>1, <2>1 DEF Goes, Shape
    <2>4. run' = [q \in Runs |-> run'[q]]
      BY <1>1 DEF Goes
    <2> QED
      BY <1>1, <2>2, <2>3, <2>4 DEF Goes, Shape
  <1>2. ASSUME NEW r \in Runs, Advances(r) PROVE Shape'
    <2>1. PICK at \in Stages, seen \in [ver : Nat, text : Nat] : Goes(r, at, seen)
      BY <1>2 DEF Advances, Shape, Stages
    <2>2. run[r].at # "free"
      BY <1>2 DEF Advances
    <2>3. cancelOf' \in [Runs -> Runs \cup {None}] /\ draft' = [d \in Docs |-> draft'[d]]
      BY <1>2 DEF Advances, Shape
    <2> QED
      BY <1>1, <2>1, <2>2, <2>3
  <1>3. ASSUME NEW r \in Runs, Starts(r) PROVE Shape'
    <2>1. cancelOf' \in [Runs -> Runs \cup {None}] /\ draft' = [d \in Docs |-> draft'[d]]
      BY <1>3 DEF Starts, Shape
    <2>2. run[r].seen \in [ver : Nat, text : Nat] /\ "started" \in Stages
      BY DEF Shape, Stages
    <2>3. Goes(r, "started", run[r].seen) /\ run[r].at # "free"
      BY <1>3 DEF Starts
    <2> QED
      BY <1>1, <2>1, <2>2, <2>3
  <1>4. ASSUME NEW r \in Runs, Stores(r) PROVE Shape'
    <2>1. cancelOf' \in [Runs -> Runs \cup {None}] /\ draft' = [d \in Docs |-> draft'[d]]
      BY <1>4 DEF Stores, Shape
    <2>2. run[r].seen \in [ver : Nat, text : Nat] /\ "stored" \in Stages
      BY DEF Shape, Stages
    <2>3. Goes(r, "stored", run[r].seen) /\ run[r].at # "free"
      BY <1>4 DEF Stores
    <2> QED
      BY <1>1, <2>1, <2>2, <2>3
  <1>f. /\ FreeRun.at = "free" /\ FreeRun.seen \in [ver : Nat, text : Nat]
        /\ FreeRun = [at |-> FreeRun.at, doc |-> FreeRun.doc, seen |-> FreeRun.seen,
                        merge |-> FreeRun.merge]
        /\ "free" \in Stages
    BY DEF FreeRun, Closed, Stages
  <1>5. ASSUME NEW r \in Runs, Ends(r) PROVE Shape'
    BY <1>5, <1>f DEF Ends, Shape
  <1>6. ASSUME NEW D \in SUBSET Docs, NEW new \in News(D), Schedule(D, new),
               Schedules(D, new), texts' \in Nat, buf' \in [Docs -> [ver : Nat, text : Nat]]
        PROVE  Shape'
    <2>1. new \in [D -> Runs]
      BY DEF News
    <2>2. pending' \in [Docs -> Runs \cup {None}]
      BY <1>6, <2>1 DEF Schedule, Armed, Shape
    <2>3. cancelled' \in SUBSET Runs
      <3>1. \A d \in Docs : Cancellable(d) \subseteq Runs
        BY DEF Cancellable, Shape
      <3>2. UNION {Cancellable(d) : d \in D} \subseteq Runs
        BY <3>1
      <3>3. cancelled' = cancelled \cup UNION {Cancellable(d) : d \in D}
        BY <1>6 DEF Schedule, Armed
      <3> QED
        BY <3>2, <3>3 DEF Shape
    <2>4. cancelOf' \in [Runs -> Runs \cup {None}] /\ run' = [r \in Runs |-> run'[r]]
      BY <1>6 DEF Schedule, Shape
    <2>5. ASSUME NEW r \in Runs
          PROVE  /\ run'[r] = [at |-> run'[r].at, doc |-> run'[r].doc, seen |-> run'[r].seen,
                               merge |-> run'[r].merge]
                 /\ run'[r].at \in Stages /\ run'[r].seen \in [ver : Nat, text : Nat]
                 /\ run'[r].at # "free" => run'[r].doc \in Docs
      <3>1. CASE \E d \in D : r = new[d]
        <4>1. PICK d \in D : r = new[d]
          BY <3>1
        <4>2. run'[r] = [at |-> "armed", doc |-> d, seen |-> Closed, merge |-> None]
          BY <1>6, <4>1 DEF Schedules
        <4> QED
          BY <4>2 DEF Stages, Closed
      <3>2. CASE run'[r] = run[r]
        BY <3>2 DEF Shape
      <3>3. CASE run'[r] = FreeRun
        BY <3>3, <1>f
      <3> QED
        BY <1>6, <3>1, <3>2, <3>3 DEF Schedules
    <2> QED
      BY <1>6, <2>2, <2>3, <2>4, <2>5 DEF Schedules, Shape
  <1>n. ASSUME NEW d \in Docs, NEW new \in News({d}), Schedule({d}, new),
               Schedules({d}, new), buf' = [buf EXCEPT ![d] = buf'[d]],
               buf'[d] \in [ver : Nat, text : Nat], texts' = texts + 1
        PROVE  Shape'
    <2>1. buf' \in [Docs -> [ver : Nat, text : Nat]] /\ texts' \in Nat
      BY <1>n DEF Shape
    <2>2. {d} \in SUBSET Docs
      OBVIOUS
    <2> QED
      BY <1>6, <1>n, <2>1, <2>2
  <1>o. ASSUME NEW new \in News(Reopened), Schedule(Reopened, new),
               Schedules(Reopened, new), UNCHANGED <<buf, texts>>
        PROVE  Shape'
    <2>1. buf' \in [Docs -> [ver : Nat, text : Nat]] /\ texts' \in Nat
      BY <1>o DEF Shape
    <2>2. Reopened \in SUBSET Docs
      BY DEF Reopened
    <2> QED
      BY <1>6, <1>o, <2>1, <2>2
  <1>7. CASE UNCHANGED <<buf, texts, pending, cancelOf, run, cancelled, draft>>
    BY <1>7 DEF Shape
  <1>8. ASSUME NEW d \in Docs, Cancel(d), UNCHANGED texts,
               buf' = [buf EXCEPT ![d] = Closed], draft' = [draft EXCEPT ![d] = None]
        PROVE  Shape'
    <2>1. buf' \in [Docs -> [ver : Nat, text : Nat]] /\ draft' = [e \in Docs |-> draft'[e]]
      BY <1>8 DEF Shape, Closed
    <2>2. /\ pending' \in [Docs -> Runs \cup {None}] /\ cancelOf' \in [Runs -> Runs \cup {None}]
          /\ cancelled' \in SUBSET Runs
      BY <1>8 DEF Cancel, Cancellable, Shape
    <2>3. run' = [r \in Runs |-> IF r \in Stopped(d) THEN FreeRun ELSE run[r]]
      BY <1>8 DEF Cancel
    <2> QED
      BY <1>8, <1>f, <2>1, <2>2, <2>3 DEF Shape
  <1> QED
    BY <1>2, <1>3, <1>4, <1>5, <1>n, <1>o, <1>7, <1>8 DEF ServerStep

\* What a schedule of the buffers D does to the records.
LEMMA ScheduleRecords ==
    ASSUME ServerInv, Shape', NEW D \in SUBSET Docs, NEW new \in News(D), Schedules(D, new),
           \A d \in D : Open(d)', \A d \in Docs \ D : Open(d)' <=> Open(d)
    PROVE  /\ Records'
           /\ \A d \in D : Waiting(d)'
           /\ \A d \in Docs \ D : Waiting(d) => Waiting(d)'
           /\ \A r \in Runs : run[r].at \in Stages \ {"free", "armed"} => run'[r] = run[r]
           /\ \A r \in Runs : run'[r].at \in Stages \ {"free", "armed"} => run'[r] = run[r]
           /\ \A r \in Runs : r \notin cancelled /\ run[r].doc \notin D => r \notin cancelled'
  <1>t. /\ pending \in [Docs -> Runs \cup {None}] /\ cancelOf \in [Runs -> Runs \cup {None}]
        /\ \A r \in Runs : run[r].at \in Stages
        /\ cancelled \in SUBSET Runs /\ None \notin Runs
    BY NamesAssumption, BoundAssumption DEF ServerInv, Shape
  <1>n. /\ new \in [D -> Runs]
        /\ \A d, e \in D : new[d] = new[e] => d = e
        /\ \A d \in D : run[new[d]].at = "free" /\ \A e \in Docs \ {d} : pending[e] # new[d]
    BY DEF News, Unused
  <1>r. Records
    BY DEF ServerInv
  <1>s. /\ \A d \in D : /\ new[d] \in Runs /\ pending'[d] = new[d] /\ cancelOf'[new[d]] = None
                        /\ run'[new[d]].at = "armed" /\ run'[new[d]].doc = d
        /\ \A d \in Docs \ D : pending'[d] = pending[d]
    <2>1. ASSUME NEW d \in D
          PROVE  /\ new[d] \in Runs /\ pending'[d] = new[d] /\ cancelOf'[new[d]] = None
                 /\ run'[new[d]].at = "armed" /\ run'[new[d]].doc = d
      <3>1. run'[new[d]] = [at |-> "armed", doc |-> d, seen |-> Closed, merge |-> None]
        BY DEF Schedules
      <3> QED
        BY <1>n, <3>1 DEF Schedules
    <2> QED
      BY <2>1 DEF Schedules
  <1>1. ASSUME NEW r \in Runs, run[r].at \in Stages \ {"free", "armed"}
        PROVE  run'[r] = run[r] /\ cancelOf'[r] = cancelOf[r]
    BY <1>1, <1>n DEF Schedules
  <1>2. ASSUME NEW r \in Runs, run'[r].at \in Stages \ {"free", "armed"}
        PROVE  run'[r] = run[r]
    <2>1. \A d \in D : r # new[d]
      BY <1>2, <1>s
    <2>2. run'[r] # FreeRun
      BY <1>2 DEF FreeRun
    <2> QED
      BY <2>1, <2>2 DEF Schedules
  <1>3. \A d \in D : Waiting(d)'
    BY <1>s, <1>t DEF Waiting
  <1>4. ASSUME NEW d \in Docs \ D, pending[d] # None
        PROVE  /\ pending'[d] = pending[d]
               /\ run'[pending[d]] = run[pending[d]]
               /\ cancelOf'[pending[d]] = cancelOf[pending[d]]
    <2>1. \A e \in D : new[e] # pending[d]
      BY <1>n
    <2>2. \A e \in D : pending[e] # pending[d]
      BY <1>4, <1>r DEF Records
    <2> QED
      BY <1>4, <1>t, <2>1, <2>2 DEF Schedules
  <1>5. ASSUME NEW r \in Runs, r \in cancelled', r \notin cancelled
        PROVE  run[r].doc \in D /\ run[r].at \in Inside
    BY <1>5, <1>r, <1>t DEF Schedules, Records
  <1>i. Inside \subseteq Stages \ {"free", "armed"}
    BY DEF Inside
  <1>6. Records'
    <2>1. \A d \in Docs : Open(d)' <=> pending'[d] # None
      <3>1. \A d \in D : Open(d)' /\ pending'[d] # None
        BY <1>s, <1>t
      <3>2. \A d \in Docs \ D : Open(d)' <=> pending'[d] # None
        BY <1>s, <1>r DEF Records
      <3> QED
        BY <3>1, <3>2
    <2>2. ASSUME NEW d \in Docs, NEW e \in Docs, pending'[d] # None, pending'[d] = pending'[e]
          PROVE  d = e
      <3>1. CASE d \in D /\ e \in D
        BY <1>n, <1>s, <2>2, <3>1
      <3>2. CASE d \in D /\ e \notin D
        BY <1>n, <1>s, <2>2, <3>2
      <3>3. CASE d \notin D /\ e \in D
        BY <1>n, <1>s, <2>2, <3>3
      <3>4. CASE d \notin D /\ e \notin D
        BY <1>s, <1>r, <2>2, <3>4 DEF Records
      <3> QED
        BY <3>1, <3>2, <3>3, <3>4
    <2>3. ASSUME NEW d \in Docs, pending'[d] # None
          PROVE  /\ run'[pending'[d]].at # "free" => run'[pending'[d]].doc = d
                 /\ cancelOf'[pending'[d]] # None =>
                      /\ run'[cancelOf'[pending'[d]]].at \in Inside
                      /\ run'[cancelOf'[pending'[d]]].doc = d
      <3>1. CASE d \in D
        BY <1>s, <3>1
      <3>2. CASE d \notin D
        <4>1. pending'[d] = pending[d] /\ pending[d] # None /\ pending[d] \in Runs
          BY <1>t, <2>3, <3>2 DEF Schedules
        <4>2. /\ run'[pending[d]] = run[pending[d]]
              /\ cancelOf'[pending[d]] = cancelOf[pending[d]]
          BY <1>4, <3>2, <4>1
        <4>3. /\ run[pending[d]].at # "free" => run[pending[d]].doc = d
              /\ cancelOf[pending[d]] # None =>
                   /\ run[cancelOf[pending[d]]].at \in Inside
                   /\ run[cancelOf[pending[d]]].doc = d
          BY <1>r, <4>1 DEF Records
        <4>4. cancelOf[pending[d]] # None =>
                 run'[cancelOf[pending[d]]] = run[cancelOf[pending[d]]]
          BY <1>1, <1>i, <1>t, <4>1, <4>3
        <4> QED
          BY <4>1, <4>2, <4>3, <4>4
      <3> QED
        BY <3>1, <3>2
    <2>4. ASSUME NEW r \in Runs, run'[r].at = "armed" PROVE pending'[run'[r].doc] = r
      <3>1. CASE \E d \in D : r = new[d]
        BY <1>s, <3>1
      <3>2. CASE \A d \in D : r # new[d]
        <4>1. run'[r] = run[r] /\ \A d \in D : pending[d] # r
          BY <2>4, <3>2 DEF Schedules, FreeRun
        <4>2. pending[run[r].doc] = r /\ run[r].doc \in Docs
          BY <2>4, <4>1, <1>r DEF Records, ServerInv, Shape
        <4> QED
          BY <4>1, <4>2 DEF Schedules
      <3> QED
        BY <3>1, <3>2
    <2>5. ASSUME NEW r \in cancelled', r \in Runs PROVE run'[r].at \in Inside
      <3>1. run[r].at \in Inside
        BY <1>5, <1>r, <2>5 DEF Records
      <3> QED
        BY <1>1, <1>i, <2>5, <3>1
    <2>6. cancelled' \subseteq Runs
      BY DEF Shape
    <2> QED
      BY <2>1, <2>2, <2>3, <2>4, <2>5, <2>6 DEF Records
  <1>7. ASSUME NEW d \in Docs \ D, Waiting(d) PROVE Waiting(d)'
    BY <1>4, <1>7 DEF Waiting
  <1>8. ASSUME NEW r \in Runs, r \notin cancelled, run[r].doc \notin D PROVE r \notin cancelled'
    BY <1>5, <1>8
  <1> QED
    BY <1>1, <1>2, <1>3, <1>6, <1>7, <1>8

\* The steps of a run, seen from the records.
LEMMA RunRecords ==
    ASSUME ServerInv, NEW r \in Runs, Advances(r) \/ Starts(r) \/ Stores(r) \/ Ends(r)
    PROVE  Records'
  <1>t. /\ pending \in [Docs -> Runs \cup {None}] /\ cancelOf \in [Runs -> Runs \cup {None}]
        /\ cancelled \in SUBSET Runs /\ None \notin Runs
        /\ run = [q \in Runs |-> run[q]]
        /\ run[r].at # "free" => run[r].doc \in Docs
    BY NamesAssumption, BoundAssumption DEF ServerInv, Shape
  <1>r. Records
    BY DEF ServerInv
  <1>1. CASE Advances(r) \/ Stores(r)
    <2>1. /\ run[r].at # "free" /\ run'[r].at # "free" /\ run'[r].at # "armed"
          /\ run[r].at \in Inside => run'[r].at \in Inside
          /\ run'[r].doc = run[r].doc
          /\ \A q \in Runs \ {r} : run'[q] = run[q]
          /\ UNCHANGED <<buf, pending, cancelOf, cancelled>>
      BY <1>1, <1>t DEF Advances, Stores, Goes, Inside, Stages
    <2>2. \A q \in Runs : /\ run'[q].at # "free" => run[q].at # "free" /\ run'[q].doc = run[q].doc
                          /\ run'[q].at = "armed" => run[q].at = "armed" /\ run'[q].doc = run[q].doc
                          /\ run[q].at \in Inside =>
                               run'[q].at \in Inside /\ run'[q].doc = run[q].doc
      BY <2>1
    <2>3. \A d \in Docs : Open(d)' <=> Open(d)
      BY <2>1 DEF Open
    <2>4. ASSUME NEW d \in Docs, pending[d] # None
          PROVE  /\ run'[pending[d]].at # "free" => run'[pending[d]].doc = d
                 /\ cancelOf[pending[d]] # None =>
                      /\ run'[cancelOf[pending[d]]].at \in Inside
                      /\ run'[cancelOf[pending[d]]].doc = d
      <3>1. pending[d] \in Runs /\ (cancelOf[pending[d]] # None => cancelOf[pending[d]] \in Runs)
        BY <1>t, <2>4
      <3>2. /\ run[pending[d]].at # "free" => run[pending[d]].doc = d
            /\ cancelOf[pending[d]] # None =>
                 /\ run[cancelOf[pending[d]]].at \in Inside
                 /\ run[cancelOf[pending[d]]].doc = d
        BY <1>r, <2>4 DEF Records
      <3> QED
        BY <2>2, <3>1, <3>2
    <2>5. ASSUME NEW q \in Runs, run'[q].at = "armed" PROVE pending'[run'[q].doc] = q
      BY <1>r, <2>1, <2>2, <2>5 DEF Records
    <2>6. ASSUME NEW q \in cancelled' PROVE run'[q].at \in Inside
      BY <1>r, <1>t, <2>1, <2>2, <2>6 DEF Records
    <2> QED
      BY <1>r, <2>1, <2>3, <2>4, <2>5, <2>6 DEF Records
  <1>2. CASE Starts(r)
    <2>1. /\ run[r].at = "fired" /\ run'[r].at = "started"
          /\ run'[r].doc = run[r].doc
          /\ \A q \in Runs \ {r} : run'[q] = run[q]
          /\ UNCHANGED <<buf, pending, cancelled>>
          /\ cancelOf' = [cancelOf EXCEPT ![pending[run[r].doc]] = r]
          /\ pending[run[r].doc] # None
      BY <1>2, <1>t DEF Starts, Goes
    <2>2. "started" \in Inside /\ "fired" \notin Inside
      BY DEF Inside, Stages
    <2>3. ASSUME NEW d \in Docs, pending[d] # None
          PROVE  /\ run'[pending[d]].at # "free" => run'[pending[d]].doc = d
                 /\ cancelOf'[pending[d]] # None =>
                      /\ run'[cancelOf'[pending[d]]].at \in Inside
                      /\ run'[cancelOf'[pending[d]]].doc = d
      <3>1. pending[d] \in Runs
        BY <1>t, <2>3
      <3>2. /\ run[pending[d]].at # "free" => run[pending[d]].doc = d
            /\ cancelOf[pending[d]] # None =>
                 /\ run[cancelOf[pending[d]]].at \in Inside
                 /\ run[cancelOf[pending[d]]].doc = d
        BY <1>r, <2>3 DEF Records
      <3>3. CASE d = run[r].doc
        BY <1>t, <2>1, <2>2, <3>1, <3>2, <3>3
      <3>4. CASE d # run[r].doc
        <4>1. pending[d] # pending[run[r].doc]
          BY <1>r, <1>t, <2>1, <2>3, <3>4 DEF Records
        <4>2. cancelOf'[pending[d]] = cancelOf[pending[d]]
          BY <1>t, <2>1, <3>1, <4>1
        <4> QED
          BY <1>t, <2>1, <2>2, <3>1, <3>2, <4>2
      <3> QED
        BY <3>3, <3>4
    <2>4. \A d \in Docs : Open(d)' <=> Open(d)
      BY <2>1 DEF Open
    <2>5. ASSUME NEW q \in Runs, run'[q].at = "armed" PROVE pending'[run'[q].doc] = q
      BY <1>r, <2>1, <2>5 DEF Records
    <2>6. ASSUME NEW q \in cancelled' PROVE run'[q].at \in Inside
      BY <1>r, <1>t, <2>1, <2>2, <2>6 DEF Records
    <2> QED
      BY <1>r, <2>1, <2>3, <2>4, <2>5, <2>6 DEF Records
  <1>3. CASE Ends(r)
    <2>1. /\ run[r].at # "free" /\ run[r].at # "armed" /\ run'[r].at = "free"
          /\ \A q \in Runs \ {r} : run'[q] = run[q]
          /\ UNCHANGED <<buf, pending>>
          /\ \A q \in Runs : cancelOf'[q] = IF cancelOf[q] = r THEN None ELSE cancelOf[q]
          /\ cancelled' = cancelled \ {r}
      BY <1>3, <1>t DEF Ends, FreeRun
    <2>2. \A d \in Docs : Open(d)' <=> Open(d)
      BY <2>1 DEF Open
    <2>3. ASSUME NEW d \in Docs, pending[d] # None
          PROVE  /\ run'[pending[d]].at # "free" => run'[pending[d]].doc = d
                 /\ cancelOf'[pending[d]] # None =>
                      /\ run'[cancelOf'[pending[d]]].at \in Inside
                      /\ run'[cancelOf'[pending[d]]].doc = d
      <3>1. pending[d] \in Runs /\ (cancelOf[pending[d]] # None => cancelOf[pending[d]] \in Runs)
        BY <1>t, <2>3
      <3>2. /\ run[pending[d]].at # "free" => run[pending[d]].doc = d
            /\ cancelOf[pending[d]] # None =>
                 /\ run[cancelOf[pending[d]]].at \in Inside
                 /\ run[cancelOf[pending[d]]].doc = d
        BY <1>r, <2>3 DEF Records
      <3> QED
        BY <2>1, <3>1, <3>2
    <2>4. ASSUME NEW q \in Runs, run'[q].at = "armed" PROVE pending'[run'[q].doc] = q
      BY <1>r, <2>1, <2>4 DEF Records
    <2>5. ASSUME NEW q \in cancelled' PROVE run'[q].at \in Inside
      BY <1>r, <1>t, <2>1, <2>5 DEF Records
    <2> QED
      BY <1>r, <2>1, <2>2, <2>3, <2>4, <2>5 DEF Records
  <1> QED
    BY <1>1, <1>2, <1>3

\* A buffer that is closed has no record any more.
LEMMA CancelRecords ==
    ASSUME ServerInv, NEW d \in Docs, Cancel(d), buf' = [buf EXCEPT ![d] = Closed]
    PROVE  /\ Records'
           /\ \A r \in Runs : run'[r] = run[r] \/ (run[r].at = "armed" /\ run'[r] = FreeRun)
           /\ \A e \in Docs \ {d} : Waiting(e) => Waiting(e)'
           /\ \A r \in Runs : r \notin cancelled /\ run[r].doc # d => r \notin cancelled'
  <1>t. /\ pending \in [Docs -> Runs \cup {None}] /\ cancelOf \in [Runs -> Runs \cup {None}]
        /\ cancelled \in SUBSET Runs /\ None \notin Runs /\ buf \in [Docs -> [ver : Nat, text : Nat]]
        /\ \A r \in Runs : run[r].at # "free" => run[r].doc \in Docs
    BY NamesAssumption, BoundAssumption DEF ServerInv, Shape
  <1>r. Records
    BY DEF ServerInv
  <1>1. /\ pending' = [pending EXCEPT ![d] = None]
        /\ \A r \in Runs :
             IF r = pending[d] /\ run[r].at = "armed"
               THEN run'[r] = FreeRun /\ cancelOf'[r] = None
               ELSE run'[r] = run[r] /\ cancelOf'[r] = cancelOf[r]
        /\ \A r \in Runs : r \in cancelled' =>
             r \in cancelled \/ (pending[d] # None /\ r = cancelOf[pending[d]])
        /\ cancelled' \subseteq Runs
    BY <1>t DEF Cancel, Cancellable, Stopped
  <1>2. ASSUME NEW r \in cancelled', r \notin cancelled
        PROVE  run[r].doc = d /\ run[r].at \in Inside
    <2>1. r \in Runs /\ pending[d] # None /\ r = cancelOf[pending[d]]
      BY <1>1, <1>2
    <2> QED
      BY <1>r, <1>t, <2>1 DEF Records
  <1>3. ASSUME NEW e \in Docs \ {d}, pending[e] # None
        PROVE  /\ pending'[e] = pending[e] /\ pending[e] \in Runs
               /\ run'[pending[e]] = run[pending[e]]
               /\ cancelOf'[pending[e]] = cancelOf[pending[e]]
    <2>1. pending[e] # pending[d]
      BY <1>3, <1>r DEF Records
    <2> QED
      BY <1>1, <1>3, <1>t, <2>1
  <1>f. FreeRun.at = "free" /\ "armed" \notin Inside /\ "free" \notin Inside
    BY DEF FreeRun, Inside, Stages
  <1>4. Records'
    <2>1. \A e \in Docs : Open(e)' <=> pending'[e] # None
      BY <1>1, <1>r, <1>t DEF Records, Open
    <2>2. \A e, g \in Docs : pending'[e] # None /\ pending'[e] = pending'[g] => e = g
      BY <1>1, <1>r, <1>t DEF Records
    <2>3. ASSUME NEW e \in Docs, pending'[e] # None
          PROVE  /\ run'[pending'[e]].at # "free" => run'[pending'[e]].doc = e
                 /\ cancelOf'[pending'[e]] # None =>
                      /\ run'[cancelOf'[pending'[e]]].at \in Inside
                      /\ run'[cancelOf'[pending'[e]]].doc = e
      <3>1. e # d /\ pending[e] # None
        BY <1>1, <1>t, <2>3
      <3>2. /\ pending'[e] = pending[e] /\ run'[pending[e]] = run[pending[e]]
            /\ cancelOf'[pending[e]] = cancelOf[pending[e]] /\ pending[e] \in Runs
        BY <1>3, <3>1
      <3>3. /\ run[pending[e]].at # "free" => run[pending[e]].doc = e
            /\ cancelOf[pending[e]] # None =>
                 /\ run[cancelOf[pending[e]]].at \in Inside
                 /\ run[cancelOf[pending[e]]].doc = e
        BY <1>r, <3>1 DEF Records
      <3>4. cancelOf[pending[e]] # None => run'[cancelOf[pending[e]]] = run[cancelOf[pending[e]]]
        BY <1>1, <1>f, <1>t, <3>2, <3>3
      <3> QED
        BY <3>2, <3>3, <3>4
    <2>4. ASSUME NEW r \in Runs, run'[r].at = "armed" PROVE pending'[run'[r].doc] = r
      BY <1>1, <1>f, <1>r, <1>t, <2>4 DEF Records
    <2>5. ASSUME NEW r \in cancelled' PROVE run'[r].at \in Inside
      <3>1. run[r].at \in Inside
        BY <1>2, <1>r, <2>5 DEF Records
      <3> QED
        BY <1>1, <1>f, <2>5, <3>1
    <2> QED
      BY <2>1, <2>2, <2>3, <2>4, <2>5 DEF Records
  <1>5. ASSUME NEW e \in Docs \ {d}, Waiting(e) PROVE Waiting(e)'
    BY <1>3, <1>5 DEF Waiting
  <1>6. ASSUME NEW r \in Runs, r \notin cancelled, run[r].doc # d PROVE r \notin cancelled'
    BY <1>2, <1>6
  <1> QED
    BY <1>1, <1>4, <1>5, <1>6

LEMMA RecordsNext == ServerInv /\ ServerStep /\ Shape' => Records'
  <1> SUFFICES ASSUME ServerInv, ServerStep, Shape' PROVE Records'
    OBVIOUS
  <1>1. ASSUME NEW d \in Docs, NEW new \in News({d}), Schedules({d}, new), Open(d)',
               buf' = [buf EXCEPT ![d] = buf'[d]]
        PROVE  Records'
    <2>1. \A e \in Docs \ {d} : Open(e)' <=> Open(e)
      BY <1>1 DEF Open, ServerInv, Shape
    <2>2. {d} \in SUBSET Docs
      OBVIOUS
    <2> QED
      BY <1>1, <2>1, <2>2, ScheduleRecords
  <1>2. ASSUME NEW new \in News(Reopened), Schedules(Reopened, new), UNCHANGED buf
        PROVE  Records'
    <2>1. Reopened \in SUBSET Docs /\ (\A d \in Reopened : Open(d)')
          /\ \A d \in Docs : Open(d)' <=> Open(d)
      BY <1>2 DEF Reopened, Open
    <2> QED
      BY <1>2, <2>1, ScheduleRecords
  <1>3. CASE UNCHANGED <<buf, texts, pending, cancelOf, run, cancelled, draft>>
    BY <1>3 DEF ServerInv, Records, Open
  <1> QED
    BY <1>1, <1>2, <1>3, RunRecords, CancelRecords DEF ServerStep

LEMMA VersionsNext == ServerInv /\ ServerStep /\ Shape' => VersionsTell'
  <1> SUFFICES ASSUME ServerInv, ServerStep, Shape' PROVE VersionsTell'
    OBVIOUS
  <1>t. /\ buf \in [Docs -> [ver : Nat, text : Nat]] /\ texts \in Nat
        /\ \A r \in Runs : /\ run[r].seen \in [ver : Nat, text : Nat] /\ run[r].at \in Stages
                           /\ run[r].at # "free" => run[r].doc \in Docs
    BY DEF ServerInv, Shape
  <1>v. (\A d \in Docs : buf[d].ver <= texts) /\ \A r \in Runs : Tells(r)
    BY DEF ServerInv, VersionsTell
  <1>h. HasRead \subseteq Stages \ {"free", "armed"}
    BY DEF HasRead, Inside
  \* Runs keep what they have read, and so do the buffers.
  <1>1. ASSUME UNCHANGED <<buf, texts>>,
               \A r \in Runs : run'[r].at \in HasRead =>
                  /\ run'[r].doc = run[r].doc
                  /\ \/ run[r].at \in HasRead /\ run'[r].seen = run[r].seen
                     \/ run[r].doc \in Docs /\ run'[r].seen = buf[run[r].doc]
        PROVE  VersionsTell'
    <2>1. \A d \in Docs : buf'[d].ver <= texts'
      BY <1>1, <1>v
    <2>2. ASSUME NEW r \in Runs, run'[r].at \in HasRead
          PROVE  Tells(r)'
      <3>1. CASE run[r].at \in HasRead /\ run'[r].seen = run[r].seen
        BY <1>1, <1>v, <2>2, <3>1 DEF Tells, Open
      <3>2. CASE run[r].doc \in Docs /\ run'[r].seen = buf[run[r].doc]
        <4>1. buf[run[r].doc].ver \in Nat
          BY <1>t, <3>2
        <4> QED
          BY <1>1, <1>v, <2>2, <3>2, <4>1 DEF Tells
      <3> QED
        BY <1>1, <2>2, <3>1, <3>2
    <2> QED
      BY <2>1, <2>2 DEF VersionsTell, Tells
  <1>2. ASSUME NEW r \in Runs, Advances(r) \/ Starts(r) \/ Stores(r) PROVE VersionsTell'
    <2>1. /\ \A q \in Runs \ {r} : run'[q] = run[q]
          /\ UNCHANGED <<buf, texts>> /\ run'[r].doc = run[r].doc /\ run[r].at # "free"
      BY <1>2 DEF Advances, Starts, Stores, Goes
    <2>2. \/ run'[r].at \notin HasRead
          \/ run[r].at \in HasRead /\ run'[r].seen = run[r].seen
          \/ run'[r].seen = buf[run[r].doc]
      BY <1>2 DEF Advances, Starts, Stores, Goes, HasRead, Inside, Stages
    <2> QED
      BY <1>1, <1>t, <2>1, <2>2
  <1>3. ASSUME NEW r \in Runs, Ends(r) PROVE VersionsTell'
    <2>1. /\ \A q \in Runs \ {r} : run'[q] = run[q]
          /\ UNCHANGED <<buf, texts>> /\ run'[r].at \notin HasRead
      BY <1>3 DEF Ends, FreeRun, HasRead, Inside, Stages, ServerInv, Shape
    <2> QED
      BY <1>1, <2>1
  <1>4. ASSUME NEW d \in Docs, NEW new \in News({d}), Schedules({d}, new), Open(d)',
               buf' = [buf EXCEPT ![d] = buf'[d]], buf'[d] \in [ver : Nat, text : Nat],
               texts' = texts + 1, buf'[d].ver <= texts',
               IF Open(d) THEN buf'[d].ver > buf[d].ver ELSE buf'[d].ver > texts
        PROVE  VersionsTell'
    <2>1. \A e \in Docs \ {d} : buf'[e] = buf[e] /\ (Open(e)' <=> Open(e))
      BY <1>4, <1>t DEF Open
    <2>2. \A r \in Runs : run'[r].at \in HasRead => run'[r] = run[r]
      <3>1. {d} \in SUBSET Docs
        OBVIOUS
      <3> QED
        BY <1>4, <1>h, <2>1, <3>1, ScheduleRecords
    <2>3. \A e \in Docs : buf'[e].ver <= texts'
      BY <1>4, <1>t, <1>v, <2>1
    <2>4. ASSUME NEW r \in Runs, run'[r].at \in HasRead
          PROVE  Tells(r)'
      <3>1. /\ run'[r] = run[r] /\ run[r].doc \in Docs /\ run[r].seen.ver <= texts
            /\ run[r].seen.ver \in Nat
        BY <1>t, <1>v, <1>h, <2>2, <2>4 DEF Tells
      <3>2. CASE run[r].doc = d
        <4>1. run[r].seen.ver < buf'[d].ver
          BY <1>4, <1>t, <1>v, <2>4, <3>1, <3>2 DEF Tells
        <4> QED
          BY <1>4, <1>t, <3>1, <3>2, <4>1 DEF Tells
      <3>3. CASE run[r].doc # d
        BY <1>4, <1>t, <1>v, <2>1, <2>4, <3>1, <3>3 DEF Tells, Open
      <3> QED
        BY <3>2, <3>3
    <2> QED
      BY <2>3, <2>4 DEF VersionsTell, Tells
  <1>5. ASSUME NEW new \in News(Reopened), Schedules(Reopened, new),
               UNCHANGED <<buf, texts>>
        PROVE  VersionsTell'
    <2>1. Reopened \in SUBSET Docs /\ (\A d \in Reopened : Open(d)')
          /\ \A d \in Docs : Open(d)' <=> Open(d)
      BY <1>5 DEF Reopened, Open
    <2>2. \A r \in Runs : run'[r].at \in HasRead => run'[r] = run[r]
      BY <1>5, <1>h, <2>1, ScheduleRecords
    <2> QED
      BY <1>1, <1>5, <2>2
  <1>6. ASSUME NEW d \in Docs, Cancel(d), UNCHANGED texts, buf' = [buf EXCEPT ![d] = Closed]
        PROVE  VersionsTell'
    <2>1. \A r \in Runs : run'[r].at \in HasRead => run'[r] = run[r]
      <3>1. \A r \in Runs : run'[r] = run[r] \/ (run[r].at = "armed" /\ run'[r] = FreeRun)
        BY <1>6, CancelRecords
      <3>2. FreeRun.at = "free"
        BY DEF FreeRun
      <3> QED
        BY <1>h, <3>1, <3>2
    <2>2. \A e \in Docs \ {d} : buf'[e] = buf[e] /\ (Open(e)' <=> Open(e))
      BY <1>6, <1>t DEF Open
    <2>3. ~Open(d)' /\ buf'[d].ver = 0
      BY <1>6, <1>t DEF Open, Closed
    <2>4. \A e \in Docs : buf'[e].ver <= texts'
      BY <1>6, <1>t, <1>v, <2>2, <2>3
    <2>5. ASSUME NEW r \in Runs, run'[r].at \in HasRead
          PROVE  Tells(r)'
      <3>1. run'[r] = run[r] /\ run[r].doc \in Docs /\ run[r].seen.ver <= texts
        BY <1>t, <1>v, <1>h, <2>1, <2>5 DEF Tells
      <3>2. CASE run[r].doc = d
        BY <1>6, <2>3, <3>1, <3>2 DEF Tells, Open
      <3>3. CASE run[r].doc # d
        BY <1>6, <1>v, <2>2, <2>5, <3>1, <3>3 DEF Tells, Open
      <3> QED
        BY <3>2, <3>3
    <2> QED
      BY <2>4, <2>5 DEF VersionsTell, Tells
  <1>7. CASE UNCHANGED <<buf, texts, pending, cancelOf, run, cancelled, draft>>
    BY <1>7 DEF ServerInv, VersionsTell, Tells, Open
  <1> QED
    BY <1>2, <1>3, <1>4, <1>5, <1>6, <1>7 DEF ServerStep

\* An open buffer keeps a debounce that will read it, or findings that are about its
\* text or that a run brings them.
LEMMA AnalyzedNext == ServerInv /\ ServerStep /\ Shape' => Analyzed'
  <1> SUFFICES ASSUME ServerInv, ServerStep, Shape' PROVE Analyzed'
    OBVIOUS
  <1>t. /\ buf \in [Docs -> [ver : Nat, text : Nat]] /\ draft = [d \in Docs |-> draft[d]]
        /\ pending \in [Docs -> Runs \cup {None}] /\ None \notin Runs
        /\ \A r \in Runs : run[r].at \in Stages /\ (run[r].at # "free" => run[r].doc \in Docs)
    BY NamesAssumption, BoundAssumption DEF ServerInv, Shape
  <1>r. Records /\ VersionsTell
    BY DEF ServerInv
  <1>a. \A d \in Docs : Open(d) => Waiting(d) \/ Current(d)
    BY DEF ServerInv, Analyzed
  \* A run is the one its buffer waits for, or of no interest to its debounce.
  <1>w. \A r \in Runs, d \in Docs : pending[d] = r /\ run[r].at # "free" => run[r].doc = d
    BY <1>r, <1>t DEF Records
  \* The other buffers do not see what a run does.
  <1>1. ASSUME NEW r \in Runs, NEW own \in Docs, run[r].doc = own,
               run[r].at # "free", UNCHANGED <<buf, pending>>,
               \A q \in Runs \ {r} : run'[q] = run[q] /\ (q \in cancelled' <=> q \in cancelled),
               run'[r].at = "free" \/ run'[r].doc = own,
               \A d \in Docs \ {own} : draft'[d] = draft[d],
               Open(own) => Waiting(own)' \/ Current(own)'
        PROVE  Analyzed'
    <2> SUFFICES ASSUME NEW d \in Docs, Open(d), d # own
                 PROVE  Waiting(d)' \/ Current(d)'
      <3>1. \A d \in Docs : Open(d)' <=> Open(d)
        BY <1>1 DEF Open
      <3> QED
        BY <1>1, <3>1 DEF Analyzed
    <2>1. CASE Waiting(d)
      <3>1. pending[d] # r /\ pending[d] \in Runs
        BY <1>1, <1>t, <1>w, <2>1 DEF Waiting
      <3> QED
        BY <1>1, <2>1, <3>1 DEF Waiting
    <2>2. CASE Current(d)
      <3>1. \A q \in Runs : run'[q].doc = d /\ Outdated(q)' => run[q].doc = d /\ Outdated(q)
        BY <1>1 DEF Outdated
      <3>2. \A q \in Runs : run[q].doc = d /\ Useful(q) => run'[q].doc = d /\ Useful(q)'
        BY <1>1 DEF Useful
      <3>3. draft'[d] = draft[d]
        BY <1>1
      <3> QED
        BY <1>1, <2>2, <3>1, <3>2, <3>3 DEF Current
    <2> QED
      BY <1>a, <2>1, <2>2
  <1>2. ASSUME NEW r \in Runs, NEW d \in Docs, run[r].doc = d, Advances(r) PROVE Analyzed'
    <2>1. /\ run[r].at # "free" /\ UNCHANGED <<buf, pending, cancelled, draft>>
          /\ \A q \in Runs \ {r} : run'[q] = run[q]
          /\ run'[r].doc = d
      BY <1>2 DEF Advances, Goes
    <2>2. ASSUME Open(d) PROVE Waiting(d)' \/ Current(d)'
      <3>1. CASE run[r].at = "armed"
        <4>1. run'[r].at = "fired" /\ Publishing(d) = {}
          BY <1>2, <3>1 DEF Advances, Goes
        <4>2. \A q \in Runs : run[q].doc = d => run[q].at # "publish"
          BY <4>1 DEF Publishing
        <4>3. \A q \in Runs : run'[q].doc = d => ~Outdated(q)'
          BY <2>1, <4>1, <4>2 DEF Outdated
        <4>4. Useful(r)'
          BY <4>1 DEF Useful
        <4> QED
          BY <2>1, <4>3, <4>4 DEF Current
      <3>2. CASE run[r].at # "armed" /\ Waiting(d)
        <4>1. pending[d] # r /\ pending[d] \in Runs
          BY <1>t, <3>2 DEF Waiting
        <4> QED
          BY <2>1, <3>2, <4>1 DEF Waiting
      <3>3. CASE run[r].at # "armed" /\ Current(d)
        <4>1. Outdated(r)' => Outdated(r)
          <5>1. CASE run[r].at = "answered"
            <6>1. run[r].seen.ver = buf[d].ver /\ run'[r].seen = run[r].seen
              BY <1>2, <5>1 DEF Advances, Goes, Unchanged
            <6>2. run[r].seen = buf[d]
              BY <1>2, <1>r, <2>2, <5>1, <6>1 DEF VersionsTell, Tells, HasRead, Inside, Stages
            <6> QED
              BY <2>1, <6>1, <6>2 DEF Outdated
          <5>2. CASE run[r].at # "answered"
            BY <1>2, <3>3, <5>2 DEF Advances, Goes, Outdated
          <5> QED
            BY <5>1, <5>2
        <4>2. Useful(r) => Useful(r)'
          <5>1. CASE run[r].at = "started"
            BY <1>2, <2>1, <5>1 DEF Advances, Goes, Useful
          <5>2. CASE run[r].at \in {"validate", "answered"}
            BY <1>2, <2>1, <5>2 DEF Advances, Goes, Useful
          <5>3. CASE run[r].at \notin {"started", "validate", "answered"}
            BY <1>2, <3>3, <5>3 DEF Advances, Useful
          <5> QED
            BY <5>1, <5>2, <5>3
        <4>3. \A q \in Runs \ {r} : (Outdated(q)' <=> Outdated(q)) /\ (Useful(q)' <=> Useful(q))
          BY <2>1 DEF Outdated, Useful
        <4> QED
          BY <1>2, <2>1, <3>3, <4>1, <4>2, <4>3 DEF Current
      <3> QED
        BY <1>a, <2>2, <3>1, <3>2, <3>3
    <2> QED
      BY <1>2, <1>1, <2>1, <2>2
  <1>3. ASSUME NEW r \in Runs, NEW d \in Docs, run[r].doc = d, Starts(r) PROVE Analyzed'
    <2>1. /\ run[r].at = "fired" /\ UNCHANGED <<buf, pending, cancelled, draft>>
          /\ \A q \in Runs \ {r} : run'[q] = run[q]
          /\ run'[r].doc = d /\ run'[r].at = "started"
      BY <1>3 DEF Starts, Goes
    <2>2. CASE Waiting(d)
      <3>1. pending[d] # r /\ pending[d] \in Runs
        BY <1>t, <2>1, <2>2 DEF Waiting
      <3>2. Waiting(d)'
        BY <2>1, <2>2, <3>1 DEF Waiting
      <3> QED
        BY <1>3, <1>1, <2>1, <3>2
    <2>3. CASE Current(d)
      <3>1. \A q \in Runs : Outdated(q)' => Outdated(q) /\ q # r
        BY <2>1 DEF Outdated
      <3>2. Useful(r)'
        <4>1. r \notin cancelled
          BY <1>r, <2>1 DEF Records, Inside
        <4> QED
          BY <2>1, <4>1 DEF Useful
      <3>3. Current(d)'
        BY <2>1, <2>3, <3>1, <3>2 DEF Current
      <3> QED
        BY <1>3, <1>1, <2>1, <3>3
    <2>4. CASE ~Open(d)
      BY <1>3, <1>1, <2>1, <2>4
    <2> QED
      BY <1>a, <2>2, <2>3, <2>4
  <1>4. ASSUME NEW r \in Runs, NEW d \in Docs, run[r].doc = d, Stores(r) PROVE Analyzed'
    <2>1. /\ run[r].at = "publish" /\ UNCHANGED <<buf, pending, cancelled>>
          /\ \A q \in Runs \ {r} : run'[q] = run[q]
          /\ run'[r].doc = d /\ run'[r].at = "stored"
          /\ draft' = [draft EXCEPT ![d] = run[r].seen.text]
      BY <1>4 DEF Stores, Goes
    <2>e. \A e \in Docs \ {d} : draft'[e] = draft[e]
      BY <1>t, <2>1
    <2>2. CASE Waiting(d)
      <3>1. pending[d] # r /\ pending[d] \in Runs
        BY <1>t, <2>1, <2>2 DEF Waiting
      <3>2. Waiting(d)'
        BY <2>1, <2>2, <3>1 DEF Waiting
      <3> QED
        BY <1>4, <1>1, <2>1, <2>e, <3>2
    <2>3. CASE Current(d)
      <3>1. \A q \in Runs : Outdated(q)' => Outdated(q) /\ q # r
        BY <2>1 DEF Outdated
      <3>2. run[r].seen = buf[d]
        BY <1>4, <2>1, <2>3 DEF Current, Outdated
      <3>3. draft'[d] = buf'[d].text
        BY <1>t, <2>1, <3>2
      <3>4. Current(d)'
        BY <2>1, <2>3, <3>1, <3>3 DEF Current
      <3> QED
        BY <1>4, <1>1, <2>1, <2>e, <3>4
    <2>4. CASE ~Open(d)
      BY <1>4, <1>1, <2>1, <2>4, <2>e
    <2> QED
      BY <1>a, <2>2, <2>3, <2>4
  <1>5. ASSUME NEW r \in Runs, NEW d \in Docs, run[r].doc = d, Ends(r) PROVE Analyzed'
    <2>1. /\ run[r].at # "free" /\ run[r].at # "armed" /\ UNCHANGED <<buf, pending, draft>>
          /\ \A q \in Runs \ {r} : run'[q] = run[q] /\ (q \in cancelled' <=> q \in cancelled)
          /\ run'[r].at = "free"
      BY <1>5 DEF Ends, FreeRun, ServerInv, Shape
    <2>2. CASE Waiting(d)
      <3>1. pending[d] # r /\ pending[d] \in Runs
        BY <1>t, <2>1, <2>2 DEF Waiting
      <3>2. Waiting(d)'
        <4>1. run'[pending[d]] = run[pending[d]] /\ pending' = pending
          BY <2>1, <3>1
        <4> QED
          BY <2>2, <4>1 DEF Waiting
      <3> QED
        BY <1>5, <1>1, <2>1, <3>2
    <2>3. CASE Current(d) /\ Open(d)
      <3>1. ~Useful(r)
        <4>1. CASE run[r].at = "fired"
          BY <1>5, <1>r, <2>3, <4>1 DEF Ends, Records
        <4>2. CASE run[r].at \in {"started", "validate", "send"}
          BY <1>5, <2>3, <4>2 DEF Ends, Useful
        <4>3. CASE run[r].at = "answered"
          BY <1>5, <2>3, <4>3 DEF Ends, Useful, Unchanged
        <4> QED
          BY <1>5, <4>1, <4>2, <4>3 DEF Ends
      <3>2. \A q \in Runs : Outdated(q)' => Outdated(q) /\ q # r
        BY <2>1 DEF Outdated
      <3>3. \A q \in Runs \ {r} : Useful(q) => Useful(q)'
        BY <2>1 DEF Useful
      <3>4. Current(d)'
        <4>1. UNCHANGED <<buf, draft>> /\ \A q \in Runs \ {r} : run'[q] = run[q]
          BY <2>1
        <4>2. \A q \in Runs : run'[q].doc = d => ~Outdated(q)'
          BY <2>3, <3>2, <4>1 DEF Current
        <4>3. draft[d] = buf[d].text \/ \E q \in Runs : run'[q].doc = d /\ Useful(q)'
          BY <2>3, <3>1, <3>3, <4>1 DEF Current
        <4> QED
          BY <4>1, <4>2, <4>3 DEF Current
      <3> QED
        BY <1>5, <1>1, <2>1, <3>4
    <2>4. CASE ~Open(d)
      BY <1>5, <1>1, <2>1, <2>4
    <2> QED
      BY <1>a, <2>2, <2>3, <2>4
  <1>6. ASSUME NEW D \in SUBSET Docs, NEW new \in News(D), Schedules(D, new),
               \A d \in D : Open(d)',
               \A d \in Docs \ D : buf'[d] = buf[d] /\ (Open(d)' <=> Open(d))
        PROVE  Analyzed'
    <2>1. /\ \A d \in D : Waiting(d)'
          /\ \A d \in Docs \ D : Waiting(d) => Waiting(d)'
          /\ \A r \in Runs : run[r].at \in Stages \ {"free", "armed"} => run'[r] = run[r]
          /\ \A r \in Runs : run'[r].at \in Stages \ {"free", "armed"} => run'[r] = run[r]
          /\ \A r \in Runs : r \notin cancelled /\ run[r].doc \notin D => r \notin cancelled'
      BY <1>6, ScheduleRecords
    <2>2. UNCHANGED draft
      BY <1>6 DEF Schedules
    <2>3. ASSUME NEW d \in Docs \ D, Current(d) PROVE Current(d)'
      <3>1. ASSUME NEW r \in Runs, run'[r].doc = d, Outdated(r)'
            PROVE  run[r].doc = d /\ Outdated(r)
        <4>1. run'[r] = run[r]
          BY <2>1, <3>1 DEF Outdated, Stages
        <4> QED
          BY <1>6, <3>1, <4>1 DEF Outdated
      <3>2. ASSUME NEW r \in Runs, run[r].doc = d, Useful(r)
            PROVE  run'[r].doc = d /\ Useful(r)'
        <4>1. run'[r] = run[r]
          BY <2>1, <3>2 DEF Useful, Stages
        <4>2. r \notin cancelled => r \notin cancelled'
          BY <2>1, <3>2
        <4> QED
          BY <1>6, <3>2, <4>1, <4>2 DEF Useful
      <3> QED
        BY <1>6, <2>2, <2>3, <3>1, <3>2 DEF Current
    <2> QED
      BY <1>6, <1>a, <2>1, <2>3 DEF Analyzed
  <1>7. ASSUME NEW d \in Docs, NEW new \in News({d}), Schedules({d}, new), Open(d)',
               buf' = [buf EXCEPT ![d] = buf'[d]]
        PROVE  Analyzed'
    <2>1. \A e \in Docs \ {d} : buf'[e] = buf[e] /\ (Open(e)' <=> Open(e))
      BY <1>7, <1>t DEF Open
    <2>2. {d} \in SUBSET Docs
      OBVIOUS
    <2> QED
      BY <1>6, <1>7, <2>1, <2>2
  <1>8. ASSUME NEW new \in News(Reopened), Schedules(Reopened, new), UNCHANGED buf
        PROVE  Analyzed'
    <2>1. Reopened \in SUBSET Docs /\ (\A d \in Reopened : Open(d)')
          /\ \A d \in Docs : buf'[d] = buf[d] /\ (Open(d)' <=> Open(d))
      BY <1>8 DEF Reopened, Open
    <2> QED
      BY <1>6, <1>8, <2>1
  <1>9. ASSUME NEW d \in Docs, Cancel(d), buf' = [buf EXCEPT ![d] = Closed],
               draft' = [draft EXCEPT ![d] = None]
        PROVE  Analyzed'
    <2>1. /\ \A r \in Runs : run'[r] = run[r] \/ (run[r].at = "armed" /\ run'[r] = FreeRun)
          /\ \A e \in Docs \ {d} : Waiting(e) => Waiting(e)'
          /\ \A r \in Runs : r \notin cancelled /\ run[r].doc # d => r \notin cancelled'
      BY <1>9, CancelRecords
    <2>2. /\ \A e \in Docs \ {d} : /\ buf'[e] = buf[e] /\ (Open(e)' <=> Open(e))
                                   /\ draft'[e] = draft[e]
          /\ ~Open(d)'
      BY <1>9, <1>t DEF Open
    <2>3. ASSUME NEW e \in Docs \ {d}, Current(e) PROVE Current(e)'
      <3>f. FreeRun.at = "free"
        BY DEF FreeRun
      <3>1. ASSUME NEW r \in Runs, run'[r].doc = e, Outdated(r)'
            PROVE  run[r].doc = e /\ Outdated(r)
        <4>1. run'[r] = run[r]
          BY <2>1, <3>1, <3>f DEF Outdated
        <4> QED
          BY <2>2, <3>1, <4>1 DEF Outdated
      <3>2. ASSUME NEW r \in Runs, run[r].doc = e, Useful(r)
            PROVE  run'[r].doc = e /\ Useful(r)'
        <4>1. run'[r] = run[r]
          BY <2>1, <3>2 DEF Useful
        <4>2. r \notin cancelled => r \notin cancelled'
          BY <2>1, <3>2
        <4> QED
          BY <2>2, <3>2, <4>1, <4>2 DEF Useful
      <3> QED
        BY <2>2, <2>3, <3>1, <3>2 DEF Current
    <2> QED
      BY <1>a, <2>1, <2>2, <2>3 DEF Analyzed
  <1>10. CASE UNCHANGED <<buf, texts, pending, cancelOf, run, cancelled, draft>>
    <2>1. \A d \in Docs : /\ Open(d)' <=> Open(d)
                          /\ Waiting(d)' <=> Waiting(d)
                          /\ Current(d)' <=> Current(d)
      BY <1>10 DEF Open, Waiting, Current, Outdated, Useful
    <2> QED
      BY <1>a, <2>1 DEF Analyzed
  <1> QED
    <2>1. ASSUME NEW r \in Runs, Advances(r) \/ Starts(r) \/ Stores(r) \/ Ends(r)
          PROVE  run[r].doc \in Docs
      BY <1>t, <2>1 DEF Advances, Starts, Stores, Ends
    <2> QED
      BY <1>2, <1>3, <1>4, <1>5, <1>7, <1>8, <1>9, <1>10, <2>1 DEF ServerStep

LEMMA ServerInvNext ==
    ASSUME Editing, ServerInv,
           \/ LspNext
           \/ OnProjectChange
           \/ \E k \in Fetches : FailFetch(k)
           \/ UNCHANGED lspVars
    PROVE  ServerInv'
  <1>1. ServerStep
    BY ServerSteps DEF ServerInv
  <1>2. Shape'
    BY <1>1, ShapeNext
  <1> QED
    BY <1>1, <1>2, RecordsNext, VersionsNext, AnalyzedNext DEF ServerInv

\* For any files, analyses that overlap, and changes of the project between them:
\* when no analysis of an open buffer is on its way, the findings stored for it are
\* about the text that it holds (analyzer.go run: "buf.Version != buffer.Version").
THEOREM ServerDraftFresh == Editing => (Spec => []DraftFresh)
  <1> SUFFICES ASSUME Editing PROVE Spec => []DraftFresh
    OBVIOUS
  <1>1. ServerInv /\ [Next]_vars => ServerInv'
    <2>1. [Next]_vars =>
            \/ LspNext \/ OnProjectChange
            \/ (\E k \in Fetches : FailFetch(k)) \/ UNCHANGED lspVars
      BY DEF Next, vars, ProjectChange, lspVars
    <2> QED
      BY <2>1, ServerInvNext
  <1> QED
    BY ServerInvInit, ServerFollows, <1>1, PTL DEF Spec, ServerInit

-----------------------------------------------------------------------------
(* The session: the watch loop tells the server behind each refresh.         *)

RefreshShape ==
    fetch = [k \in Fetches |-> [at |-> fetch[k].at, diags |-> fetch[k].diags,
                                left |-> fetch[k].left, merge |-> fetch[k].merge]]

\* Unless the loop has yet to tell the server, an answer that waits to be stored is
\* about the loaded project, and the findings are, or a refresh will make them so.
Tracked ==
    phase \notin {"finish", "tell"} =>
        /\ \A k \in Storing : fetch[k].diags = loaded
        /\ project = loaded \/ \E k \in Fetches : fetch[k].at \in {"fetch", "store"}

SessionInv == RefreshShape /\ Tracked

\* What the steps of the server do to its refreshes.
Answers(k) ==
    /\ fetch[k].at = "fetch" /\ fetch'[k].at = "store" /\ fetch'[k].diags = loaded
    /\ UNCHANGED project

Settles(k) ==
    /\ fetch[k].at = "store" /\ fetch'[k].at = "publish"
    /\ project' = fetch[k].diags

Publishes(k) ==
    /\ fetch[k].at \in {"publish", "send"} /\ fetch'[k].at \in {"publish", "send", "free"}
    /\ UNCHANGED project

RefreshStep ==
    \/ UNCHANGED <<fetch, project>>
    \/ \E k \in Fetches :
         /\ \A j \in Fetches \ {k} : fetch'[j] = fetch[j]
         /\ Answers(k) \/ Settles(k) \/ Publishes(k)

LEMMA RefreshSteps ==
    ASSUME RefreshShape, LspNext
    PROVE  RefreshStep /\ RefreshShape'
  <1>s. /\ \A k \in Fetches : fetch[k] = [at |-> fetch[k].at, diags |-> fetch[k].diags,
                                         left |-> fetch[k].left, merge |-> fetch[k].merge]
        /\ fetch = [k \in Fetches |-> fetch[k]]
    BY DEF RefreshShape
  <1>1. ASSUME NEW d \in Docs, DidOpen(d) \/ DidChange(d) \/ DidClose(d)
        PROVE  UNCHANGED <<fetch, project>>
    BY <1>1 DEF DidOpen, DidChange, DidClose, published
  <1>2. ASSUME NEW r \in Runs, Fire(r) \/ Analysis(r)
        PROVE  UNCHANGED <<fetch, project>>
    BY <1>2 DEF Fire, Analysis, StartRun, GetBuffer, Answered, CheckVersion,
                StoreDraft, MergeDraft, SendDraft, published
  <1>3. ASSUME NEW k \in Fetches, Fetch(k) PROVE RefreshStep /\ RefreshShape'
    <2>1. /\ fetch[k].at = "fetch" /\ UNCHANGED project
          /\ fetch' = [fetch EXCEPT ![k] = [@ EXCEPT !.at = "store", !.diags = loaded]]
      BY <1>3 DEF Fetch, published
    <2>2. fetch'[k] = [at |-> "store", diags |-> loaded, left |-> fetch[k].left,
                       merge |-> fetch[k].merge]
      <3>1. fetch'[k] = [fetch[k] EXCEPT !.at = "store", !.diags = loaded]
        BY <1>s, <2>1
      <3>2. fetch[k] = [at |-> fetch[k].at, diags |-> fetch[k].diags,
                        left |-> fetch[k].left, merge |-> fetch[k].merge]
        BY <1>s
      <3> QED
        BY <3>1, <3>2
    <2> QED
      BY <2>1, <2>2 DEF RefreshShape, RefreshStep, Answers
  <1>4. ASSUME NEW k \in Fetches, StoreProject(k) PROVE RefreshStep /\ RefreshShape'
    <2>1. /\ fetch[k].at = "store" /\ project' = fetch[k].diags
          /\ fetch' = [fetch EXCEPT ![k] = [@ EXCEPT !.at = "publish", !.left = Docs, !.diags = None]]
      BY <1>4 DEF StoreProject
    <2>2. fetch'[k] = [at |-> "publish", diags |-> None, left |-> Docs, merge |-> fetch[k].merge]
      <3>1. fetch'[k] = [fetch[k] EXCEPT !.at = "publish", !.left = Docs, !.diags = None]
        BY <1>s, <2>1
      <3>2. fetch[k] = [at |-> fetch[k].at, diags |-> fetch[k].diags,
                        left |-> fetch[k].left, merge |-> fetch[k].merge]
        BY <1>s
      <3> QED
        BY <3>1, <3>2
    <2> QED
      BY <2>1, <2>2 DEF RefreshShape, RefreshStep, Settles
  <1>5. ASSUME NEW k \in Fetches, MergeProject(k) PROVE RefreshStep /\ RefreshShape'
    <2>1. PICK d \in fetch[k].left :
            fetch' = [fetch EXCEPT ![k] = [@ EXCEPT !.at = "send",
                                                    !.merge = [doc |-> d, merge |-> Merge(d)]]]
      BY <1>5 DEF MergeProject
    <2>2. fetch'[k] = [at |-> "send", diags |-> fetch[k].diags, left |-> fetch[k].left,
                       merge |-> [doc |-> d, merge |-> Merge(d)]]
      <3>1. fetch'[k] = [fetch[k] EXCEPT !.at = "send", !.merge = [doc |-> d, merge |-> Merge(d)]]
        BY <1>s, <2>1
      <3>2. fetch[k] = [at |-> fetch[k].at, diags |-> fetch[k].diags,
                        left |-> fetch[k].left, merge |-> fetch[k].merge]
        BY <1>s
      <3> QED
        BY <3>1, <3>2
    <2>3. fetch[k].at = "publish" /\ UNCHANGED project
      BY <1>5 DEF MergeProject, published
    <2> QED
      BY <2>1, <2>2, <2>3 DEF RefreshShape, RefreshStep, Publishes
  <1>6. ASSUME NEW k \in Fetches, SendProject(k) PROVE RefreshStep /\ RefreshShape'
    <2> DEFINE left == fetch[k].left \ {fetch[k].merge.doc}
    <2>1. /\ fetch[k].at = "send" /\ UNCHANGED project
          /\ fetch' = [fetch EXCEPT ![k] =
                         IF left = {} THEN FreeFetch
                         ELSE [@ EXCEPT !.at = "publish", !.left = left, !.merge = None]]
      BY <1>6 DEF SendProject
    <2>2. \/ fetch'[k] = [at |-> "free", diags |-> None, left |-> {}, merge |-> None]
          \/ fetch'[k] = [at |-> "publish", diags |-> fetch[k].diags, left |-> left, merge |-> None]
      <3>1. fetch'[k] = IF left = {} THEN FreeFetch
                      ELSE [fetch[k] EXCEPT !.at = "publish", !.left = left, !.merge = None]
        BY <1>s, <2>1
      <3>2. fetch[k] = [at |-> fetch[k].at, diags |-> fetch[k].diags,
                        left |-> fetch[k].left, merge |-> fetch[k].merge]
        BY <1>s
      <3> QED
        BY <3>1, <3>2 DEF FreeFetch
    <2> HIDE DEF left
    <2>3. fetch'[k].at \in {"publish", "free"}
      BY <2>2
    <2> QED
      BY <2>1, <2>2, <2>3 DEF RefreshShape, RefreshStep, Publishes
  <1>7. UNCHANGED <<fetch, project>> => RefreshStep /\ RefreshShape'
    BY DEF RefreshShape, RefreshStep
  <1> QED
    BY <1>1, <1>2, <1>3, <1>4, <1>5, <1>6, <1>7 DEF LspNext, Refreshing

LEMMA SessionInvInit == SessionInit => SessionInv
  <1> SUFFICES ASSUME SessionInit PROVE SessionInv
    OBVIOUS
  <1>1. PICK k \in Fetches :
          fetch = [j \in Fetches |-> IF j = k THEN [FreeFetch EXCEPT !.at = "fetch"] ELSE FreeFetch]
    BY DEF SessionInit, Init
  <1> QED
    BY <1>1 DEF SessionInv, RefreshShape, Tracked, Storing, FreeFetch

\* A step of the watch loop that is not the one that tells the server.
LEMMA LoopTracked ==
    ASSUME SessionInv, W!Step, UNCHANGED lspVars
    PROVE  SessionInv'
  <1>1. \/ phase' \in {"finish", "tell"}
        \/ phase \notin {"finish", "tell"} /\ UNCHANGED loaded
    BY DEF W!Step, W!Watch, W!FailLoad, W!KeepState, W!Take, W!Tick, W!Begin,
           W!Loaded, W!Finish, W!Fail, W!Edit, W!Handle, W!Read, W!state
  <1>2. UNCHANGED <<fetch, project>>
    BY DEF lspVars
  <1> QED
    BY <1>1, <1>2 DEF SessionInv, RefreshShape, Tracked, Storing

LEMMA TellTracked ==
    ASSUME Prompt, SessionInv, TellServer
    PROVE  SessionInv'
  <1>1. Storing = {} /\ UNCHANGED <<loaded, project>>
    BY DEF TellServer, W!Tell, OnProjectChange, published, W!state
  <1>2. PICK k \in Idle : fetch' = [fetch EXCEPT ![k].at = "fetch"]
    BY DEF TellServer, OnProjectChange, Spawn
  <1>3. /\ k \in Fetches /\ \A j \in Fetches \ {k} : fetch'[j] = fetch[j]
        /\ fetch'[k] = [at |-> "fetch", diags |-> fetch[k].diags, left |-> fetch[k].left,
                        merge |-> fetch[k].merge]
    BY <1>2 DEF Idle, SessionInv, RefreshShape
  <1>4. RefreshShape'
    BY <1>2, <1>3 DEF SessionInv, RefreshShape
  <1>5. Storing' = {}
    BY <1>1, <1>3 DEF Storing
  <1> QED
    BY <1>3, <1>4, <1>5 DEF SessionInv, Tracked

LEMMA ServerTracked ==
    ASSUME SessionInv, LspNext, UNCHANGED watchVars
    PROVE  SessionInv'
  <1>1. RefreshStep /\ RefreshShape'
    BY RefreshSteps DEF SessionInv
  <1>2. UNCHANGED <<phase, loaded>>
    BY DEF watchVars
  <1>3. CASE UNCHANGED <<fetch, project>>
    BY <1>1, <1>2, <1>3 DEF SessionInv, Tracked, Storing
  <1>4. ASSUME NEW k \in Fetches, \A j \in Fetches \ {k} : fetch'[j] = fetch[j],
               Answers(k) \/ Settles(k) \/ Publishes(k)
        PROVE  SessionInv'
    <2> SUFFICES ASSUME phase \notin {"finish", "tell"}
                 PROVE  /\ \A j \in Fetches : fetch'[j].at = "store" => fetch'[j].diags = loaded
                        /\ \/ project' = loaded
                           \/ \E j \in Fetches : fetch'[j].at \in {"fetch", "store"}
      BY <1>1, <1>2 DEF SessionInv, Tracked, Storing
    <2>1. /\ \A j \in Fetches : fetch[j].at = "store" => fetch[j].diags = loaded
          /\ project = loaded \/ \E j \in Fetches : fetch[j].at \in {"fetch", "store"}
      BY DEF SessionInv, Tracked, Storing
    <2> QED
      BY <1>4, <2>1 DEF Answers, Settles, Publishes
  <1> QED
    BY <1>1, <1>3, <1>4 DEF RefreshStep

LEMMA SessionInvNext == Prompt /\ SessionInv /\ [SessionNext]_sessionVars => SessionInv'
  <1> SUFFICES ASSUME Prompt, SessionInv, [SessionNext]_sessionVars PROVE SessionInv'
    OBVIOUS
  <1>1. CASE UNCHANGED sessionVars
    BY <1>1 DEF sessionVars, lspVars, watchVars, SessionInv, RefreshShape, Tracked, Storing
  <1> QED
    BY <1>1, LoopTracked, TellTracked, ServerTracked DEF SessionNext

\* For any project and any number of refreshes that overlap: when the watch loop has
\* told the server of what it has loaded and no refresh is on its way, the findings the
\* server holds are about the loaded project (server.go refreshProjectDiagnostics).
THEOREM SessionProjectFollows == Editing => (SessionSpec => []ProjectFollows)
  <1> SUFFICES ASSUME Editing PROVE SessionSpec => []ProjectFollows
    OBVIOUS
  <1>1. Prompt
    BY DEF Editing
  <1>2. SessionInv => ProjectFollows
    BY DEF SessionInv, Tracked, ProjectFollows, Idle
  <1>3. SessionInv /\ [SessionNext]_sessionVars => SessionInv'
    BY <1>1, SessionInvNext
  <1> QED
    BY SessionInvInit, <1>2, <1>3, PTL DEF SessionSpec

LEMMA SessionParts ==
    /\ [SessionNext]_sessionVars => [W!Next]_watchVars
    /\ [SessionNext]_sessionVars => \/ LspNext \/ OnProjectChange \/ UNCHANGED lspVars
  BY DEF SessionNext, TellServer, W!Next, sessionVars

\* Under the server, too, no change of a file the project reads is lost
\* (managed.go finishRefresh).
THEOREM SessionChangesDue == SessionSpec => []ChangesDue
  <1>1. IInv /\ [SessionNext]_sessionVars => IInv'
    BY SessionParts, IInvStep
  <1>2. IInv => ChangesDue
    BY DEF IInv, ChangesDue
  <1> QED
    BY InitInv, <1>1, <1>2, PTL DEF SessionSpec, SessionInit

\* The project that the server reports on only moves forward and never past the disk.
THEOREM SessionFollows == SessionSpec => StateFollows
  <1>1. W!Init => W!F!Init
    BY WatchAssumption DEF W!Init, W!F!Init
  <1>2. IInv /\ [SessionNext]_sessionVars => IInv'
    BY SessionParts, IInvStep
  <1>3. IInv /\ [SessionNext]_sessionVars => [W!F!Next]_<<disk, loaded>>
    BY SessionParts, FollowStep
  <1> QED
    BY InitInv, <1>1, <1>2, <1>3, PTL DEF SessionSpec, SessionInit, StateFollows,
       W!StateFollows, W!F!Spec

\* What the server holds of an open buffer is about its text in the session, too.
THEOREM SessionDraftFresh == Editing => (SessionSpec => []DraftFresh)
  <1> SUFFICES ASSUME Editing PROVE SessionSpec => []DraftFresh
    OBVIOUS
  <1>1. ServerInv /\ [SessionNext]_sessionVars => ServerInv'
    BY SessionParts, ServerInvNext
  <1> QED
    BY ServerInvInit, ServerFollows, <1>1, PTL DEF SessionSpec, SessionInit
=============================================================================
