------------------------ MODULE PreviewRefreshProofs ------------------------
(* Invariants of the live-reload loop, its debounce window, its plugins and  *)
(* its assets, for every project, queue capacity and number of saves and     *)
(* plugin rebuilds.                                                          *)
EXTENDS PreviewRefresh, TLAPS

-----------------------------------------------------------------------------
(* Types.                                                                    *)

\* The load, and what follows it, runs on a plugin that loaded.
Loading == pc \in {"hook", "read", "all-pages", "render"} => loaded # 0

TypeInv == TypeOK /\ Loading

\* What an artefact or All Pages reads are documents.
LEMMA ReadsType == \A p \in Paths : Reads(p) \subseteq Docs
  BY ConstantsAssumption DEF Reads, Paths, Artefacts

\* Rendering gives a page.
LEMMA RenderedType ==
    ASSUME NEW p \in Paths, NEW c \in Content, NEW v \in 1 .. MaxBuilds + 1
    PROVE  Rendered(p, c, v) \in Page(p)
  <1>1. Reads(p) \subseteq Docs
    BY ReadsType
  <1>2. [d \in Reads(p) |-> c[d]] \in [Reads(p) -> Versions]
    BY <1>1 DEF Content
  <1> QED
    BY <1>2 DEF Rendered, Page

\* Replacing the entries of a route table keeps it one.
LEMMA UpdatedType ==
    ASSUME NEW old, NEW new, NEW P, IsRoutes(old, P), IsRoutes(new, P)
    PROVE  IsRoutes(Updated(old, new), P)
  BY DEF IsRoutes, Updated

LEMMA OneRoute ==
    ASSUME NEW P, NEW p \in P, NEW pg \in Page(p)
    PROVE  IsRoutes([q \in {p} |-> pg], P)
  BY DEF IsRoutes

LEMMA NoRoutesType == \A P : IsRoutes(NoRoutes, P)
  BY DEF IsRoutes, NoRoutes

\* The sequences behind fsnotify and refreshCh.
LEMMA SeqType ==
    ASSUME NEW S, NEW s \in Seq(S)
    PROVE  /\ \A e \in S : Append(s, e) \in Seq(S) /\ Len(Append(s, e)) = Len(s) + 1
           /\ s # <<>> => /\ Head(s) \in S
                         /\ Tail(s) \in Seq(S) /\ Len(Tail(s)) = Len(s) - 1
           /\ Len(s) \in Nat
  OBVIOUS

LEMMA NotifyType ==
    ASSUME NEW f \in Files, NEW op \in {"write", "remove"}, TypeOK, Notify(f, op)
    PROVE  events' \in Seq(Event)
  <1>1. [file |-> f, op |-> op] \in Event
    BY DEF Event
  <1>2. events \in Seq(Event)
    BY DEF TypeOK
  <1> QED
    BY <1>1, <1>2, SeqType DEF Notify

LEMMA EnqueueType ==
    ASSUME NEW r \in Request, TypeOK, Enqueue(r)
    PROVE  queue' \in Seq(Request) /\ Len(queue') <= ChanCap
  <1>1. queue \in Seq(Request) /\ Len(queue) <= ChanCap
    BY DEF TypeOK
  <1>2. Len(queue) + 1 <= ChanCap <=> Len(queue) < ChanCap
    BY <1>1, SeqType, ConstantsAssumption
  <1> QED
    BY <1>1, <1>2, SeqType DEF Enqueue

\* Sent or dropped: refreshCh is not empty behind the send.
LEMMA EnqueueFills ==
    ASSUME NEW r \in Request, TypeOK, Enqueue(r)
    PROVE  queue' # <<>>
  <1>1. queue \in Seq(Request)
    BY DEF TypeOK
  <1>2. CASE Len(queue) < ChanCap
    <2>1. queue' = Append(queue, r)
      BY <1>2 DEF Enqueue
    <2>2. Len(Append(queue, r)) = Len(queue) + 1 /\ Len(queue) \in Nat
      BY <1>1, SeqType
    <2> QED
      BY <2>1, <2>2
  <1>3. CASE ~(Len(queue) < ChanCap)
    <2>1. queue' = queue
      BY <1>3 DEF Enqueue
    <2>2. Len(queue) # 0
      BY <1>3, ConstantsAssumption
    <2> QED
      BY <2>1, <2>2
  <1> QED
    BY <1>2, <1>3

LEMMA NoJobType == IsJob(NoJob)
  <1>1. [d \in Docs |-> 0] \in Content
    BY ConstantsAssumption DEF Content, Versions
  <1> QED
    BY <1>1, NoRoutesType DEF IsJob, NoJob, Request

LEMMA TypeInit == Init => TypeInv
  <1> SUFFICES ASSUME Init PROVE TypeInv
    OBVIOUS
  <1> USE ConstantsAssumption
  <1>1. disk \in Content /\ lastDocs \in Content
    BY DEF Init, Content, Versions
  <1>2. IsJob(job) /\ IsRoutes(routes, Artefacts) /\ IsRoutes(contexts, Paths)
    BY NoJobType, NoRoutesType DEF Init
  <1>3. events \in Seq(Event) /\ queue \in Seq(Request) /\ Len(queue) <= ChanCap
    BY DEF Init
  <1>4. /\ health \in [Files -> {"ok", "broken", "duplicate"}]
        /\ edits \in 0 .. MaxEdits /\ build \in 1 .. MaxBuilds + 1
        /\ loaded \in 0 .. MaxBuilds + 1 /\ stamp \in 1 .. MaxBuilds + 1
    BY DEF Init
  <1> QED
    BY <1>1, <1>2, <1>3, <1>4 DEF Init, TypeInv, TypeOK, Loading, Step

LEMMA TypeNext == TypeInv /\ [Next]_vars => TypeInv'
  <1> SUFFICES ASSUME TypeInv, [Next]_vars PROVE TypeInv'
    OBVIOUS
  <1> USE ConstantsAssumption DEF TypeInv
  <1>1. ASSUME NEW f \in Files, Save(f) PROVE TypeInv'
    <2>1. events' \in Seq(Event)
      BY <1>1, NotifyType DEF Save
    <2>2. edits' \in 0 .. MaxEdits /\ edits + 2 \in Versions
      BY <1>1 DEF Save, MaySave, TypeOK, Versions
    <2>3. disk' \in Content
      <3>1. disk \in Content /\ 0 \in Versions
        BY DEF TypeOK, Versions
      <3>2. PICK d \in DocsIn(f) : \/ disk' = [disk EXCEPT ![d] = edits + 2]
                                   \/ disk' = [disk EXCEPT ![d] = 0]
        BY <1>1 DEF Save
      <3> QED
        BY <2>2, <3>1, <3>2 DEF Content
    <2>4. health' \in [Files -> {"ok", "broken", "duplicate"}]
      BY <1>1 DEF Save, Healths, TypeOK
    <2> QED
      BY <1>1, <2>1, <2>2, <2>3, <2>4
      DEF Save, TypeOK, Loading, bootVars, pluginVars, serverVars
  <1>2. ASSUME NEW f \in Files, DeleteFile(f) PROVE TypeInv'
    <2>1. events' \in Seq(Event)
      BY <1>2, NotifyType DEF DeleteFile
    <2>2. edits' \in 0 .. MaxEdits
      BY <1>2 DEF DeleteFile, MaySave, TypeOK
    <2>3. disk' \in Content
      BY <1>2 DEF DeleteFile, TypeOK, Content, Versions
    <2> QED
      BY <1>2, <2>1, <2>2, <2>3
      DEF DeleteFile, TypeOK, Loading, bootVars, pluginVars, serverVars
  <1>3. CASE RebuildPlugin
    BY <1>3 DEF RebuildPlugin, TypeOK, Loading, bootVars, loopVars, pluginVars, serverVars
  <1>4. CASE StartWatcher
    BY <1>4 DEF StartWatcher, TypeOK, Loading, Step, diskVars, loopVars, pluginVars, serverVars
  <1>5. CASE Process
    <2>1. events' \in Seq(Event)
      BY <1>5 DEF Process, TypeOK
    <2>2. Head(events) \in Event
      BY <1>5, SeqType DEF Process, TypeOK
    <2>3. Head(events).file \in Request /\ Nil \in Request
      BY <2>2 DEF Event, Request
    <2>4. queue' \in Seq(Request) /\ Len(queue') <= ChanCap
      BY <1>5, <2>3, EnqueueType DEF Process, TypeOK
    <2> QED
      BY <1>5, <2>1, <2>4
      DEF Process, TypeOK, Loading, diskVars, bootVars, pluginVars, serverVars
  <1>6. CASE Poll
    <2>1. queue' \in Seq(Request) /\ Len(queue') <= ChanCap
      BY <1>6, EnqueueType DEF Poll, Request
    <2> QED
      BY <1>6, <2>1 DEF Poll, TypeOK, Loading, diskVars, bootVars, pluginVars, serverVars
  <1>7. CASE Receive
    <2>1. queue' \in Seq(Request) /\ Len(queue') <= ChanCap /\ Head(queue) \in Request
      BY <1>7, SeqType DEF Receive, TypeOK
    <2>2. state' \in [done : BOOLEAN, pending : BOOLEAN, err : BOOLEAN]
      BY <1>7 DEF Receive, SetRefreshPending, TypeOK
    <2> QED
      BY <1>7, <2>1, <2>2
      DEF Receive, ResetTimer, TypeOK, Loading, diskVars, bootVars, pluginVars, serverVars
  <1>8. CASE TimerFires
    <2>1. IsJob(job')
      <3>1. MergeRequests(pending) \subseteq Request
        BY DEF MergeRequests, Request, TypeOK
      <3> QED
        <4>1. CASE UNCHANGED job
          BY <4>1 DEF TypeOK
        <4>2. CASE job' = [NoJob EXCEPT !.changed = MergeRequests(pending)]
          BY <3>1, <4>2, NoJobType DEF IsJob
        <4> QED
          BY <1>8, <4>1, <4>2 DEF TimerFires
    <2> QED
      BY <1>8, <2>1
      DEF TimerFires, TypeOK, Loading, Step, diskVars, bootVars, pluginVars, serverVars
  <1>9. ASSUME NEW e \in BOOLEAN, Finish(e), UNCHANGED booted, booted \in BOOLEAN
        PROVE  /\ pc' \in Step /\ ~(pc' \in {"hook", "read", "all-pages", "render"})
               /\ IsJob(job')
               /\ state' \in [done : BOOLEAN, pending : BOOLEAN, err : BOOLEAN]
    BY <1>9, NoJobType DEF Finish, Step
  \* The end of reloadIfChanged.
  <1>22. ASSUME Proceed, UNCHANGED booted, loaded' \in 0 .. MaxBuilds + 1,
                stale' \in BOOLEAN
         PROVE  /\ pc' \in Step /\ IsJob(job')
                /\ pc' \in {"hook", "read", "all-pages", "render"} => loaded' # 0
                /\ state' \in [done : BOOLEAN, pending : BOOLEAN, err : BOOLEAN]
    <2>1. CASE loaded' = 0
      BY <1>9, <1>22, <2>1 DEF Proceed, TypeOK
    <2>2. CASE loaded' # 0
      <3>1. AfterReload(job.changed, stale') \subseteq Request
        BY DEF AfterReload, TypeOK, IsJob, Request
      <3>2. job' = [job EXCEPT !.changed = AfterReload(@, stale')] /\ IsJob(job)
        BY <1>22, <2>2 DEF Proceed, TypeOK
      <3>3. IsJob(job')
        BY <3>1, <3>2 DEF IsJob
      <3> QED
        BY <1>22, <2>2, <3>3 DEF Proceed, TypeOK, Step
    <2> QED
      BY <2>1, <2>2
  <1>10. CASE Reload
    <2>1. CASE build = stamp
      BY <1>10, <2>1, <1>22
      DEF Reload, TypeOK, Loading, diskVars, bootVars, loopVars, serverVars
    <2>2. CASE build # stamp
      BY <1>10, <2>2
      DEF Reload, TypeOK, Loading, Step, diskVars, bootVars, loopVars, serverVars
    <2> QED
      BY <2>1, <2>2
  <1>23. CASE LoadPlugins
    <2>1. loaded' \in 0 .. MaxBuilds + 1 /\ stale' \in BOOLEAN
      <3>1. build \in 0 .. MaxBuilds + 1 /\ 0 \in 0 .. MaxBuilds + 1
        BY DEF TypeOK
      <3> QED
        BY <1>23, <3>1 DEF LoadPlugins, TypeOK
    <2> QED
      BY <1>23, <2>1, <1>22
      DEF LoadPlugins, TypeOK, Loading, diskVars, bootVars, loopVars, serverVars
  <1>11. CASE Hook
    <2>1. CASE Succeed
      BY <1>11, <2>1, <1>9
      DEF Hook, Succeed, TypeOK, Loading, diskVars, bootVars, loopVars, serverVars
    <2>2. CASE pc' = "read" /\ job' = [job EXCEPT !.left = Files]
               /\ UNCHANGED <<stale, state>>
      <3>1. IsJob(job')
        BY <2>2 DEF TypeOK, IsJob
      <3> QED
        BY <1>11, <2>2, <3>1
        DEF Hook, TypeOK, Loading, Step, diskVars, bootVars, loopVars, serverVars
    <2> QED
      BY <1>11, <2>1, <2>2 DEF Hook
  <1>12. ASSUME NEW f \in Files, ReadFile(f) PROVE TypeInv'
    <2>1. dirs' \subseteq Files
      BY <1>12 DEF ReadFile, TypeOK
    <2>2. CASE health[f] = "broken"
      BY <1>12, <2>1, <2>2, <1>9
      DEF ReadFile, TypeOK, Loading, diskVars, loopVars, pluginVars, serverVars
    <2>3. CASE health[f] # "broken"
      <3>1. [d \in Docs |-> IF Home[d] = f THEN disk[d] ELSE job.read[d]] \in Content
        BY DEF TypeOK, IsJob, Content
      <3>2. job' = [job EXCEPT
                   !.left = @ \ {f},
                   !.read = [d \in Docs |-> IF Home[d] = f THEN disk[d] ELSE @[d]],
                   !.duplicate = @ \/ health[f] = "duplicate"]
        BY <1>12, <2>3 DEF ReadFile
      <3>3. IsJob(job')
        BY <3>1, <3>2 DEF TypeOK, IsJob
      <3> QED
        BY <1>12, <2>1, <2>3, <3>3
        DEF ReadFile, TypeOK, Loading, diskVars, loopVars, pluginVars, serverVars
    <2> QED
      BY <2>2, <2>3
  <1>13. CASE Plan
    <2>1. lastDocs' \in Content
      BY <1>13 DEF Plan, TypeOK, IsJob
    <2>2. CASE Finish(TRUE)
      BY <1>13, <2>1, <2>2, <1>9
      DEF Plan, TypeOK, Loading, diskVars, bootVars, loopVars, pluginVars, serverVars
    <2>3. CASE ~Finish(TRUE)
      <3>1. IsJob(job')
        <4>1. AffectedArtefacts(job.read, NodesByFile(job.read, job.changed))
                \subseteq Artefacts
          BY DEF AffectedArtefacts
        <4>2. PICK t \in SUBSET Artefacts :
                \/ job' = [job EXCEPT !.selective = TRUE, !.todo = t]
                \/ job' = [job EXCEPT !.todo = t]
          BY <1>13, <2>3, <4>1 DEF Plan
        <4>3. IsJob(job)
          BY DEF TypeOK
        <4>4. CASE job' = [job EXCEPT !.selective = TRUE, !.todo = t]
          BY <4>3, <4>4 DEF IsJob
        <4>5. CASE job' = [job EXCEPT !.todo = t]
          BY <4>3, <4>5 DEF IsJob
        <4> QED
          BY <4>2, <4>4, <4>5
      <3>2. pc' \in {"all-pages", "render"} /\ UNCHANGED state
        BY <1>13, <2>3 DEF Plan
      <3> QED
        BY <1>13, <2>1, <3>1, <3>2
        DEF Plan, TypeOK, Loading, Step, diskVars, bootVars, loopVars, pluginVars, serverVars
    <2> QED
      BY <2>2, <2>3
  <1>14. ASSUME NEW p \in Paths, pc \in {"all-pages", "render"}
         PROVE  Rendered(p, lastDocs, loaded) \in Page(p)
    <2>1. loaded \in 1 .. MaxBuilds + 1 /\ lastDocs \in Content
      BY <1>14 DEF TypeOK, Loading
    <2> QED
      BY <2>1, RenderedType
  <1>15. ASSUME NEW p \in Paths, NEW pg \in Page(p), BroadcastContent(p, pg)
         PROVE  IsRoutes(contexts', Paths)
    <2>1. IsRoutes([q \in {p} |-> pg], Paths)
      BY OneRoute
    <2> QED
      BY <1>15, <2>1, UpdatedType DEF BroadcastContent, TypeOK
  <1>16. CASE RenderAllPages
    <2>1. CASE Finish(TRUE) /\ UNCHANGED <<framed, contexts, assets>>
      BY <1>16, <2>1, <1>9
      DEF RenderAllPages, TypeOK, Loading, diskVars, bootVars, loopVars, pluginVars
    <2>2. CASE ~(Finish(TRUE) /\ UNCHANGED <<framed, contexts, assets>>)
      <3>1. Root \in Paths /\ pc \in {"all-pages", "render"}
        BY <1>16 DEF RenderAllPages, Paths
      <3>2. IsRoutes(contexts', Paths)
        BY <1>16, <2>2, <3>1, <1>14, <1>15 DEF RenderAllPages
      <3>3. assets' \subseteq Artefacts
        BY <1>16, <2>2 DEF RenderAllPages, KeptAssets, TypeOK
      <3> QED
        BY <1>16, <2>2, <3>2, <3>3
        DEF RenderAllPages, TypeOK, Loading, Step, diskVars, bootVars, loopVars, pluginVars
    <2> QED
      BY <2>1, <2>2
  <1>17. ASSUME NEW a \in Artefacts, Render(a), pc = "render"
         PROVE  /\ IsRoutes(contexts', Paths) /\ IsJob(job')
                /\ assets' \subseteq Artefacts /\ UNCHANGED <<pc, state>>
    <2>1. a \in Paths /\ Rendered(a, lastDocs, loaded) \in Page(a)
      BY <1>14, <1>17 DEF Paths
    <2>2. IsRoutes(contexts', Paths)
      BY <1>15, <1>17, <2>1 DEF Render
    <2>3. IsRoutes(Updated(job.routeMap, [p \in {a} |-> Rendered(a, lastDocs, loaded)]),
                   Artefacts)
      <3>1. IsRoutes([p \in {a} |-> Rendered(a, lastDocs, loaded)], Artefacts)
        BY <2>1, OneRoute
      <3> QED
        BY <3>1, UpdatedType DEF TypeOK, IsJob
    <2>4. IsJob(job')
      <3>1. job' = [job EXCEPT
                      !.todo = @ \ {a},
                      !.routeMap = Updated(@, [p \in {a} |-> Rendered(a, lastDocs, loaded)])]
        BY <1>17 DEF Render
      <3> QED
        BY <2>3, <3>1 DEF TypeOK, IsJob
    <2> QED
      BY <1>17, <2>2, <2>4 DEF Render, TypeOK
  <1>18. ASSUME NEW a \in Artefacts, RenderReport(a) PROVE TypeInv'
    <2>1. CASE Render(a)
      BY <1>17, <1>18, <2>1
      DEF RenderReport, TypeOK, Loading, diskVars, bootVars, loopVars, pluginVars
    <2>2. CASE ~Render(a)
      BY <1>9, <1>18, <2>2
      DEF RenderReport, TypeOK, Loading, diskVars, bootVars, loopVars, pluginVars
    <2> QED
      BY <2>1, <2>2
  <1>19. ASSUME NEW a \in Artefacts, RenderDocument(a) PROVE TypeInv'
    <2>1. CASE Render(a)
      BY <1>17, <1>19, <2>1
      DEF RenderDocument, TypeOK, Loading, diskVars, bootVars, loopVars, pluginVars
    <2>2. CASE ~Render(a)
      <3>1. IsJob(job')
        <4>1. job' = [job EXCEPT !.todo = @ \ {a}] /\ IsJob(job)
          BY <1>19, <2>2 DEF RenderDocument, TypeOK
        <4> QED
          BY <4>1 DEF IsJob
      <3> QED
        BY <1>19, <2>2, <3>1
        DEF RenderDocument, TypeOK, Loading, diskVars, bootVars, loopVars, pluginVars
    <2> QED
      BY <2>1, <2>2
  <1>20. CASE Publish
    <2>1. IsRoutes(routes', Artefacts)
      BY <1>20, UpdatedType DEF Publish, NewRoutes, TypeOK, IsJob
    <2> QED
      BY <1>9, <1>20, <2>1
      DEF Publish, Succeed, TypeOK, Loading, diskVars, bootVars, loopVars
  <1>21. CASE UNCHANGED vars
    BY <1>21 DEF vars, TypeOK, Loading, diskVars, bootVars, loopVars, pluginVars, serverVars
  <1> QED
    BY <1>1, <1>2, <1>3, <1>4, <1>5, <1>6, <1>7, <1>8, <1>10, <1>11, <1>12,
       <1>13, <1>16, <1>18, <1>19, <1>20, <1>21, <1>23
    DEF Next, Environment, Loop, Run

\* Types: every variable stays in its type and refreshCh within its capacity,
\* and nothing is rendered with a plugin that did not load.
THEOREM PreviewTypeOK == Spec => []TypeOK
  <1>1. Spec => []TypeInv
    BY TypeInit, TypeNext, PTL DEF Spec
  <1>2. TypeInv => TypeOK
    BY DEF TypeInv
  <1> QED
    BY <1>1, <1>2, PTL

-----------------------------------------------------------------------------
(* No save is lost.                                                          *)

\* The environment the theorem is about: files are not saved before the watcher
\* listens and not deleted, and the pre-refresh hook works.
Ordinary == Moves \cap {"boot-edit", "delete-file", "fail-hook"} = {}

\* An event, a request or the debounce window will lead to another refresh.
Queued(d) ==
    \/ \E i \in 1 .. Len(events) : events[i].file = Home[d]
    \/ queue # <<>>
    \/ pending # {}

\* What the loop knows of a document, by the step it is at.  Unlike OnItsWay it
\* does not count an error that the running refresh may still clear.
Known(d) ==
    /\ pc \in {"idle", "watch"} => lastDocs[d] = disk[d] \/ Queued(d) \/ state.err
    /\ pc = "read" =>
         Home[d] \in job.left \/ job.read[d] = disk[d] \/ Queued(d)
    /\ pc \in {"all-pages", "render"} => lastDocs[d] = disk[d] \/ Queued(d)

\* The first load visits every directory, and the watcher then covers them all.
Boot ==
    /\ ~booted => health = [f \in Files |-> "ok"]
    /\ ~booted /\ pc \in {"reload", "load", "hook"} => dirs = {}
    /\ ~booted /\ pc = "read" => dirs = Files \ job.left
    /\ ~booted /\ pc \in {"all-pages", "render"} => dirs = Files
    /\ pc = "watch" => ~booted /\ dirs \in {{}, Files}
    /\ pc = "idle" => booted
    /\ booted => watched = Files

OnlyWrites == \A i \in 1 .. Len(events) : events[i].op = "write"

SaveInv == TypeOK /\ Boot /\ OnlyWrites /\ (\A d \in Docs : Known(d))

LEMMA SaveInvImplies == SaveInv => NoLostEdit
  BY DEF SaveInv, TypeOK, Step, Known, Queued, NoLostEdit, OnItsWay

LEMMA SaveInit == Init => SaveInv
  <1> SUFFICES ASSUME Init PROVE SaveInv
    OBVIOUS
  <1>1. TypeOK
    BY TypeInit DEF TypeInv
  <1> QED
    BY <1>1 DEF Init, SaveInv, Boot, OnlyWrites, Known

\* A step that leaves the loop alone keeps what it knows of a document when the
\* document stays and what is queued only grows.
LEMMA KnownStays ==
    ASSUME NEW d \in Docs, Known(d), UNCHANGED <<pc, job, lastDocs, state>>,
           disk'[d] = disk[d] \/ Queued(d)', Queued(d) => Queued(d)'
    PROVE  Known(d)'
  BY DEF Known

LEMMA SaveNext == Ordinary /\ SaveInv /\ TypeOK' /\ [Next]_vars => SaveInv'
  <1> SUFFICES ASSUME Ordinary, SaveInv, TypeOK', [Next]_vars PROVE SaveInv'
    OBVIOUS
  <1> USE DEF SaveInv
  <1>1. ASSUME NEW f \in Files, Save(f) PROVE SaveInv'
    <2>1. booted /\ watched = Files
      BY <1>1 DEF Ordinary, Save, MaySave, Boot
    <2>2. events' = Append(events, [file |-> f, op |-> "write"])
      BY <1>1, <2>1 DEF Save, Notify
    <2>3. events \in Seq(Event) /\ [file |-> f, op |-> "write"] \in Event
      BY DEF TypeOK, Event
    <2>4. /\ Len(events') = Len(events) + 1 /\ Len(events) \in Nat
          /\ \A i \in 1 .. Len(events) : events'[i] = events[i]
          /\ events'[Len(events) + 1] = [file |-> f, op |-> "write"]
      BY <2>2, <2>3
    <2>5. OnlyWrites'
      BY <2>4 DEF OnlyWrites
    <2>6. ASSUME NEW d \in Docs PROVE Known(d)'
      <3>1. Queued(d) => Queued(d)'
        BY <1>1, <2>4 DEF Queued, Save
      <3>2. disk'[d] = disk[d] \/ Queued(d)'
        <4>1. CASE Home[d] = f
          BY <2>4, <4>1 DEF Queued
        <4>2. CASE Home[d] # f
          BY <1>1, <4>2 DEF Save, DocsIn, TypeOK, Content
        <4> QED
          BY <4>1, <4>2
      <3> QED
        BY <1>1, <3>1, <3>2, KnownStays DEF Save
    <2>7. Boot'
      BY <1>1, <2>1 DEF Boot, Save, bootVars
    <2> QED
      BY <2>5, <2>6, <2>7
  <1>2. ASSUME NEW f \in Files, DeleteFile(f) PROVE SaveInv'
    BY <1>2 DEF DeleteFile, Ordinary
  <1>3. CASE RebuildPlugin
    <2>1. \A d \in Docs : Known(d)'
      BY <1>3 DEF RebuildPlugin, Known, Queued, loopVars
    <2> QED
      BY <1>3, <2>1 DEF RebuildPlugin, Boot, OnlyWrites, loopVars, bootVars
  <1>4. CASE StartWatcher
    <2>1. \A d \in Docs : Known(d)'
      BY <1>4 DEF StartWatcher, Known, Queued, loopVars, diskVars
    <2> QED
      BY <1>4, <2>1 DEF StartWatcher, Boot, OnlyWrites, loopVars
  <1>5. CASE Process
    <2>1. events \in Seq(Event) /\ events # <<>> /\ Head(events).op = "write"
      BY <1>5 DEF Process, OnlyWrites, TypeOK
    <2>2. queue' # <<>>
      <3>1. Head(events) \in Event
        BY <2>1, SeqType
      <3>2. Head(events).file \in Request /\ Nil \in Request
        BY <3>1 DEF Request, Event
      <3> QED
        BY <1>5, <2>1, <3>2, EnqueueFills DEF Process
    <2>3. OnlyWrites'
      BY <1>5, <2>1 DEF Process, OnlyWrites
    <2>4. ASSUME NEW d \in Docs PROVE Known(d)'
      BY <1>5, <2>2, KnownStays DEF Process, Queued, diskVars
    <2> QED
      BY <1>5, <2>3, <2>4 DEF Process, Boot, diskVars, bootVars
  <1>6. CASE Poll
    <2>1. queue' # <<>>
      BY <1>6, EnqueueFills DEF Poll, Request
    <2>2. ASSUME NEW d \in Docs PROVE Known(d)'
      BY <1>6, <2>1, KnownStays DEF Poll, Queued, diskVars
    <2> QED
      BY <1>6, <2>2 DEF Poll, Boot, OnlyWrites, diskVars, bootVars
  <1>7. CASE Receive
    <2>1. pending' # {}
      BY <1>7 DEF Receive
    <2>2. ASSUME NEW d \in Docs PROVE Known(d)'
      BY <1>7, <2>1 DEF Receive, Known, Queued
    <2> QED
      BY <1>7, <2>2 DEF Receive, Boot, OnlyWrites, diskVars, bootVars
  <1>8. CASE TimerFires
    <2>1. ASSUME NEW d \in Docs PROVE Known(d)'
      <3>1. CASE pending = {}
        BY <1>8, <3>1 DEF TimerFires, Known, Queued, diskVars
      <3>2. CASE pending # {}
        BY <1>8, <3>2 DEF TimerFires, Known
      <3> QED
        BY <3>1, <3>2
    <2>2. Boot'
      BY <1>8 DEF TimerFires, Boot, diskVars, bootVars
    <2> QED
      BY <1>8, <2>1, <2>2 DEF TimerFires, OnlyWrites
  <1>9. ASSUME Finish(TRUE), UNCHANGED <<disk, health, booted, dirs, watched>>,
               booted \/ dirs \in {{}, Files}
        PROVE  Boot' /\ \A d \in Docs : Known(d)'
    <2>1. pc' \in {"idle", "watch"} /\ state'.err
      BY <1>9 DEF Finish
    <2>2. Boot'
      BY <1>9 DEF Finish, Boot, TypeOK
    <2> QED
      BY <2>1, <2>2 DEF Known
  \* The load behind a reload reads every file.
  <1>19. ASSUME pc' \in {"load", "hook"}, pc \in {"reload", "load"},
                UNCHANGED <<diskVars, bootVars, loopVars>>
         PROVE  SaveInv'
    BY <1>19 DEF Boot, OnlyWrites, Known, diskVars, bootVars, loopVars
  <1>20. ASSUME Proceed, pc \in {"reload", "load"},
                UNCHANGED <<diskVars, bootVars, loopVars>>
         PROVE  SaveInv'
    <2>1. CASE Finish(TRUE)
      BY <1>9, <1>20, <2>1
      DEF Boot, OnlyWrites, diskVars, bootVars, loopVars
    <2>2. CASE pc' = "hook"
      BY <1>19, <1>20, <2>2
    <2> QED
      BY <1>20, <2>1, <2>2 DEF Proceed
  <1>10. CASE Reload
    BY <1>10, <1>19, <1>20 DEF Reload
  <1>21. CASE LoadPlugins
    BY <1>20, <1>21 DEF LoadPlugins
  <1>11. CASE Hook
    <2>1. pc' = "read" /\ job' = [job EXCEPT !.left = Files] /\ pc = "hook"
      BY <1>11 DEF Hook, Ordinary
    <2>2. job'.left = Files
      BY <2>1 DEF TypeOK, IsJob, NoJob
    <2>3. \A d \in Docs : Known(d)'
      BY <2>1, <2>2, ConstantsAssumption DEF Known
    <2> QED
      BY <1>11, <2>1, <2>2, <2>3 DEF Hook, Boot, OnlyWrites, diskVars, bootVars, loopVars
  <1>12. ASSUME NEW f \in Files, ReadFile(f) PROVE SaveInv'
    <2>1. OnlyWrites'
      BY <1>12 DEF ReadFile, OnlyWrites, loopVars
    <2>2. CASE health[f] = "broken"
      BY <1>9, <1>12, <2>1, <2>2 DEF ReadFile, Boot, diskVars
    <2>3. CASE health[f] # "broken"
      <3>1. /\ job'.left = job.left \ {f} /\ pc' = "read"
            /\ \A d \in Docs :
                 job'.read[d] = IF Home[d] = f THEN disk[d] ELSE job.read[d]
        <4>1. job' = [job EXCEPT
                   !.left = @ \ {f},
                   !.read = [d \in Docs |-> IF Home[d] = f THEN disk[d] ELSE @[d]],
                   !.duplicate = @ \/ health[f] = "duplicate"]
              /\ UNCHANGED pc
          BY <1>12, <2>3 DEF ReadFile
        <4>2. DOMAIN job = DOMAIN NoJob /\ pc = "read"
          BY <1>12 DEF TypeOK, IsJob, ReadFile
        <4> QED
          BY <4>1, <4>2 DEF NoJob
      <3>2. ASSUME NEW d \in Docs PROVE Known(d)'
        BY <1>12, <3>1 DEF ReadFile, Known, Queued, loopVars, diskVars
      <3>3. Boot'
        BY <1>12, <3>1 DEF ReadFile, Boot, diskVars, TypeOK, IsJob
      <3> QED
        BY <2>1, <3>2, <3>3
    <2> QED
      BY <2>2, <2>3
  <1>13. CASE Plan
    <2>1. OnlyWrites'
      BY <1>13 DEF Plan, OnlyWrites, loopVars
    <2>2. CASE Finish(TRUE)
      BY <1>9, <1>13, <2>1, <2>2 DEF Plan, Boot, diskVars, bootVars
    <2>3. CASE pc' \in {"all-pages", "render"}
      <3>1. ASSUME NEW d \in Docs PROVE Known(d)'
        BY <1>13, <2>3 DEF Plan, Known, Queued, loopVars, diskVars
      <3>2. Boot'
        BY <1>13, <2>3 DEF Plan, Boot, diskVars, bootVars, TypeOK
      <3> QED
        BY <2>1, <3>1, <3>2
    <2> QED
      BY <1>13, <2>2, <2>3 DEF Plan
  \* The other steps of a refresh render what the load left.
  <1>14. ASSUME pc \in {"all-pages", "render"},
                UNCHANGED <<diskVars, bootVars, loopVars, lastDocs>>,
                \/ pc' \in {"all-pages", "render"}
                \/ Finish(TRUE)
                \/ Finish(FALSE)
         PROVE  SaveInv'
    <2>1. OnlyWrites' /\ \A d \in Docs : Queued(d)' = Queued(d)
      BY <1>14 DEF OnlyWrites, Queued, loopVars
    <2>2. CASE pc' \in {"all-pages", "render"}
      BY <1>14, <2>1, <2>2 DEF Boot, Known, diskVars, bootVars
    <2>3. CASE \E e \in BOOLEAN : Finish(e)
      BY <1>14, <2>1, <2>3 DEF Boot, Known, Finish, diskVars, bootVars, TypeOK
    <2> QED
      BY <1>14, <2>2, <2>3
  <1>15. CASE RenderAllPages
    BY <1>14, <1>15 DEF RenderAllPages, serverVars, pluginVars
  <1>16. ASSUME NEW a \in Artefacts, RenderReport(a) \/ RenderDocument(a) PROVE SaveInv'
    BY <1>14, <1>16 DEF RenderReport, RenderDocument, Render
  <1>17. CASE Publish
    BY <1>14, <1>17 DEF Publish, Succeed
  <1>18. CASE UNCHANGED vars
    BY <1>18
    DEF vars, Boot, OnlyWrites, Known, Queued, diskVars, bootVars, loopVars
  <1> QED
    BY <1>1, <1>2, <1>3, <1>4, <1>5, <1>6, <1>7, <1>8, <1>10, <1>11, <1>12,
       <1>13, <1>15, <1>16, <1>17, <1>18, <1>21
    DEF Next, Environment, Loop, Run

\* Whatever the queue drops and however saves fall between the reads of a
\* running load, a version that the last load missed is on its way to the next
\* refresh, or the last refresh said that it failed.
THEOREM PreviewNoLostEdit == Ordinary => (Spec => []NoLostEdit)
  <1> SUFFICES ASSUME Ordinary PROVE Spec => []NoLostEdit
    OBVIOUS
  <1>1. Spec => []TypeInv
    BY TypeInit, TypeNext, PTL DEF Spec
  <1>2. TypeInv => TypeOK
    BY DEF TypeInv
  <1>3. SaveInv /\ TypeOK' /\ [Next]_vars => SaveInv'
    BY SaveNext
  <1>4. Spec => []SaveInv
    BY <1>1, <1>2, <1>3, SaveInit, PTL DEF Spec
  <1> QED
    BY <1>4, SaveInvImplies, PTL


-----------------------------------------------------------------------------
(* The debounce window and the refresh state.                               *)

\* The loop receives nothing while it refreshes, and nothing before the boot.
Quiet ==
    /\ pc # "idle" => pending = {}
    /\ ~booted => pc # "idle"

WindowInv == TypeOK /\ Quiet /\ WindowCloses /\ NoStaleResult

\* What a step of a refresh does to the window: nothing, and when it ends the
\* loop is idle again, or the boot goes on.
RunWindow ==
    /\ UNCHANGED <<booted, pending, armed>>
    /\ pc # "idle"
    /\ \/ pc' # "idle" /\ state'.pending = state.pending
       \/ pc' # "idle" /\ ~booted
       \/ pc' = "idle" /\ booted

LEMMA WindowInit == Init => WindowInv
  <1> SUFFICES ASSUME Init PROVE WindowInv
    OBVIOUS
  <1>1. TypeOK
    BY TypeInit DEF TypeInv
  <1> QED
    BY <1>1 DEF Init, WindowInv, Quiet, WindowCloses, NoStaleResult

LEMMA WindowStep == WindowInv /\ TypeOK' /\ [Next]_vars => WindowInv'
  <1> SUFFICES ASSUME WindowInv, TypeOK', [Next]_vars PROVE WindowInv'
    OBVIOUS
  <1> USE DEF WindowInv, Quiet, WindowCloses, NoStaleResult
  <1>1. ASSUME NEW f \in Files, Save(f) \/ DeleteFile(f) PROVE WindowInv'
    BY <1>1 DEF Save, DeleteFile, bootVars
  <1>2. CASE RebuildPlugin \/ Process \/ Poll
    BY <1>2 DEF RebuildPlugin, Process, Poll, bootVars, loopVars
  <1>3. CASE Receive
    BY <1>3 DEF Receive, ResetTimer, SetRefreshPending, bootVars, TypeOK
  <1>4. CASE TimerFires
    BY <1>4 DEF TimerFires, bootVars
  <1>5. CASE StartWatcher
    BY <1>5 DEF StartWatcher, loopVars
  <1>6. ASSUME Run PROVE WindowInv'
    <2>1. RunWindow
      <3>1. CASE Reload \/ LoadPlugins
        BY <3>1 DEF RunWindow, Reload, LoadPlugins, Proceed, Finish, bootVars, loopVars
      <3>2. CASE Hook
        BY <3>2 DEF RunWindow, Hook, Succeed, Finish, bootVars, loopVars
      <3>3. CASE Plan
        BY <3>3 DEF RunWindow, Plan, Finish, bootVars, loopVars
      <3>4. CASE RenderAllPages \/ Publish
        BY <3>4 DEF RunWindow, RenderAllPages, Publish, Succeed, Finish, bootVars, loopVars
      <3>5. ASSUME NEW f \in Files, ReadFile(f) PROVE RunWindow
        BY <3>5 DEF RunWindow, ReadFile, Finish, bootVars, loopVars
      <3>6. ASSUME NEW a \in Artefacts, RenderReport(a) \/ RenderDocument(a) PROVE RunWindow
        BY <3>6 DEF RunWindow, RenderReport, RenderDocument, Render, Finish, bootVars, loopVars
      <3> QED
        BY <1>6, <3>1, <3>2, <3>3, <3>4, <3>5, <3>6 DEF Run
    <2> QED
      BY <2>1 DEF RunWindow
  <1>7. CASE UNCHANGED vars
    BY <1>7 DEF vars, bootVars, loopVars
  <1> QED
    BY <1>1, <1>2, <1>3, <1>4, <1>5, <1>6, <1>7 DEF Next, Environment, Loop

\* The debounce window (watch loop, SetRefreshPending): when it has requests its
\* timer runs, and from the request in the window to the end of its refresh,
\* refresh-state does not answer with the result of an earlier refresh.
THEOREM PreviewWindowHolds == Spec => []WindowHolds
  <1>1. Spec => []TypeInv
    BY TypeInit, TypeNext, PTL DEF Spec
  <1>2. TypeInv => TypeOK
    BY DEF TypeInv
  <1>3. WindowInv => WindowHolds
    BY DEF WindowInv, WindowHolds
  <1> QED
    BY <1>1, <1>2, <1>3, WindowInit, WindowStep, PTL DEF Spec

-----------------------------------------------------------------------------
(* The plugins: a hook that fails is left out, it clears the stale mark      *)
(* without a render.                                                        *)

\* Pages of another plugin than the loaded one are marked, and a refresh that
\* started under the mark keeps none of them.
PluginInv ==
    /\ TypeOK
    /\ ~stale /\ loaded # 0 => \A a \in DOMAIN routes : routes[a].plugin = loaded
    /\ stale /\ pc \in {"hook", "read", "all-pages", "render"} => Nil \in job.changed
    /\ job.selective => Nil \notin job.changed
    /\ pc \notin {"all-pages", "render"} => ~job.selective
    /\ pc # "render" => job.routeMap = NoRoutes
    /\ \A a \in DOMAIN job.routeMap : job.routeMap[a].plugin = loaded

LEMMA PluginInit == Init => PluginInv
  <1> SUFFICES ASSUME Init PROVE PluginInv
    OBVIOUS
  <1>1. TypeOK
    BY TypeInit DEF TypeInv
  <1> QED
    BY <1>1 DEF Init, PluginInv, NoJob, NoRoutes

\* The steps that leave plugins, pages and the running refresh alone.
LEMMA PluginKept ==
    ASSUME PluginInv, TypeOK', UNCHANGED <<loaded, stale, routes>>,
           \/ UNCHANGED <<pc, job>>
           \/ /\ job' = NoJob
              /\ pc' \in {"idle", "watch"}
    PROVE  PluginInv'
  BY DEF PluginInv, NoJob, NoRoutes

LEMMA PluginStep ==
    "fail-hook" \notin Moves /\ PluginInv /\ TypeOK' /\ [Next]_vars => PluginInv'
  <1> SUFFICES ASSUME "fail-hook" \notin Moves, PluginInv, TypeOK', [Next]_vars
               PROVE  PluginInv'
    OBVIOUS
  <1>1. ASSUME NEW f \in Files, Save(f) \/ DeleteFile(f) PROVE PluginInv'
    BY <1>1, PluginKept DEF Save, DeleteFile, pluginVars, serverVars
  <1>2. CASE RebuildPlugin \/ Process \/ Poll \/ Receive
    BY <1>2, PluginKept DEF RebuildPlugin, Process, Poll, Receive, pluginVars, serverVars
  <1>3. CASE TimerFires
    <2>1. CASE pending = {}
      BY <1>3, <2>1, PluginKept DEF TimerFires, pluginVars, serverVars
    <2>2. CASE pending # {}
      BY <1>3, <2>2 DEF TimerFires, PluginInv, NoJob, NoRoutes, pluginVars, serverVars
    <2> QED
      BY <2>1, <2>2
  <1>4. CASE StartWatcher
    BY <1>4 DEF StartWatcher, PluginInv, pluginVars, serverVars
  <1>5. CASE Reload
    BY <1>5 DEF Reload, Proceed, Finish, AfterReload, PluginInv, TypeOK, IsJob, NoJob, NoRoutes,
                serverVars
  <1>6. CASE LoadPlugins
    BY <1>6 DEF LoadPlugins, Proceed, Finish, AfterReload, PluginInv, TypeOK, IsJob, NoJob,
                NoRoutes, serverVars
  <1>7. CASE Hook
    BY <1>7 DEF Hook, PluginInv, TypeOK, IsJob, NoJob, serverVars
  <1>8. ASSUME NEW f \in Files, ReadFile(f) PROVE PluginInv'
    <2>1. CASE health[f] = "broken"
      BY <1>8, <2>1, PluginKept DEF ReadFile, Finish, pluginVars, serverVars
    <2>2. CASE health[f] # "broken"
      BY <1>8, <2>2 DEF ReadFile, PluginInv, TypeOK, IsJob, NoJob, pluginVars, serverVars
    <2> QED
      BY <2>1, <2>2
  <1>9. CASE Plan
    <2>1. CASE job.duplicate
      BY <1>9, <2>1, PluginKept DEF Plan, Finish, pluginVars, serverVars
    <2>2. CASE ~job.duplicate
      <3>1. IsJob(job) /\ job.routeMap = NoRoutes /\ ~job.selective
        BY <1>9 DEF Plan, PluginInv, TypeOK
      <3>2. /\ job'.changed = job.changed /\ job'.routeMap = job.routeMap
            /\ job'.selective => Nil \notin job.changed
            /\ pc' \in {"all-pages", "render"}
        BY <1>9, <2>2, <3>1 DEF Plan, CanSelect, IsJob, NoJob
      <3>3. pc = "read" /\ UNCHANGED <<loaded, stale, routes>>
        BY <1>9 DEF Plan, pluginVars, serverVars
      <3> QED
        BY <3>1, <3>2, <3>3 DEF PluginInv, NoRoutes
    <2> QED
      BY <2>1, <2>2
  <1>10. CASE RenderAllPages
    <2>1. CASE pc' = "render" /\ job' = job
      BY <1>10, <2>1 DEF RenderAllPages, PluginInv, NoRoutes, pluginVars
    <2>2. CASE Finish(TRUE)
      BY <1>10, <2>2, PluginKept DEF RenderAllPages, Finish, pluginVars
    <2> QED
      BY <1>10, <2>1, <2>2 DEF RenderAllPages
  <1>11. ASSUME NEW a \in Artefacts, Render(a), pc = "render",
                UNCHANGED <<loaded, stale, routes>>
         PROVE  PluginInv'
    <2>1. IsJob(job)
      BY DEF PluginInv, TypeOK
    <2>2. /\ job'.changed = job.changed /\ job'.selective = job.selective
          /\ job'.routeMap = Updated(job.routeMap, [p \in {a} |-> Rendered(a, lastDocs, loaded)])
          /\ pc' = pc
      BY <1>11, <2>1 DEF Render, IsJob, NoJob
    <2>3. \A p \in DOMAIN job'.routeMap : job'.routeMap[p].plugin = loaded
      BY <2>2 DEF Rendered, Updated, PluginInv
    <2> QED
      BY <1>11, <2>2, <2>3 DEF PluginInv
  <1>12. ASSUME NEW a \in Artefacts, RenderReport(a) PROVE PluginInv'
    <2>1. CASE Render(a)
      BY <1>11, <1>12, <2>1 DEF RenderReport, pluginVars
    <2>2. CASE Finish(TRUE)
      BY <1>12, <2>2, PluginKept DEF RenderReport, Finish, pluginVars
    <2> QED
      BY <1>12, <2>1, <2>2 DEF RenderReport
  <1>13. ASSUME NEW a \in Artefacts, RenderDocument(a) PROVE PluginInv'
    <2>1. CASE Render(a)
      BY <1>11, <1>13, <2>1 DEF RenderDocument, pluginVars
    <2>2. CASE job' = [job EXCEPT !.todo = @ \ {a}] /\ UNCHANGED pc
      BY <1>13, <2>2 DEF RenderDocument, PluginInv, TypeOK, IsJob, NoJob, pluginVars
    <2> QED
      BY <1>13, <2>1, <2>2 DEF RenderDocument
  <1>14. CASE Publish
    BY <1>14 DEF Publish, Succeed, Finish, NewRoutes, Updated, PluginInv, NoJob, NoRoutes
  <1>15. CASE UNCHANGED vars
    BY <1>15, PluginKept DEF vars, pluginVars, serverVars
  <1> QED
    BY <1>1, <1>2, <1>3, <1>4, <1>5, <1>6, <1>7, <1>8, <1>9, <1>10, <1>12, <1>13, <1>14, <1>15
    DEF Next, Environment, Loop, Run

\* Unless the pre-refresh hook fails, no page of an older plugin stays behind
\* once the stale mark is gone (reloadIfChanged, refreshed).
THEOREM PreviewOnePlugin == "fail-hook" \notin Moves => (Spec => []OnePlugin)
  <1> SUFFICES ASSUME "fail-hook" \notin Moves PROVE Spec => []OnePlugin
    OBVIOUS
  <1>1. Spec => []TypeInv
    BY TypeInit, TypeNext, PTL DEF Spec
  <1>2. TypeInv => TypeOK
    BY DEF TypeInv
  <1>3. PluginInv /\ TypeOK' /\ [Next]_vars => PluginInv'
    BY PluginStep
  <1>4. PluginInv => OnePlugin
    BY DEF PluginInv, OnePlugin
  <1> QED
    BY <1>1, <1>2, <1>3, <1>4, PluginInit, PTL DEF Spec

-----------------------------------------------------------------------------
(* The asset table: a report that fails to render is left out, the refresh   *)
(* then ends behind the reset of the assets.                                *)

\* While a full refresh renders, the assets are those of its own pages.
AssetInv ==
    /\ TypeOK
    /\ RoutesHaveAssets
    /\ pc # "render" \/ job.selective => DOMAIN routes \subseteq assets
    /\ DOMAIN job.routeMap \subseteq assets
    /\ pc # "render" => job.routeMap = NoRoutes
    /\ pc \notin {"all-pages", "render"} => ~job.selective

LEMMA AssetInit == Init => AssetInv
  <1> SUFFICES ASSUME Init PROVE AssetInv
    OBVIOUS
  <1>1. TypeOK
    BY TypeInit DEF TypeInv
  <1> QED
    BY <1>1 DEF Init, AssetInv, RoutesHaveAssets, NoJob, NoRoutes

\* The steps that leave pages and assets alone.
LEMMA AssetKept ==
    ASSUME AssetInv, TypeOK', UNCHANGED <<routes, served, assets>>,
           \/ UNCHANGED <<pc, job>>
           \/ /\ pc # "render"
              /\ pc' \notin {"all-pages", "render"}
              /\ job'.routeMap = job.routeMap \/ job'.routeMap = NoRoutes
              /\ job'.selective = job.selective \/ ~job'.selective
              /\ pc = "all-pages" => ~job'.selective
    PROVE  AssetInv'
  BY DEF AssetInv, RoutesHaveAssets, NoRoutes

LEMMA AssetStep ==
    "fail-report" \notin Moves /\ AssetInv /\ TypeOK' /\ [Next]_vars => AssetInv'
  <1> SUFFICES ASSUME "fail-report" \notin Moves, AssetInv, TypeOK', [Next]_vars
               PROVE  AssetInv'
    OBVIOUS
  <1>0. IsJob(job) /\ NoJob.routeMap = NoRoutes /\ ~NoJob.selective
    BY DEF AssetInv, TypeOK, NoJob
  <1>1. ASSUME NEW f \in Files, Save(f) \/ DeleteFile(f) PROVE AssetInv'
    BY <1>1, AssetKept DEF Save, DeleteFile, serverVars
  <1>2. CASE RebuildPlugin \/ Process \/ Poll \/ Receive
    BY <1>2, AssetKept DEF RebuildPlugin, Process, Poll, Receive, serverVars
  <1>3. CASE TimerFires
    BY <1>3, AssetKept DEF TimerFires, NoJob, serverVars
  <1>4. CASE StartWatcher
    BY <1>4, AssetKept DEF StartWatcher, serverVars
  <1>5. CASE Reload \/ LoadPlugins
    <2>1. job'.routeMap = job.routeMap \/ job'.routeMap = NoRoutes
      BY <1>0, <1>5 DEF Reload, LoadPlugins, Proceed, Finish, IsJob, NoJob
    <2>2. job'.selective = job.selective \/ ~job'.selective
      BY <1>0, <1>5 DEF Reload, LoadPlugins, Proceed, Finish, IsJob, NoJob
    <2> QED
      BY <1>5, <2>1, <2>2, AssetKept DEF Reload, LoadPlugins, Proceed, Finish, serverVars
  <1>6. CASE Hook
    <2>1. job'.routeMap = job.routeMap \/ job'.routeMap = NoRoutes
      BY <1>0, <1>6 DEF Hook, Succeed, Finish, IsJob, NoJob
    <2>2. job'.selective = job.selective \/ ~job'.selective
      BY <1>0, <1>6 DEF Hook, Succeed, Finish, IsJob, NoJob
    <2> QED
      BY <1>6, <2>1, <2>2, AssetKept DEF Hook, Succeed, Finish, serverVars
  <1>7. ASSUME NEW f \in Files, ReadFile(f) PROVE AssetInv'
    <2>1. job'.routeMap = job.routeMap \/ job'.routeMap = NoRoutes
      BY <1>0, <1>7 DEF ReadFile, Finish, IsJob, NoJob
    <2>2. job'.selective = job.selective \/ ~job'.selective
      BY <1>0, <1>7 DEF ReadFile, Finish, IsJob, NoJob
    <2> QED
      BY <1>7, <2>1, <2>2, AssetKept DEF ReadFile, Finish, serverVars
  <1>8. CASE Plan
    <2>1. CASE job.duplicate
      BY <1>0, <1>8, <2>1, AssetKept DEF Plan, Finish, serverVars
    <2>2. CASE ~job.duplicate
      <3>1. /\ job'.routeMap = job.routeMap
            /\ pc' = "all-pages" \/ (pc' = "render" /\ job'.selective)
        <4>1. CASE CanSelect(job.read, job.changed)
          BY <1>0, <1>8, <2>2, <4>1 DEF Plan, IsJob, NoJob
        <4>2. CASE ~CanSelect(job.read, job.changed)
          BY <1>0, <1>8, <2>2, <4>2 DEF Plan, IsJob, NoJob
        <4> QED
          BY <4>1, <4>2
      <3> QED
        BY <1>8, <3>1 DEF Plan, AssetInv, RoutesHaveAssets, NoRoutes, serverVars
    <2> QED
      BY <2>1, <2>2
  <1>9. CASE RenderAllPages
    BY <1>9 DEF RenderAllPages, KeptAssets, AssetInv, RoutesHaveAssets, NoRoutes
  <1>10. ASSUME NEW a \in Artefacts, Render(a), pc = "render", UNCHANGED <<routes, served>>
         PROVE  AssetInv'
    <2>1. /\ job'.selective = job.selective
          /\ DOMAIN job'.routeMap = DOMAIN job.routeMap \cup {a}
          /\ pc' = pc /\ assets' = assets \cup {a}
      BY <1>0, <1>10 DEF Render, IsJob, NoJob, Updated
    <2> QED
      BY <1>10, <2>1 DEF AssetInv, RoutesHaveAssets
  <1>11. ASSUME NEW a \in Artefacts, RenderReport(a) PROVE AssetInv'
    BY <1>10, <1>11 DEF RenderReport
  <1>12. ASSUME NEW a \in Artefacts, RenderDocument(a) PROVE AssetInv'
    <2>1. CASE Render(a)
      BY <1>10, <1>12, <2>1 DEF RenderDocument
    <2>2. CASE job' = [job EXCEPT !.todo = @ \ {a}] /\ UNCHANGED <<pc, assets>>
      <3>1. job'.routeMap = job.routeMap /\ job'.selective = job.selective
        BY <1>0, <2>2 DEF IsJob, NoJob
      <3> QED
        BY <1>12, <2>2, <3>1 DEF RenderDocument, AssetInv, RoutesHaveAssets
    <2> QED
      BY <1>12, <2>1, <2>2 DEF RenderDocument
  <1>13. CASE Publish
    BY <1>0, <1>13 DEF Publish, Succeed, Finish, NewRoutes, Updated, AssetInv, RoutesHaveAssets, NoRoutes
  <1>14. CASE UNCHANGED vars
    BY <1>14, AssetKept DEF vars, serverVars
  <1> QED
    BY <1>1, <1>2, <1>3, <1>4, <1>5, <1>6, <1>7, <1>8, <1>9, <1>11, <1>12, <1>13, <1>14
    DEF Next, Environment, Loop, Run

\* Unless a report fails to render, every route has its images, also behind
\* selective refreshes (SetContentRoutes, UpdateContentRoutes).
THEOREM PreviewRoutesHaveAssets == "fail-report" \notin Moves => (Spec => []RoutesHaveAssets)
  <1> SUFFICES ASSUME "fail-report" \notin Moves PROVE Spec => []RoutesHaveAssets
    OBVIOUS
  <1>1. Spec => []TypeInv
    BY TypeInit, TypeNext, PTL DEF Spec
  <1>2. TypeInv => TypeOK
    BY DEF TypeInv
  <1>3. AssetInv /\ TypeOK' /\ [Next]_vars => AssetInv'
    BY AssetStep
  <1>4. AssetInv => RoutesHaveAssets
    BY DEF AssetInv
  <1> QED
    BY <1>1, <1>2, <1>3, <1>4, AssetInit, PTL DEF Spec

-----------------------------------------------------------------------------
(* A preview at rest shows the project as it is: full refreshes.            *)

\* The plugin that is loaded is the stamped one or a newer one.
PluginAge ==
    /\ stamp <= build /\ loaded <= build
    /\ pc # "load" /\ loaded # 0 => stamp <= loaded

LEMMA PluginAgeInit == Init => PluginAge
  BY DEF Init, PluginAge

LEMMA PluginAgeNext == TypeOK /\ PluginAge /\ [Next]_vars => PluginAge'
  <1> SUFFICES ASSUME TypeOK, PluginAge, [Next]_vars PROVE PluginAge'
    OBVIOUS
  <1>t. build \in Nat /\ stamp \in Nat /\ loaded \in Nat
    BY ConstantsAssumption DEF TypeOK
  <1>1. CASE RebuildPlugin
    BY <1>1, <1>t DEF RebuildPlugin, PluginAge, pluginVars
  <1>2. CASE Reload
    BY <1>2, <1>t DEF Reload, Proceed, Finish, PluginAge, diskVars
  <1>3. CASE LoadPlugins
    BY <1>3, <1>t DEF LoadPlugins, Proceed, Finish, PluginAge, diskVars
  <1>4. CASE UNCHANGED <<build, stamp, loaded>> /\ (pc' = pc \/ pc # "load")
    BY <1>4 DEF PluginAge
  <1>5. ASSUME NEW f \in Files, Save(f) \/ DeleteFile(f) \/ ReadFile(f) PROVE PluginAge'
    BY <1>4, <1>5 DEF Save, DeleteFile, ReadFile, diskVars, pluginVars
  <1>6. CASE StartWatcher \/ Process \/ Poll \/ Receive \/ TimerFires \/ Hook \/ Plan
    BY <1>4, <1>6 DEF StartWatcher, Process, Poll, Receive, TimerFires, Hook, Plan, diskVars,
                      pluginVars
  <1>7. CASE RenderAllPages \/ Publish
    BY <1>4, <1>7 DEF RenderAllPages, Publish, diskVars, pluginVars
  <1>8. ASSUME NEW a \in Artefacts, RenderReport(a) \/ RenderDocument(a) PROVE PluginAge'
    BY <1>4, <1>8 DEF RenderReport, RenderDocument, diskVars, pluginVars
  <1>9. CASE UNCHANGED vars
    BY <1>4, <1>9 DEF vars, diskVars, pluginVars
  <1> QED
    BY <1>1, <1>2, <1>3, <1>5, <1>6, <1>7, <1>8, <1>9 DEF Next, Environment, Loop, Run

LEMMA PluginAgeHolds == Spec => [](TypeOK /\ PluginAge)
  <1>1. Spec => []TypeOK
    BY PreviewTypeOK
  <1> QED
    BY <1>1, PluginAgeInit, PluginAgeNext, PTL DEF Spec

\* Clients that swap the page of p in get what it was last rendered to.
InClients(p) ==
    p \in DOMAIN contexts /\ contexts[p] = Rendered(p, lastDocs, loaded)

LEMMA Broadcast ==
    ASSUME NEW p, BroadcastContent(p, Rendered(p, lastDocs, loaded)),
           UNCHANGED <<lastDocs, loaded>>
    PROVE  InClients(p)' /\ \A q : InClients(q) => InClients(q)'
  BY DEF BroadcastContent, Updated, InClients, Rendered, Reads

\* The table with the current page of every artefact of S.
Table(S) == [a \in S |-> Rendered(a, lastDocs, loaded)]

LEMMA TableGrows ==
    ASSUME NEW S, NEW a
    PROVE  Updated(Table(S), [p \in {a} |-> Rendered(a, lastDocs, loaded)])
             = Table(S \cup {a})
  BY DEF Table, Updated

Wanting == Artefacts \cap Defined(lastDocs)

LEMMA PagesKept ==
    ASSUME UNCHANGED <<lastDocs, loaded>>
    PROVE  /\ Wanting' = Wanting
           /\ \A S : Table(S)' = Table(S)
           /\ UNCHANGED contexts => \A p : InClients(p)' = InClients(p)
  <1>1. \A p : Rendered(p, lastDocs, loaded)' = Rendered(p, lastDocs, loaded)
    BY DEF Rendered, Reads
  <1> QED
    BY <1>1 DEF Wanting, Defined, Table, InClients

\* Without --incremental every request asks for everything.
AllOrNothing ==
    /\ pending \subseteq {Nil}
    /\ \A i \in 1 .. Len(queue) : queue[i] = Nil
    /\ Nil \in job.changed /\ ~job.selective

\* What a running refresh has rendered, and what a successful one has left.
Rendering ==
    /\ pc # "render" => job.routeMap = NoRoutes
    /\ pc = "all-pages" => job.todo = Wanting
    /\ pc = "render" =>
         /\ job.todo \subseteq Wanting
         /\ job.routeMap = Table(Wanting \ job.todo)
         /\ InClients(Root) /\ \A a \in Wanting \ job.todo : InClients(a)

Showing ==
    pc \in {"idle", "watch"} /\ ~state.err =>
        /\ loaded # 0
        /\ routes = Table(Wanting)
        /\ InClients(Root) /\ \A a \in Wanting : InClients(a)

FullInv == TypeInv /\ AllOrNothing /\ Rendering /\ Showing

\* The environment of a preview with full refreshes: as for NoLostEdit, and no
\* document is skipped because it fails to render.
FullRefreshes == ~Incremental /\ Ordinary /\ "fail-document" \notin Moves

LEMMA FullInit == Init => FullInv
  <1> SUFFICES ASSUME Init PROVE FullInv
    OBVIOUS
  <1> QED
    BY TypeInit DEF Init, FullInv, AllOrNothing, Rendering, Showing, NoJob

\* The queue takes requests for everything only.
LEMMA NilEnqueued ==
    ASSUME TypeOK, AllOrNothing, Enqueue(Nil)
    PROVE  \A i \in 1 .. Len(queue') : queue'[i] = Nil
  <1>1. queue \in Seq(Request) /\ Nil \in Request
    BY DEF TypeOK, Request
  <1>2. CASE queue' = queue
    BY <1>2 DEF AllOrNothing
  <1>3. CASE queue' = Append(queue, Nil)
    BY <1>1, <1>3 DEF AllOrNothing
  <1> QED
    BY <1>2, <1>3 DEF Enqueue

\* The steps that leave the pages, the last result and the refresh alone.
LEMMA FullKept ==
    ASSUME FullInv, TypeInv', AllOrNothing', UNCHANGED <<lastDocs, loaded, routes, contexts, job>>,
           state'.err = state.err, pc' = pc \/ (pc = "watch" /\ pc' = "idle")
    PROVE  FullInv'
  <1>1. /\ Wanting' = Wanting /\ \A S : Table(S)' = Table(S)
        /\ \A p : InClients(p)' = InClients(p)
    BY PagesKept
  <1>2. Table(Wanting)' = Table(Wanting)
        /\ Table(Wanting \ job.todo)' = Table(Wanting \ job.todo)
    BY <1>1 DEF Table
  <1> QED
    BY <1>1, <1>2 DEF FullInv, Rendering, Showing

\* The steps in front of the render, and a refresh that fails.
LEMMA FullStarts ==
    ASSUME TypeInv', AllOrNothing', job'.routeMap = NoRoutes,
           pc' \in {"reload", "load", "hook", "read"}
             \/ (pc' \in {"idle", "watch"} /\ state'.err)
    PROVE  FullInv'
  BY DEF FullInv, Rendering, Showing

LEMMA FullStep == FullRefreshes /\ FullInv /\ TypeInv' /\ [Next]_vars => FullInv'
  <1> SUFFICES ASSUME FullRefreshes, FullInv, TypeInv', [Next]_vars PROVE FullInv'
    OBVIOUS
  <1>t. /\ TypeOK /\ AllOrNothing /\ IsJob(job)
        /\ NoJob.changed = {Nil} /\ ~NoJob.selective /\ NoJob.routeMap = NoRoutes
        /\ pc # "render" => job.routeMap = NoRoutes
    BY DEF FullInv, TypeInv, TypeOK, NoJob, Rendering
  <1>n. ASSUME UNCHANGED <<queue, pending, job>> PROVE AllOrNothing'
    BY <1>n, <1>t DEF AllOrNothing
  <1>1. ASSUME NEW f \in Files, Save(f) PROVE FullInv'
    BY <1>1, <1>n, FullKept DEF Save, pluginVars, serverVars
  <1>2. ASSUME NEW f \in Files, DeleteFile(f) PROVE FullInv'
    BY <1>2 DEF FullRefreshes, Ordinary, DeleteFile
  <1>3. CASE RebuildPlugin
    BY <1>3, <1>n, FullKept DEF RebuildPlugin, loopVars, pluginVars, serverVars
  <1>4. CASE StartWatcher
    BY <1>4, <1>n, FullKept DEF StartWatcher, loopVars, pluginVars, serverVars
  <1>5. CASE Process \/ Poll
    <2>1. AllOrNothing'
      <3>1. Enqueue(Nil) \/ UNCHANGED queue
        BY <1>5 DEF Process, Poll, FullRefreshes
      <3>2. \A i \in 1 .. Len(queue') : queue'[i] = Nil
        BY <1>t, <3>1, NilEnqueued DEF AllOrNothing
      <3> QED
        BY <1>5, <1>t, <3>2 DEF Process, Poll, AllOrNothing
    <2> QED
      BY <1>5, <2>1, FullKept DEF Process, Poll, pluginVars, serverVars
  <1>6. CASE Receive
    <2>1. AllOrNothing'
      <3>1. queue \in Seq(Request) /\ queue # <<>>
        BY <1>6, <1>t DEF Receive, TypeOK
      <3>2. \A i \in 1 .. Len(Tail(queue)) : Tail(queue)[i] = Nil
        BY <1>t, <3>1 DEF AllOrNothing
      <3>3. Head(queue) = Nil
        BY <1>t, <3>1 DEF AllOrNothing
      <3> QED
        BY <1>6, <1>t, <3>2, <3>3 DEF Receive, AllOrNothing
    <2>2. state'.err = state.err
      BY <1>6, <1>t DEF Receive, SetRefreshPending, TypeOK
    <2> QED
      BY <1>6, <2>1, <2>2, FullKept DEF Receive, pluginVars, serverVars
  <1>7. CASE TimerFires
    <2>1. CASE pending = {}
      BY <1>7, <2>1, <1>n, FullKept DEF TimerFires, pluginVars, serverVars
    <2>2. CASE pending # {}
      <3>1. MergeRequests(pending) = {Nil}
        BY <1>t, <2>2 DEF AllOrNothing, MergeRequests
      <3>2. AllOrNothing' /\ pc' = "reload" /\ job'.routeMap = NoRoutes
        BY <1>7, <1>t, <2>2, <3>1 DEF TimerFires, AllOrNothing, NoJob
      <3> QED
        BY <3>2, FullStarts
    <2> QED
      BY <2>1, <2>2
  <1>8. ASSUME Finish(TRUE), UNCHANGED loopVars PROVE FullInv'
    <2>1. /\ AllOrNothing' /\ pc' \in {"idle", "watch"} /\ state'.err
          /\ job'.routeMap = NoRoutes
      BY <1>8, <1>t DEF Finish, AllOrNothing, loopVars
    <2> QED
      BY <2>1, FullStarts
  <1>9. CASE Reload \/ LoadPlugins
    <2>1. UNCHANGED loopVars /\ pc # "render" /\ (Proceed \/ (pc' = "load" /\ UNCHANGED job))
      BY <1>9 DEF Reload, LoadPlugins
    <2>2. CASE pc' = "load" /\ UNCHANGED job
      BY <1>n, <1>t, <2>1, <2>2, FullStarts DEF loopVars
    <2>3. CASE pc' = "hook" /\ job' = [job EXCEPT !.changed = AfterReload(@, stale')]
      <3>1. Nil \in job'.changed /\ ~job'.selective /\ job'.routeMap = NoRoutes
        BY <1>t, <2>1, <2>3 DEF AfterReload, AllOrNothing, IsJob, NoJob
      <3> QED
        BY <1>t, <2>1, <2>3, <3>1, FullStarts DEF AllOrNothing, loopVars
    <2> QED
      BY <1>8, <2>1, <2>2, <2>3 DEF Proceed
  <1>10. CASE Hook
    <2>1. job' = [job EXCEPT !.left = Files] /\ pc' = "read" /\ pc = "hook"
      BY <1>10 DEF Hook, FullRefreshes, Ordinary
    <2>2. Nil \in job'.changed /\ ~job'.selective /\ job'.routeMap = NoRoutes
      BY <1>t, <2>1 DEF AllOrNothing, IsJob, NoJob
    <2> QED
      BY <1>10, <1>t, <2>1, <2>2, FullStarts DEF Hook, AllOrNothing, loopVars
  <1>11. ASSUME NEW f \in Files, ReadFile(f) PROVE FullInv'
    <2>1. CASE health[f] = "broken"
      BY <1>8, <1>11, <2>1 DEF ReadFile
    <2>2. CASE health[f] # "broken"
      <3>1. /\ Nil \in job'.changed /\ ~job'.selective /\ job'.routeMap = NoRoutes
            /\ pc' = "read"
        BY <1>11, <1>t, <2>2 DEF ReadFile, AllOrNothing, IsJob, NoJob
      <3> QED
        BY <1>11, <1>t, <3>1, FullStarts DEF ReadFile, AllOrNothing, loopVars
    <2> QED
      BY <2>1, <2>2
  <1>12. CASE Plan
    <2>1. CASE job.duplicate
      BY <1>8, <1>12, <2>1 DEF Plan
    <2>2. CASE ~job.duplicate
      <3>1. ~CanSelect(job.read, job.changed)
        BY <1>t DEF CanSelect, AllOrNothing
      <3>2. /\ job' = [job EXCEPT !.todo = Artefacts \cap Defined(job.read)]
            /\ pc' = "all-pages" /\ lastDocs' = job.read /\ pc = "read"
        BY <1>12, <2>2, <3>1 DEF Plan
      <3>3. /\ Nil \in job'.changed /\ ~job'.selective /\ job'.todo = Wanting'
            /\ job'.routeMap = job.routeMap
        BY <1>t, <3>2 DEF AllOrNothing, IsJob, NoJob, Wanting
      <3>4. AllOrNothing'
        BY <1>12, <1>t, <3>3 DEF Plan, AllOrNothing, loopVars
      <3> QED
        BY <1>t, <3>2, <3>3, <3>4 DEF FullInv, Rendering, Showing
    <2> QED
      BY <2>1, <2>2
  <1>13. CASE RenderAllPages
    <2>1. CASE Finish(TRUE)
      BY <1>8, <1>13, <2>1 DEF RenderAllPages
    <2>2. CASE pc' = "render" /\ BroadcastContent(Root, Rendered(Root, lastDocs, loaded))
               /\ UNCHANGED job
      <3>1. InClients(Root)'
        BY <1>13, <2>2, Broadcast DEF RenderAllPages, pluginVars
      <3> QED
        BY <1>13, <1>n, <2>2, <3>1
        DEF RenderAllPages, FullInv, Rendering, Showing, Wanting, Table, NoRoutes, loopVars
    <2> QED
      BY <1>13, <2>1, <2>2 DEF RenderAllPages
  <1>14. ASSUME NEW a \in Artefacts, Render(a), pc = "render", a \in job.todo,
                UNCHANGED <<lastDocs, loaded, loopVars>>
         PROVE  FullInv'
    <2>1. /\ job'.todo = job.todo \ {a} /\ job'.changed = job.changed
          /\ job'.selective = job.selective
          /\ job'.routeMap
               = Updated(job.routeMap, [p \in {a} |-> Rendered(a, lastDocs, loaded)])
          /\ pc' = pc
      BY <1>14, <1>t DEF Render, IsJob, NoJob
    <2>2. AllOrNothing'
      BY <1>14, <1>t, <2>1 DEF AllOrNothing, loopVars
    <2>3. InClients(a)' /\ \A q : InClients(q) => InClients(q)'
      BY <1>14, Broadcast DEF Render
    <2>4. Wanting' = Wanting /\ Wanting \ job'.todo = (Wanting \ job.todo) \cup {a}
      <3>1. Wanting' = Wanting
        BY <1>14, PagesKept
      <3> QED
        BY <1>14, <2>1, <3>1 DEF FullInv, Rendering
    <2>5. job'.routeMap = Table(Wanting \ job.todo)'
      <3>1. job'.routeMap = Table((Wanting \ job.todo) \cup {a})
        BY <1>14, <2>1, TableGrows DEF FullInv, Rendering
      <3> QED
        BY <1>14, <2>4, <3>1 DEF Table
    <2>6. InClients(Root)' /\ \A b \in Wanting' \ job'.todo : InClients(b)'
      BY <1>14, <2>3, <2>4 DEF FullInv, Rendering
    <2> QED
      BY <1>14, <2>1, <2>2, <2>4, <2>5, <2>6 DEF FullInv, Rendering, Showing
  <1>15. ASSUME NEW a \in Artefacts, RenderReport(a) PROVE FullInv'
    BY <1>8, <1>14, <1>15 DEF RenderReport, pluginVars
  <1>16. ASSUME NEW a \in Artefacts, RenderDocument(a) PROVE FullInv'
    BY <1>14, <1>16 DEF RenderDocument, pluginVars, FullRefreshes
  <1>17. CASE Publish
    <2>1. routes' = Table(Wanting) /\ InClients(Root) /\ \A a \in Wanting : InClients(a)
      BY <1>17, <1>t DEF Publish, NewRoutes, FullInv, Rendering, AllOrNothing
    <2>2. loaded # 0
      BY <1>17 DEF Publish, FullInv, TypeInv, Loading
    <2>3. /\ AllOrNothing' /\ pc' \in {"idle", "watch"} /\ job'.routeMap = NoRoutes
          /\ UNCHANGED <<lastDocs, contexts, loaded>>
      BY <1>17, <1>t DEF Publish, Succeed, Finish, AllOrNothing, loopVars
    <2>4. Showing'
      <3>1. Wanting' = Wanting /\ \A p : InClients(p)' = InClients(p)
        BY <2>3, PagesKept
      <3>2. Table(Wanting)' = Table(Wanting)
        BY <2>3, <3>1, PagesKept DEF Table
      <3> QED
        BY <2>1, <2>2, <2>3, <3>1, <3>2 DEF Showing
    <2> QED
      BY <2>3, <2>4 DEF FullInv, Rendering
  <1>18. CASE UNCHANGED vars
    BY <1>18, <1>n, FullKept DEF vars, loopVars, pluginVars, serverVars
  <1> QED
    BY <1>1, <1>2, <1>3, <1>4, <1>5, <1>6, <1>7, <1>9, <1>10, <1>11, <1>12, <1>13, <1>15,
       <1>16, <1>17, <1>18
    DEF Next, Environment, Loop, Run

\* Whatever is saved, removed, broken or fails to render, and however the saves
\* fall into the window and between the reads of a load: with full refreshes a
\* preview at rest whose last refresh succeeded has exactly one page for each
\* artefact on disk, of the files and the plugin as they are, and so have its
\* clients, All Pages included (watch loop, Run, reloadIfChanged).
THEOREM PreviewFullFresh == FullRefreshes => (Spec => []PreviewFresh)
  <1> SUFFICES ASSUME FullRefreshes PROVE Spec => []PreviewFresh
    OBVIOUS
  <1>1. Spec => []TypeInv
    BY TypeInit, TypeNext, PTL DEF Spec
  <1>2. FullInv /\ TypeInv' /\ [Next]_vars => FullInv'
    BY FullStep
  <1>3. SaveInv /\ TypeOK' /\ [Next]_vars => SaveInv'
    BY SaveNext DEF FullRefreshes
  <1>4. Spec => [](SaveInv /\ FullInv)
    <2>1. TypeInv => TypeOK
      BY DEF TypeInv
    <2> QED
      BY <1>1, <1>2, <1>3, <2>1, SaveInit, FullInit, PTL DEF Spec
  <1>5. TypeOK /\ PluginAge /\ SaveInv /\ FullInv => PreviewFresh
    <2> SUFFICES ASSUME TypeOK, PluginAge, SaveInv, FullInv, AtRest PROVE PreviewFresh
      BY DEF PreviewFresh, RoutesFresh, AllPagesFresh
    <2>1. lastDocs = disk
      <3>1. \A d \in Docs : lastDocs[d] = disk[d]
        BY DEF AtRest, SaveInv, Known, Queued
      <3> QED
        BY <3>1 DEF TypeOK, Content
    <2>2. /\ loaded # 0 /\ routes = Table(Wanting)
          /\ InClients(Root) /\ \A a \in Wanting : InClients(a)
      BY DEF AtRest, FullInv, Showing
    <2>3. loaded = build
      BY <2>2, ConstantsAssumption DEF AtRest, PluginAge, TypeOK
    <2> QED
      BY <2>1, <2>2, <2>3
      DEF PreviewFresh, RoutesFresh, AllPagesFresh, Wanted, Wanting, Table, InClients
  <1> QED
    BY <1>4, <1>5, PluginAgeHolds, PTL

-----------------------------------------------------------------------------
(* A preview at rest shows the project as it is: incremental refreshes.      *)

\* Documents without a node in the graph do not share a file with others.
ConfigsApart == \A c \in Configs, d \in Docs \ Configs : Home[c] # Home[d]

\* The environment the theorem is about: no document is removed, and all that may
\* fail is the load of a plugin.
Steady == Moves \subseteq {"fail-plugin"} /\ ConfigsApart

\* The watcher finds refreshCh full, the file of its request is forgotten.
Drops == Process /\ Head(events).op = "write" /\ UNCHANGED queue

\* A refresh of the file, or of everything, is still to begin ...
Asked(f) ==
    \/ \E i \in 1 .. Len(events) : events[i].file = f
    \/ \E i \in 1 .. Len(queue) : queue[i] \in {f, Nil}
    \/ pending \cap {f, Nil} # {}

\* ... or has begun and has not replaced lastDocs.
Outstanding(f) ==
    \/ Asked(f)
    \/ pc \in {"reload", "load", "hook", "read"} /\ job.changed \cap {f, Nil} # {}

Healthy == health = [f \in Files |-> "ok"] /\ ~job.duplicate

Marks ==
    /\ pc \notin {"hook", "read", "all-pages", "render"} => ~stale
    /\ pc \in {"idle", "watch"} /\ ~state.err => loaded # 0

\* What was defined once stays so.
Grown ==
    /\ \A d \in Docs : lastDocs[d] # 0 => disk[d] # 0
    /\ pc = "read" =>
         \A d \in Docs : Home[d] \notin job.left =>
            /\ job.read[d] # 0 => disk[d] # 0
            /\ lastDocs[d] # 0 => job.read[d] # 0
    /\ \A a \in DOMAIN routes :
         /\ lastDocs[a] # 0
         /\ \A d \in Reads(a) : routes[a].docs[d] # 0 => lastDocs[d] # 0
    /\ pc \in {"all-pages", "render"} => job.todo \subseteq Defined(lastDocs)
    /\ DOMAIN job.routeMap \subseteq Defined(lastDocs)

\* Where the last load, or the running one, is behind the disk, a refresh of that
\* very file is outstanding.
Loads ==
    /\ loaded # 0 => \A d \in Docs : lastDocs[d] = disk[d] \/ Outstanding(Home[d])
    /\ pc = "read" =>
         \A d \in Docs : Home[d] \notin job.left =>
            /\ job.read[d] = disk[d] \/ Asked(Home[d])
            /\ job.read[d] = lastDocs[d] \/ Outstanding(Home[d])

\* Where the page of an artefact is behind the last load, too.
Fits(a) ==
    IF a \in DOMAIN routes
      THEN \A d \in Reads(a) : routes[a].docs[d] = lastDocs[d] \/ Outstanding(Home[d])
      ELSE lastDocs[a] = 0 \/ Outstanding(Home[a])

Paged ==
    /\ loaded # 0 /\ pc \notin {"all-pages", "render"} => \A a \in Artefacts : Fits(a)
    /\ pc \in {"all-pages", "render"} =>
         \A a \in Artefacts :
            \/ a \in job.todo \/ a \in DOMAIN job.routeMap
            \/ IF job.selective THEN Fits(a) ELSE lastDocs[a] = 0

\* The tables are maps; the clients have what the routes hold, or will hold when
\* the running refresh has set its own.
Tables ==
    /\ routes = [a \in DOMAIN routes |-> routes[a]]
    /\ job.routeMap = Table(DOMAIN job.routeMap)
    /\ \A a \in DOMAIN job.routeMap : InClients(a)
    /\ \A a \in DOMAIN routes \ DOMAIN job.routeMap :
         a \in DOMAIN contexts /\ contexts[a] = routes[a]

\* What the other invariants say.
Known2 == TypeInv /\ SaveInv /\ PluginInv

SelectInv == Known2 /\ Healthy /\ Marks /\ Grown /\ Loads /\ Paged /\ Tables

-----------------------------------------------------------------------------
(* What the steps do, as far as these properties tell.                       *)

\* What is asked for stays so until the timer fires.
LEMMA AskedSent ==
    ASSUME TypeOK, OnlyWrites, NEW f,
           (\E g \in Files : Save(g)) \/ (Process /\ ~Drops) \/ Poll \/ Receive,
           Asked(f), Steady
    PROVE  Asked(f)'
  <1>t. queue \in Seq(Request) /\ events \in Seq(Event)
    BY DEF TypeOK
  <1>1. ASSUME NEW g \in Files, Save(g) PROVE Asked(f)'
    <2>1. events' = events \/ events' = Append(events, [file |-> g, op |-> "write"])
      BY <1>1 DEF Save, Notify
    <2>2. [file |-> g, op |-> "write"] \in Event
      BY DEF Event
    <2>3. \A i \in 1 .. Len(events) : i \in 1 .. Len(events') /\ events'[i] = events[i]
      BY <1>t, <2>1, <2>2
    <2> QED
      BY <1>1, <2>3 DEF Save, Asked
  <1>2. ASSUME NEW r \in Request, queue' = queue \/ queue' = Append(queue, r)
        PROVE  \A i \in 1 .. Len(queue) : i \in 1 .. Len(queue') /\ queue'[i] = queue[i]
    BY <1>t, <1>2
  <1>3. CASE Process /\ ~Drops
    <2>1. events # <<>> /\ Head(events) \in Event /\ Head(events).op = "write"
      BY <1>3, <1>t DEF Process, OnlyWrites
    <2> DEFINE r == IF Incremental THEN Head(events).file ELSE Nil
    <2>2. r \in Request
      BY <2>1 DEF Event, Request
    <2>3. queue' = Append(queue, r)
      BY <1>3, <2>1 DEF Process, Enqueue, Drops
    <2>4. \A i \in 1 .. Len(queue) : i \in 1 .. Len(queue') /\ queue'[i] = queue[i]
      BY <1>2, <2>2, <2>3
    <2>5. Len(queue') \in 1 .. Len(queue') /\ queue'[Len(queue')] = r
      BY <1>t, <2>2, <2>3
    <2>6. events' = Tail(events) /\ UNCHANGED pending
      BY <1>3 DEF Process
    <2>7. CASE \E i \in 1 .. Len(events) : events[i].file = f
      <3>1. PICK i \in 1 .. Len(events) : events[i].file = f
        BY <2>7
      <3>2. CASE i = 1
        <4>1. Head(events).file = f
          BY <1>t, <2>1, <3>1, <3>2
        <4>2. r = Head(events).file \/ r = Nil
          BY Zenon
        <4>3. r \in {f, Nil}
          BY <4>1, <4>2
        <4> QED
          BY <2>5, <4>3 DEF Asked
      <3>3. CASE i # 1
        <4>1. i - 1 \in 1 .. Len(events') /\ events'[i - 1] = events[i]
          BY <1>t, <2>1, <2>6, <3>1, <3>3
        <4> QED
          BY <3>1, <4>1 DEF Asked
      <3> QED
        BY <3>2, <3>3
    <2>8. CASE \E i \in 1 .. Len(queue) : queue[i] \in {f, Nil}
      BY <2>4, <2>8 DEF Asked
    <2> QED
      BY <2>6, <2>7, <2>8 DEF Asked
  <1>4. CASE Poll
    <2>1. queue' = queue \/ queue' = Append(queue, Nil)
      BY <1>4 DEF Poll, Enqueue
    <2>2. \A i \in 1 .. Len(queue) : i \in 1 .. Len(queue') /\ queue'[i] = queue[i]
      BY <1>2, <2>1 DEF Request
    <2> QED
      BY <1>4, <2>2 DEF Poll, Asked
  <1>5. CASE Receive
    <2>1. /\ queue # <<>> /\ queue' = Tail(queue) /\ pending' = pending \cup {Head(queue)}
          /\ UNCHANGED events
      BY <1>5 DEF Receive
    <2>2. CASE \E i \in 1 .. Len(queue) : queue[i] \in {f, Nil}
      <3>1. PICK i \in 1 .. Len(queue) : queue[i] \in {f, Nil}
        BY <2>2
      <3>2. CASE i = 1
        <4>1. Head(queue) = queue[i]
          BY <1>t, <2>1, <3>2
        <4> QED
          BY <2>1, <3>1, <4>1 DEF Asked
      <3>3. CASE i # 1
        <4>1. i - 1 \in 1 .. Len(queue') /\ queue'[i - 1] = queue[i]
          BY <1>t, <2>1, <3>1, <3>3
        <4> QED
          BY <3>1, <4>1 DEF Asked
      <3> QED
        BY <3>2, <3>3
    <2> QED
      BY <2>1, <2>2 DEF Asked
  <1> QED
    BY <1>1, <1>3, <1>4, <1>5

\* An environment step, one of the watcher, or one of the loop between refreshes.
Still ==
    /\ UNCHANGED <<job, lastDocs, loaded, stale, routes, contexts>>
    /\ health' = [f \in Files |-> "ok"]
    /\ pc' = pc \/ (pc = "watch" /\ pc' = "idle")
    /\ state'.err = state.err
    /\ \A f : Asked(f) => Asked(f)'
    /\ \A d \in Docs : disk'[d] = disk[d] \/ (disk'[d] # 0 /\ Asked(Home[d])')

\* The timer fires: what was in the window is in the job.
Taken ==
    /\ pc = "idle" /\ pc' = "reload"
    /\ UNCHANGED <<disk, health, lastDocs, loaded, stale, routes, contexts>>
    /\ job'.routeMap = NoRoutes /\ ~job'.duplicate
    /\ \A f : Asked(f) => Asked(f)' \/ job'.changed \cap {f, Nil} # {}

LEMMA StillSteps ==
    ASSUME Steady, Known2, Healthy,
           \/ \E f \in Files : Save(f)
           \/ RebuildPlugin \/ StartWatcher \/ (Process /\ ~Drops) \/ Poll \/ Receive
           \/ (TimerFires /\ pending = {})
           \/ UNCHANGED vars
    PROVE  Still
  <1>t. TypeOK /\ OnlyWrites /\ Boot /\ disk \in Content
    BY DEF Known2, SaveInv, TypeOK
  <1>1. ASSUME NEW f \in Files, Save(f) PROVE Still
    <2>1. booted /\ watched = Files
      BY <1>1, <1>t DEF Steady, Save, MaySave, Boot
    <2>2. events' = Append(events, [file |-> f, op |-> "write"])
      BY <1>1, <2>1 DEF Save, Notify
    <2>3. events \in Seq(Event) /\ [file |-> f, op |-> "write"] \in Event
      BY <1>t DEF TypeOK, Event
    <2>4. Len(events') \in 1 .. Len(events') /\ events'[Len(events')].file = f
      BY <2>2, <2>3
    <2>5. Asked(f)'
      BY <2>4 DEF Asked
    <2>6. \A d \in Docs : disk'[d] = disk[d] \/ (disk'[d] # 0 /\ Asked(Home[d])')
      <3>1. PICK d \in DocsIn(f) : disk' = [disk EXCEPT ![d] = edits + 2]
        BY <1>1 DEF Save, Steady
      <3>2. edits + 2 # 0 /\ Home[d] = f
        BY <1>t DEF DocsIn, TypeOK
      <3> QED
        BY <1>t, <2>5, <3>1, <3>2 DEF Content
    <2>7. health' = [g \in Files |-> "ok"]
      BY <1>1 DEF Save, Healths, Steady, Healthy
    <2>8. \A g : Asked(g) => Asked(g)'
      BY <1>1, <1>t, AskedSent
    <2> QED
      BY <1>1, <2>6, <2>7, <2>8 DEF Save, Still, pluginVars, serverVars
  <1>2. ASSUME UNCHANGED <<loopVars, disk, health, job, lastDocs, loaded, stale, routes, contexts>>,
               pc' = pc \/ (pc = "watch" /\ pc' = "idle"), state'.err = state.err
        PROVE  Still
    BY <1>2 DEF Still, Healthy, Asked, loopVars
  <1>3. CASE RebuildPlugin \/ StartWatcher \/ UNCHANGED vars
    BY <1>2, <1>3 DEF RebuildPlugin, StartWatcher, vars, diskVars, pluginVars, serverVars
  <1>4. CASE (Process /\ ~Drops) \/ Poll
    <2>1. \A g : Asked(g) => Asked(g)'
      BY <1>4, <1>t, AskedSent
    <2> QED
      BY <1>4, <2>1 DEF Process, Poll, Still, Healthy, diskVars, pluginVars, serverVars
  <1>5. CASE Receive
    <2>1. \A g : Asked(g) => Asked(g)'
      BY <1>5, <1>t, AskedSent
    <2>2. state'.err = state.err
      BY <1>5, <1>t DEF Receive, SetRefreshPending, TypeOK
    <2> QED
      BY <1>5, <2>1, <2>2 DEF Receive, Still, Healthy, diskVars, pluginVars, serverVars
  <1>6. CASE TimerFires /\ pending = {}
    BY <1>6 DEF TimerFires, Still, Healthy, Asked, diskVars, pluginVars, serverVars
  <1> QED
    BY <1>1, <1>3, <1>4, <1>5, <1>6

LEMMA TakenStep ==
    ASSUME TimerFires, pending # {}
    PROVE  Taken
  <1>1. job'.changed = MergeRequests(pending) /\ job'.routeMap = NoRoutes /\ ~job'.duplicate
    BY DEF TimerFires, NoJob
  <1>2. ASSUME NEW f, Asked(f) PROVE Asked(f)' \/ job'.changed \cap {f, Nil} # {}
    <2>1. MergeRequests(pending) \cap {f, Nil} # {} \/ pending \cap {f, Nil} = {}
      BY DEF MergeRequests
    <2> QED
      BY <1>1, <1>2, <2>1 DEF Asked, TimerFires
  <1> QED
    BY <1>1, <1>2 DEF Taken, TimerFires, diskVars, pluginVars, serverVars

\* The plugins are checked: the refresh goes on to load them, ends, or goes on to
\* the hook, for everything unless nothing has been reloaded.
Reloads ==
    /\ pc \in {"reload", "load"}
    /\ UNCHANGED <<disk, health, loopVars, lastDocs, routes, contexts>>
    /\ \/ pc' = "load" /\ UNCHANGED <<job, loaded, stale>>
       \/ /\ pc' \in {"idle", "watch"} /\ loaded' = 0 /\ state'.err
          /\ job' = NoJob /\ UNCHANGED stale
       \/ /\ pc' = "hook" /\ loaded' # 0
          /\ job'.routeMap = job.routeMap /\ job'.duplicate = job.duplicate
          /\ \/ job'.changed = {Nil}
             \/ UNCHANGED <<loaded, stale>> /\ job'.changed = job.changed

LEMMA ReloadsStep ==
    ASSUME Known2, Marks, Reload \/ LoadPlugins
    PROVE  Reloads
  <1>t. IsJob(job)
    BY DEF Known2, TypeInv, TypeOK
  <1>1. CASE Reload
    <2>1. CASE build = stamp
      <3>1. ~stale /\ ~stale'
        BY <1>1 DEF Marks, Reload
      <3>2. CASE loaded' # 0
        <4>1. job' = [job EXCEPT !.changed = AfterReload(@, stale')] /\ pc' = "hook"
          BY <1>1, <2>1, <3>2 DEF Reload, Proceed
        <4>2. job'.changed = job.changed /\ job'.routeMap = job.routeMap
              /\ job'.duplicate = job.duplicate
          BY <1>t, <3>1, <4>1 DEF AfterReload, IsJob, NoJob
        <4> QED
          BY <1>1, <3>2, <4>1, <4>2 DEF Reload, Reloads, diskVars, serverVars
      <3>3. CASE loaded' = 0
        BY <1>1, <2>1, <3>3 DEF Reload, Proceed, Finish, Reloads, diskVars, serverVars
      <3> QED
        BY <3>2, <3>3
    <2>2. CASE build # stamp
      BY <1>1, <2>2 DEF Reload, Reloads, diskVars, serverVars
    <2> QED
      BY <2>1, <2>2
  <1>2. CASE LoadPlugins
    <2>1. CASE loaded' # 0
      <3>1. job' = [job EXCEPT !.changed = AfterReload(@, stale')] /\ pc' = "hook"
        BY <1>2, <2>1 DEF LoadPlugins, Proceed
      <3>2. stale'
        BY <1>2, <2>1 DEF LoadPlugins
      <3>3. job'.changed = {Nil} /\ job'.routeMap = job.routeMap
            /\ job'.duplicate = job.duplicate
        BY <1>t, <3>1, <3>2 DEF AfterReload, IsJob, NoJob
      <3> QED
        BY <1>2, <2>1, <3>1, <3>3 DEF LoadPlugins, Reloads, diskVars, serverVars
    <2>2. CASE loaded' = 0
      <3>1. UNCHANGED stale
        <4>1. build # 0
          BY ConstantsAssumption DEF Known2, TypeInv, TypeOK
        <4> QED
          BY <1>2, <2>2, <4>1 DEF LoadPlugins
      <3> QED
        BY <1>2, <2>2, <3>1 DEF LoadPlugins, Proceed, Finish, Reloads, diskVars, serverVars
    <2> QED
      BY <2>1, <2>2
  <1> QED
    BY <1>1, <1>2

\* The steps between the hook and the end of a refresh.
Unmoved == UNCHANGED <<disk, health, loopVars, loaded>>

Walks ==
    /\ pc = "hook" /\ pc' = "read"
    /\ Unmoved /\ UNCHANGED <<stale, lastDocs, routes, contexts>>
    /\ job' = [job EXCEPT !.left = Files]

ReadsOne(f) ==
    /\ pc = "read" /\ pc' = "read" /\ f \in job.left
    /\ Unmoved /\ UNCHANGED <<stale, lastDocs, routes, contexts>>
    /\ job' = [job EXCEPT
                 !.left = @ \ {f},
                 !.read = [d \in Docs |-> IF Home[d] = f THEN disk[d] ELSE @[d]],
                 !.duplicate = FALSE]

Plans ==
    /\ pc = "read" /\ job.left = {}
    /\ Unmoved /\ UNCHANGED <<stale, routes, contexts>>
    /\ lastDocs' = job.read
    /\ pc' \in {"all-pages", "render"}
    /\ job'.routeMap = job.routeMap /\ ~job'.duplicate
    /\ \/ /\ job'.selective /\ CanSelect(job.read, job.changed)
          /\ job'.todo = AffectedArtefacts(job.read, NodesByFile(job.read, job.changed))
       \/ ~job'.selective /\ job'.todo = Artefacts \cap Defined(job.read)

AllPages ==
    /\ pc = "all-pages" /\ pc' = "render"
    /\ Unmoved /\ UNCHANGED <<stale, lastDocs, routes, job>>
    /\ BroadcastContent(Root, Rendered(Root, lastDocs, loaded))

Draws(a) ==
    /\ pc = "render" /\ pc' = "render"
    /\ Unmoved /\ UNCHANGED <<stale, lastDocs, routes>>
    /\ a \in job.todo
    /\ job' = [job EXCEPT !.todo = @ \ {a},
                          !.routeMap = Updated(@, [p \in {a} |-> Rendered(a, lastDocs, loaded)])]
    /\ BroadcastContent(a, Rendered(a, lastDocs, loaded))

Publishes ==
    /\ pc = "render" /\ pc' \in {"idle", "watch"}
    /\ Unmoved /\ UNCHANGED <<lastDocs, contexts>>
    /\ job.todo = {} /\ job' = NoJob
    /\ routes' = NewRoutes
    /\ ~stale'

\* A step of a preview that drops no request is one of these.
SelectStep ==
    \/ Still \/ Taken \/ Reloads \/ Walks \/ (\E f \in Files : ReadsOne(f))
    \/ Plans \/ AllPages \/ (\E a \in Artefacts : Draws(a)) \/ Publishes

LEMMA SelectSteps ==
    ASSUME Steady, Known2, Healthy, Marks, [Next]_vars, [~Drops]_vars
    PROVE  SelectStep
  <1>t. IsJob(job) /\ Moves \cap (AllMoves \ {"fail-plugin"}) = {}
    BY DEF Known2, TypeInv, TypeOK, Steady
  <1>0. ASSUME Process PROVE ~Drops
    <2>1. events' # events
      <3>1. events \in Seq(Event) /\ events # <<>> /\ events' = Tail(events)
        BY <1>0 DEF Process, Known2, TypeInv, TypeOK
      <3>2. Len(events') # Len(events)
        BY <3>1, SeqType
      <3> QED
        BY <3>2
    <2> QED
      BY <2>1 DEF vars, loopVars
  <1>1. ASSUME NEW f \in Files, Save(f) PROVE SelectStep
    BY <1>1, StillSteps DEF SelectStep
  <1>2. ASSUME NEW f \in Files, DeleteFile(f) PROVE SelectStep
    BY <1>2 DEF Steady, DeleteFile
  <1>3. CASE RebuildPlugin \/ StartWatcher \/ Process \/ Poll \/ Receive \/ UNCHANGED vars
    BY <1>0, <1>3, StillSteps DEF SelectStep
  <1>4. CASE TimerFires
    BY <1>4, StillSteps, TakenStep DEF SelectStep
  <1>5. CASE Reload \/ LoadPlugins
    BY <1>5, ReloadsStep DEF SelectStep
  <1>6. CASE Hook
    <2>1. Walks
      BY <1>6 DEF Hook, Steady, Walks, Unmoved, diskVars, serverVars
    <2> QED
      BY <2>1 DEF SelectStep
  <1>7. ASSUME NEW f \in Files, ReadFile(f) PROVE SelectStep
    <2>1. health[f] = "ok" /\ ~job.duplicate
      BY DEF Healthy
    <2>2. job' = [job EXCEPT
                 !.left = @ \ {f},
                 !.read = [d \in Docs |-> IF Home[d] = f THEN disk[d] ELSE @[d]],
                 !.duplicate = @ \/ health[f] = "duplicate"] /\ UNCHANGED pc
      BY <1>7, <2>1 DEF ReadFile
    <2>3. job' = [job EXCEPT
                 !.left = @ \ {f},
                 !.read = [d \in Docs |-> IF Home[d] = f THEN disk[d] ELSE @[d]],
                 !.duplicate = FALSE]
      BY <1>t, <2>1, <2>2 DEF IsJob, NoJob
    <2>4. ReadsOne(f)
      BY <1>7, <2>2, <2>3 DEF ReadFile, ReadsOne, Unmoved, diskVars, pluginVars, serverVars
    <2> QED
      BY <2>4 DEF SelectStep
  <1>8. CASE Plan
    <2>1. ~job.duplicate /\ ~job.selective
      BY <1>8 DEF Healthy, Plan, Known2, PluginInv
    <2>2. CASE CanSelect(job.read, job.changed)
      <3>1. /\ job' = [job EXCEPT !.selective = TRUE,
                 !.todo = AffectedArtefacts(job.read, NodesByFile(job.read, job.changed))]
            /\ pc' \in {"all-pages", "render"}
        BY <1>8, <2>1, <2>2 DEF Plan
      <3>2. Plans
        BY <1>8, <1>t, <2>1, <2>2, <3>1
        DEF Plan, Plans, Unmoved, IsJob, NoJob, diskVars, pluginVars, serverVars
      <3> QED
        BY <3>2 DEF SelectStep
    <2>3. CASE ~CanSelect(job.read, job.changed)
      <3>1. /\ job' = [job EXCEPT !.todo = Artefacts \cap Defined(job.read)]
            /\ pc' \in {"all-pages", "render"}
        BY <1>8, <2>1, <2>3 DEF Plan
      <3>2. Plans
        BY <1>8, <1>t, <2>1, <3>1
        DEF Plan, Plans, Unmoved, IsJob, NoJob, diskVars, pluginVars, serverVars
      <3> QED
        BY <3>2 DEF SelectStep
    <2> QED
      BY <2>2, <2>3
  <1>9. CASE RenderAllPages
    <2>1. AllPages
      BY <1>9 DEF RenderAllPages, Steady, AllPages, Unmoved, diskVars, pluginVars
    <2> QED
      BY <2>1 DEF SelectStep
  <1>10. ASSUME NEW a \in Artefacts, RenderReport(a) \/ RenderDocument(a) PROVE SelectStep
    <2>1. Render(a) /\ a \in job.todo /\ pc = "render"
      BY <1>10 DEF RenderReport, RenderDocument, Steady
    <2>2. Draws(a)
      BY <1>10, <2>1
      DEF RenderReport, RenderDocument, Render, Draws, Unmoved, diskVars, pluginVars
    <2> QED
      BY <2>2 DEF SelectStep
  <1>11. CASE Publish
    <2>1. Publishes
      BY <1>11 DEF Publish, Succeed, Finish, Publishes, Unmoved, diskVars
    <2> QED
      BY <2>1 DEF SelectStep
  <1> QED
    BY <1>1, <1>2, <1>3, <1>4, <1>5, <1>6, <1>7, <1>8, <1>9, <1>10, <1>11
    DEF Next, Environment, Loop, Run

\* A document that is outstanding stays so until its file has been loaded.
LEMMA OutstandingKept ==
    ASSUME IsJob(job), NEW f, Outstanding(f),
           \/ Still \/ Taken \/ (Reloads /\ loaded' # 0) \/ Walks
           \/ (\E g \in Files : ReadsOne(g))
           \/ AllPages \/ (\E a \in Artefacts : Draws(a)) \/ Publishes
    PROVE  Outstanding(f)'
  <1>1. CASE Still
    BY <1>1 DEF Still, Outstanding
  <1>2. CASE Taken
    BY <1>2 DEF Taken, Outstanding
  <1>3. CASE Reloads /\ loaded' # 0
    <2>1. Asked(f)' = Asked(f)
      BY <1>3 DEF Reloads, loopVars, Asked
    <2> QED
      BY <1>3, <2>1 DEF Reloads, Outstanding
  <1>4. CASE Walks \/ (\E g \in Files : ReadsOne(g))
    <2>1. Asked(f)' = Asked(f)
      BY <1>4 DEF Walks, ReadsOne, Unmoved, loopVars, Asked
    <2>2. job'.changed = job.changed
      BY <1>4 DEF Walks, ReadsOne, IsJob, NoJob
    <2> QED
      BY <1>4, <2>1, <2>2 DEF Walks, ReadsOne, Outstanding
  <1>5. CASE AllPages \/ (\E a \in Artefacts : Draws(a)) \/ Publishes
    <2>1. Asked(f)' = Asked(f)
      BY <1>5 DEF AllPages, Draws, Publishes, Unmoved, loopVars, Asked
    <2> QED
      BY <1>5, <2>1 DEF AllPages, Draws, Publishes, Outstanding
  <1> QED
    BY <1>1, <1>2, <1>3, <1>4, <1>5

LEMMA HealthyNext ==
    ASSUME Known2, Healthy, SelectStep
    PROVE  Healthy'
  <1>t. IsJob(job)
    BY DEF Known2, TypeInv, TypeOK
  <1>1. CASE Still \/ Taken \/ Plans \/ AllPages
    BY <1>1 DEF Still, Taken, Plans, AllPages, Unmoved, Healthy
  <1>2. CASE Reloads
    BY <1>2 DEF Reloads, Healthy, NoJob
  <1>3. CASE Walks \/ (\E f \in Files : ReadsOne(f)) \/ (\E a \in Artefacts : Draws(a))
    BY <1>3, <1>t DEF Walks, ReadsOne, Draws, Unmoved, Healthy, IsJob, NoJob
  <1>4. CASE Publishes
    BY <1>4 DEF Publishes, Unmoved, Healthy, NoJob
  <1> QED
    BY <1>1, <1>2, <1>3, <1>4 DEF SelectStep

LEMMA MarksNext ==
    ASSUME Known2, Marks, SelectStep
    PROVE  Marks'
  <1>t. Loading
    BY DEF Known2, TypeInv
  <1>1. CASE Still \/ Taken
    BY <1>1 DEF Still, Taken, Marks
  <1>2. CASE Reloads
    BY <1>2 DEF Reloads, Marks
  <1>3. CASE Walks \/ (\E f \in Files : ReadsOne(f))
    BY <1>3 DEF Walks, ReadsOne, Marks
  <1>4. CASE Plans \/ AllPages \/ (\E a \in Artefacts : Draws(a))
    BY <1>4 DEF Plans, AllPages, Draws, Marks
  <1>5. CASE Publishes
    BY <1>5, <1>t DEF Publishes, Unmoved, Marks, Loading
  <1> QED
    BY <1>1, <1>2, <1>3, <1>4, <1>5 DEF SelectStep

LEMMA GrownNext ==
    ASSUME Known2, Grown, Tables, SelectStep
    PROVE  Grown'
  <1>t. /\ IsJob(job) /\ lastDocs \in Content /\ Home \in [Docs -> Files]
        /\ \A a \in Artefacts : Reads(a) \subseteq Docs
        /\ DOMAIN routes \subseteq Artefacts
    BY ConstantsAssumption, ReadsType DEF Known2, TypeInv, TypeOK, Paths, IsRoutes
  <1>r. pc # "render" => DOMAIN job.routeMap = {}
    BY DEF Known2, PluginInv, NoRoutes
  <1>1. CASE Still
    BY <1>1 DEF Still, Grown
  <1>2. CASE Taken
    BY <1>2 DEF Taken, Grown, NoRoutes
  <1>3. CASE Reloads
    BY <1>3 DEF Reloads, Grown, NoJob, NoRoutes
  <1>4. CASE Walks
    <2>1. job'.left = Files /\ job'.routeMap = job.routeMap
      BY <1>4, <1>t DEF Walks, IsJob, NoJob
    <2> QED
      BY <1>4, <1>t, <2>1 DEF Walks, Unmoved, Grown
  <1>5. ASSUME NEW f \in Files, ReadsOne(f) PROVE Grown'
    <2>1. /\ job'.left = job.left \ {f} /\ job'.routeMap = job.routeMap
          /\ job'.read = [d \in Docs |-> IF Home[d] = f THEN disk[d] ELSE job.read[d]]
      BY <1>5, <1>t DEF ReadsOne, IsJob, NoJob
    <2> QED
      BY <1>5, <1>t, <2>1 DEF ReadsOne, Unmoved, Grown
  <1>6. CASE Plans
    <2>1. \A d \in Docs : /\ job.read[d] # 0 => disk[d] # 0
                          /\ lastDocs[d] # 0 => job.read[d] # 0
      BY <1>6, <1>t DEF Plans, Grown
    <2>2. job'.todo \subseteq Defined(job.read)
      BY <1>6 DEF Plans, AffectedArtefacts, GraphDocs
    <2>3. DOMAIN job'.routeMap = {}
      BY <1>6, <1>r DEF Plans
    <2>4. \A a \in DOMAIN routes :
            /\ job.read[a] # 0
            /\ \A d \in Reads(a) : routes[a].docs[d] # 0 => job.read[d] # 0
      BY <1>t, <2>1, ConstantsAssumption DEF Grown, Artefacts
    <2> QED
      BY <1>6, <2>1, <2>2, <2>3, <2>4 DEF Plans, Unmoved, Grown
  <1>7. CASE AllPages
    BY <1>7 DEF AllPages, Unmoved, Grown
  <1>8. ASSUME NEW a \in Artefacts, Draws(a) PROVE Grown'
    <2>1. /\ job'.todo = job.todo \ {a}
          /\ DOMAIN job'.routeMap = DOMAIN job.routeMap \cup {a}
      BY <1>8, <1>t DEF Draws, IsJob, NoJob, Updated
    <2>2. a \in Defined(lastDocs)
      BY <1>8 DEF Draws, Grown
    <2> QED
      BY <1>8, <2>1, <2>2 DEF Draws, Unmoved, Grown
  <1>9. CASE Publishes
    <2>1. \A a \in DOMAIN job.routeMap :
            /\ lastDocs[a] # 0
            /\ \A d \in Reads(a) : job.routeMap[a].docs[d] = lastDocs[d]
      BY DEF Grown, Defined, Tables, Table, Rendered
    <2>2. \A a \in DOMAIN routes' :
            \/ a \in DOMAIN job.routeMap /\ routes'[a] = job.routeMap[a]
            \/ a \in DOMAIN routes /\ routes'[a] = routes[a]
      BY <1>9 DEF Publishes, NewRoutes, Updated
    <2>3. \A a \in DOMAIN routes' :
            /\ lastDocs[a] # 0
            /\ \A d \in Reads(a) : routes'[a].docs[d] # 0 => lastDocs[d] # 0
      BY <2>1, <2>2 DEF Grown
    <2> QED
      BY <1>9, <2>3 DEF Publishes, Unmoved, Grown, NoJob, NoRoutes
  <1> QED
    BY <1>1, <1>2, <1>3, <1>4, <1>5, <1>6, <1>7, <1>8, <1>9 DEF SelectStep

LEMMA LoadsNext ==
    ASSUME Known2, Loads, SelectStep
    PROVE  Loads'
  <1>t. /\ IsJob(job) /\ disk \in Content /\ lastDocs \in Content
        /\ Home \in [Docs -> Files] /\ Loading
    BY ConstantsAssumption DEF Known2, TypeInv, TypeOK
  <1>1. CASE Still
    <2>1. \A f : Outstanding(f) => Outstanding(f)'
      BY <1>1, <1>t, OutstandingKept
    <2>2. \A f : Asked(f)' => Outstanding(f)'
      BY DEF Outstanding
    <2> QED
      BY <1>1, <2>1, <2>2 DEF Still, Loads
  <1>2. CASE Taken
    <2>1. \A f : Outstanding(f) => Outstanding(f)'
      BY <1>2, <1>t, OutstandingKept
    <2> QED
      BY <1>2, <2>1 DEF Taken, Loads
  <1>3. CASE Reloads /\ loaded' # 0
    <2>1. \A f : Outstanding(f) => Outstanding(f)'
      BY <1>3, <1>t, OutstandingKept
    <2>2. UNCHANGED loaded \/ \A f : Outstanding(f)'
      BY <1>3 DEF Reloads, Outstanding
    <2> QED
      BY <1>3, <2>1, <2>2 DEF Reloads, Loads
  <1>4. CASE Reloads /\ loaded' = 0
    BY <1>4 DEF Reloads, Loads
  <1>5. CASE Walks
    <2>1. \A f : Outstanding(f) => Outstanding(f)'
      BY <1>5, <1>t, OutstandingKept
    <2>2. job'.left = Files
      BY <1>5, <1>t DEF Walks, IsJob, NoJob
    <2> QED
      BY <1>5, <1>t, <2>1, <2>2 DEF Walks, Unmoved, Loads
  <1>6. ASSUME NEW f \in Files, ReadsOne(f) PROVE Loads'
    <2>1. \A g : Outstanding(g) => Outstanding(g)'
      BY <1>6, <1>t, OutstandingKept
    <2>2. /\ job'.left = job.left \ {f}
          /\ job'.read = [d \in Docs |-> IF Home[d] = f THEN disk[d] ELSE job.read[d]]
      BY <1>6, <1>t DEF ReadsOne, IsJob, NoJob
    <2>3. \A g : Asked(g)' = Asked(g)
      BY <1>6 DEF ReadsOne, Unmoved, loopVars, Asked
    <2>4. \A d \in Docs : lastDocs[d] = disk[d] \/ Outstanding(Home[d])
      BY <1>6, <1>t DEF ReadsOne, Loading, Loads
    <2>5. ASSUME NEW d \in Docs, Home[d] \notin job'.left
          PROVE  /\ job'.read[d] = disk[d] \/ Asked(Home[d])
                 /\ job'.read[d] = lastDocs[d] \/ Outstanding(Home[d])
      BY <1>6, <2>2, <2>4, <2>5 DEF ReadsOne, Loads
    <2> QED
      BY <1>6, <2>1, <2>3, <2>4, <2>5 DEF ReadsOne, Unmoved, Loads
  <1>7. CASE Plans
    <2>1. \A d \in Docs : job.read[d] = disk[d] \/ Asked(Home[d])
      BY <1>7, <1>t DEF Plans, Loads
    <2>2. \A f : Asked(f)' = Asked(f)
      BY <1>7 DEF Plans, Unmoved, loopVars, Asked
    <2> QED
      BY <1>7, <2>1, <2>2 DEF Plans, Unmoved, Loads, Outstanding
  <1>8. CASE AllPages \/ (\E a \in Artefacts : Draws(a)) \/ Publishes
    <2>1. \A f : Outstanding(f) => Outstanding(f)'
      BY <1>8, <1>t, OutstandingKept
    <2> QED
      BY <1>8, <2>1 DEF AllPages, Draws, Publishes, Unmoved, Loads
  <1> QED
    BY <1>1, <1>2, <1>3, <1>4, <1>5, <1>6, <1>7, <1>8 DEF SelectStep

\* Pages and last load stay, and so does what is outstanding.
LEMMA FitsKept ==
    ASSUME UNCHANGED <<routes, lastDocs>>, \A f : Outstanding(f) => Outstanding(f)'
    PROVE  \A a : Fits(a) => Fits(a)'
  <1>1. \A a : Reads(a)' = Reads(a)
    BY DEF Reads
  <1> QED
    BY <1>1 DEF Fits

\* A selective refresh leaves out only pages that read no document of the files
\* it is about: what they show is as they would show it now.
LEMMA LeftOutFits ==
    ASSUME ConfigsApart, Known2, Grown, Loads, Paged, Plans, job'.selective,
           NEW a \in Artefacts, a \notin job'.todo
    PROVE  Fits(a)'
  <1>t. /\ IsJob(job) /\ lastDocs \in Content /\ job.read \in Content
        /\ Home \in [Docs -> Files] /\ Reads(a) \subseteq Docs /\ a \in Reads(a)
        /\ a \in Docs \ Configs
        /\ DOMAIN routes \subseteq Artefacts /\ Loading
    BY ConstantsAssumption, ReadsType
    DEF Known2, TypeInv, TypeOK, IsJob, Paths, Artefacts, IsRoutes, Reads
  <1> DEFINE seeds == NodesByFile(job.read, job.changed)
  <1>1. /\ a \notin AffectedArtefacts(job.read, seeds)
        /\ CanSelect(job.read, job.changed) /\ pc = "read" /\ job.left = {}
    BY DEF Plans
  <1>2. \A d \in Docs : /\ lastDocs[d] # 0 => job.read[d] # 0
                        /\ job.read[d] = lastDocs[d] \/ Outstanding(Home[d])
    BY <1>t, <1>1 DEF Grown, Loads
  <1>3. \A f : Asked(f) => Outstanding(f)'
    BY DEF Plans, Unmoved, loopVars, Asked, Outstanding
  <1>4. \A f : Outstanding(f) => Asked(f) \/ f \in job.changed
    BY <1>1 DEF CanSelect, Outstanding
  <1>5. Fits(a)
    BY <1>t, <1>1 DEF Paged, Loading
  <1>6. job.read[a] # 0 => Reads(a) \cap seeds = {}
    BY <1>t, <1>1 DEF AffectedArtefacts, GraphDocs, Defined
  <1>7. ASSUME NEW d \in Docs, d \notin seeds, Home[d] \in job.changed
        PROVE  job.read[d] = 0
    <2>1. PICK e \in seeds : Home[e] = Home[d]
      BY <1>1, <1>7 DEF CanSelect
    <2>2. e \in Docs \ Configs
      BY <2>1 DEF NodesByFile, GraphDocs, Defined
    <2>3. d \notin Configs
      BY <2>1, <2>2 DEF ConfigsApart
    <2> QED
      BY <1>7, <2>3 DEF NodesByFile, GraphDocs, Defined
  <1>8. CASE a \in DOMAIN routes
    <2>1. /\ job.read[a] # 0
          /\ \A d \in Reads(a) : routes[a].docs[d] # 0 => job.read[d] # 0
      BY <1>t, <1>2, <1>8 DEF Grown
    <2>2. ASSUME NEW d \in Reads(a)
          PROVE  routes[a].docs[d] = job.read[d] \/ Asked(Home[d])
      <3>1. d \notin seeds /\ d \in Docs
        BY <1>6, <1>t, <2>1
      <3>2. CASE Home[d] \in job.changed
        BY <1>7, <2>1, <3>1, <3>2
      <3>3. CASE ~Outstanding(Home[d])
        BY <1>2, <1>5, <1>8, <3>1, <3>3 DEF Fits
      <3> QED
        BY <1>4, <3>2, <3>3
    <2> QED
      BY <1>3, <1>8, <2>2 DEF Fits, Plans, Reads
  <1>9. CASE a \notin DOMAIN routes
    <2>1. job.read[a] = 0 \/ Asked(Home[a])
      <3>1. CASE Home[a] \in job.changed
        BY <1>6, <1>7, <1>t, <3>1
      <3>2. CASE ~Outstanding(Home[a])
        BY <1>2, <1>5, <1>9, <1>t, <3>2 DEF Fits
      <3> QED
        BY <1>4, <3>1, <3>2
    <2> QED
      BY <1>3, <1>9, <2>1 DEF Fits, Plans
  <1> QED
    BY <1>8, <1>9

LEMMA PagedNext ==
    ASSUME ConfigsApart, Known2, Grown, Loads, Paged, Tables, SelectStep
    PROVE  Paged'
  <1>t. IsJob(job) /\ Loading
    BY DEF Known2, TypeInv, TypeOK
  <1>1. CASE Still
    <2>1. \A a : Fits(a) => Fits(a)'
      BY <1>1, <1>t, OutstandingKept, FitsKept DEF Still
    <2> QED
      BY <1>1, <2>1 DEF Still, Paged
  <1>2. CASE Taken
    <2>1. \A a : Fits(a) => Fits(a)'
      BY <1>2, <1>t, OutstandingKept, FitsKept DEF Taken
    <2> QED
      BY <1>2, <2>1 DEF Taken, Paged
  <1>3. CASE Reloads /\ loaded' # 0
    <2>1. \A a : Fits(a) => Fits(a)'
      BY <1>3, <1>t, OutstandingKept, FitsKept DEF Reloads
    <2>2. UNCHANGED loaded \/ \A f : Outstanding(f)'
      BY <1>3 DEF Reloads, Outstanding
    <2>3. (\A f : Outstanding(f)') => \A a : Fits(a)'
      BY DEF Fits
    <2> QED
      BY <1>3, <2>1, <2>2, <2>3 DEF Reloads, Paged
  <1>4. CASE Reloads /\ loaded' = 0
    BY <1>4 DEF Reloads, Paged
  <1>5. CASE Walks \/ \E f \in Files : ReadsOne(f)
    <2>1. \A a : Fits(a) => Fits(a)'
      BY <1>5, <1>t, OutstandingKept, FitsKept DEF Walks, ReadsOne
    <2> QED
      BY <1>5, <2>1 DEF Walks, ReadsOne, Unmoved, Paged
  <1>6. CASE Plans
    <2>1. CASE job'.selective
      BY <1>6, <2>1, LeftOutFits DEF Plans, Paged
    <2>2. CASE ~job'.selective
      <3>1. \A a \in Artefacts : a \in job'.todo \/ lastDocs'[a] = 0
        <4>1. \A a \in Artefacts : a \in Docs
          BY ConstantsAssumption DEF Artefacts
        <4> QED
          BY <1>6, <2>2, <4>1 DEF Plans, Defined
      <3> QED
        BY <1>6, <2>2, <3>1 DEF Plans, Paged
    <2> QED
      BY <2>1, <2>2
  <1>7. CASE AllPages
    <2>1. \A a : Fits(a) => Fits(a)'
      BY <1>7, <1>t, OutstandingKept, FitsKept DEF AllPages
    <2> QED
      BY <1>7, <2>1 DEF AllPages, Paged
  <1>8. ASSUME NEW a \in Artefacts, Draws(a) PROVE Paged'
    <2>1. \A b : Fits(b) => Fits(b)'
      BY <1>8, <1>t, OutstandingKept, FitsKept DEF Draws
    <2>2. /\ job'.todo = job.todo \ {a} /\ job'.selective = job.selective
          /\ DOMAIN job'.routeMap = DOMAIN job.routeMap \cup {a}
      BY <1>8, <1>t DEF Draws, IsJob, NoJob, Updated
    <2> QED
      BY <1>8, <2>1, <2>2 DEF Draws, Paged
  <1>9. CASE Publishes
    <2>1. \A f : Outstanding(f) => Outstanding(f)'
      BY <1>9, <1>t, OutstandingKept
    <2>2. ASSUME NEW a \in DOMAIN job.routeMap PROVE Fits(a)'
      <3>1. a \in DOMAIN routes' /\ routes'[a] = job.routeMap[a]
        BY <1>9, <2>2 DEF Publishes, NewRoutes, Updated
      <3>2. \A d \in Reads(a) : job.routeMap[a].docs[d] = lastDocs[d]
        BY <2>2 DEF Tables, Table, Rendered
      <3> QED
        BY <1>9, <3>1, <3>2 DEF Publishes, Fits, Reads
    <2>3. ASSUME NEW a \in Artefacts, a \notin DOMAIN job.routeMap PROVE Fits(a)'
      <3>1. IF job.selective THEN Fits(a) ELSE lastDocs[a] = 0
        BY <1>9, <2>3 DEF Publishes, Paged
      <3>2. CASE job.selective
        <4>1. (a \in DOMAIN routes' <=> a \in DOMAIN routes)
              /\ (a \in DOMAIN routes => routes'[a] = routes[a])
          BY <1>9, <2>3, <3>2 DEF Publishes, NewRoutes, Updated
        <4> QED
          BY <1>9, <2>1, <3>1, <3>2, <4>1 DEF Publishes, Fits, Reads
      <3>3. CASE ~job.selective
        BY <1>9, <2>3, <3>1, <3>3 DEF Publishes, NewRoutes, Fits
      <3> QED
        BY <3>2, <3>3
    <2> QED
      BY <1>9, <2>2, <2>3 DEF Publishes, Paged
  <1> QED
    BY <1>1, <1>2, <1>3, <1>4, <1>5, <1>6, <1>7, <1>8, <1>9 DEF SelectStep

LEMMA TablesNext ==
    ASSUME Known2, Tables, SelectStep
    PROVE  Tables'
  <1>t. /\ IsJob(job) /\ Root \notin Artefacts
        /\ DOMAIN routes \subseteq Artefacts /\ DOMAIN job.routeMap \subseteq Artefacts
    BY ConstantsAssumption DEF Known2, TypeInv, TypeOK, IsJob, IsRoutes, Artefacts
  <1>r. pc # "render" => job.routeMap = NoRoutes
    BY DEF Known2, PluginInv
  <1>e. DOMAIN NoRoutes = {} /\ \A x : NoRoutes = Table({})
    BY DEF NoRoutes, Table
  <1>1. ASSUME UNCHANGED <<lastDocs, loaded, routes, contexts>>, job'.routeMap = job.routeMap
        PROVE  Tables'
    <2>1. \A p : InClients(p)' = InClients(p)
      BY <1>1, PagesKept
    <2>2. Table(DOMAIN job.routeMap)' = Table(DOMAIN job.routeMap)
      BY <1>1 DEF Table, Rendered, Reads
    <2> QED
      BY <1>1, <2>1, <2>2 DEF Tables
  <1>2. ASSUME UNCHANGED <<routes, contexts>>, job.routeMap = NoRoutes, job'.routeMap = NoRoutes
        PROVE  Tables'
    <2>1. NoRoutes = Table(DOMAIN NoRoutes)'
      BY DEF NoRoutes, Table
    <2> QED
      BY <1>e, <1>2, <2>1 DEF Tables
  <1>3. CASE Still
    BY <1>1, <1>3 DEF Still
  <1>4. CASE Taken
    BY <1>2, <1>4, <1>r DEF Taken
  <1>5. CASE Reloads
    <2>1. job.routeMap = NoRoutes /\ job'.routeMap = NoRoutes
      BY <1>5, <1>r DEF Reloads, NoJob
    <2> QED
      BY <1>2, <1>5, <2>1 DEF Reloads
  <1>6. CASE Walks \/ \E f \in Files : ReadsOne(f)
    <2>1. job'.routeMap = job.routeMap
      BY <1>6, <1>t DEF Walks, ReadsOne, IsJob, NoJob
    <2> QED
      BY <1>1, <1>6, <2>1 DEF Walks, ReadsOne, Unmoved
  <1>7. CASE Plans
    BY <1>2, <1>7, <1>r DEF Plans
  <1>8. CASE AllPages
    <2>1. /\ \A p : InClients(p) => InClients(p)'
          /\ \A a \in Artefacts : a \in DOMAIN contexts =>
                a \in DOMAIN contexts' /\ contexts'[a] = contexts[a]
      BY <1>8, <1>t, Broadcast DEF AllPages, Unmoved, BroadcastContent, Updated
    <2>2. job.routeMap = NoRoutes /\ UNCHANGED <<job, routes>>
      BY <1>8, <1>r DEF AllPages
    <2>3. NoRoutes = Table(DOMAIN NoRoutes)'
      BY DEF NoRoutes, Table
    <2> QED
      BY <1>e, <1>t, <2>1, <2>2, <2>3 DEF Tables
  <1>9. ASSUME NEW a \in Artefacts, Draws(a) PROVE Tables'
    <2>1. job'.routeMap = Updated(job.routeMap, [p \in {a} |-> Rendered(a, lastDocs, loaded)])
      BY <1>9, <1>t DEF Draws, IsJob, NoJob
    <2>2. job'.routeMap = Table(DOMAIN job.routeMap \cup {a})
      BY <2>1, TableGrows DEF Tables
    <2>3. DOMAIN job'.routeMap = DOMAIN job.routeMap \cup {a}
      BY <2>2 DEF Table
    <2>4. \A S : Table(S)' = Table(S)
      BY <1>9, PagesKept DEF Draws, Unmoved
    <2>5. InClients(a)' /\ \A p : InClients(p) => InClients(p)'
      BY <1>9, Broadcast DEF Draws, Unmoved
    <2>6. \A b \in DOMAIN routes \ DOMAIN job'.routeMap :
             b \in DOMAIN contexts' /\ contexts'[b] = routes[b]
      BY <1>9, <2>3 DEF Draws, BroadcastContent, Updated, Tables
    <2>7. job'.routeMap = Table(DOMAIN job.routeMap)'
      <3>1. Table(DOMAIN job.routeMap)' = Table(DOMAIN job'.routeMap)
        BY <1>9 DEF Draws, Unmoved, Table, Rendered, Reads
      <3> QED
        BY <2>2, <2>3, <3>1
    <2> QED
      BY <1>9, <2>3, <2>5, <2>6, <2>7 DEF Draws, Tables
  <1>10. CASE Publishes
    <2>1. routes' = [a \in DOMAIN routes' |-> routes'[a]]
      <3>1. CASE job.selective
        BY <1>10, <3>1 DEF Publishes, NewRoutes, Updated
      <3>2. CASE ~job.selective
        BY <1>10, <3>2 DEF Publishes, NewRoutes, Tables, Table
      <3> QED
        BY <3>1, <3>2
    <2>2. \A a \in DOMAIN job.routeMap :
             a \in DOMAIN contexts /\ contexts[a] = job.routeMap[a]
      BY DEF Tables, InClients, Table
    <2>3. \A a \in DOMAIN routes' : a \in DOMAIN contexts /\ contexts[a] = routes'[a]
      BY <1>10, <2>2 DEF Publishes, NewRoutes, Updated, Tables
    <2>4. job'.routeMap = NoRoutes
      BY <1>10 DEF Publishes, NoJob
    <2>5. NoRoutes = Table(DOMAIN NoRoutes)'
      BY DEF NoRoutes, Table
    <2> QED
      BY <1>10, <1>e, <2>1, <2>3, <2>4, <2>5 DEF Publishes, Tables
  <1> QED
    BY <1>3, <1>4, <1>5, <1>6, <1>7, <1>8, <1>9, <1>10 DEF SelectStep

LEMMA SelectInit == Steady /\ Init => SelectInv
  <1> SUFFICES ASSUME Steady, Init PROVE SelectInv
    OBVIOUS
  <1>1. Known2
    BY TypeInit, SaveInit, PluginInit DEF Known2
  <1>2. Healthy /\ Marks
    BY DEF Init, Healthy, Marks, NoJob
  <1>3. Grown
    BY DEF Init, Grown, NoJob, NoRoutes
  <1>4. \A f : Outstanding(f)
    BY DEF Init, Outstanding, NoJob
  <1>5. Loads /\ Paged
    BY <1>4 DEF Init, Loads, Paged, Fits
  <1>6. Tables
    BY DEF Init, Tables, NoJob, NoRoutes, Table
  <1> QED
    BY <1>1, <1>2, <1>3, <1>5, <1>6 DEF SelectInv

LEMMA SelectNext ==
    Steady /\ SelectInv /\ TypeInv' /\ [Next]_vars /\ [~Drops]_vars => SelectInv'
  <1> SUFFICES ASSUME Steady, SelectInv, TypeInv', [Next]_vars, [~Drops]_vars
               PROVE  SelectInv'
    OBVIOUS
  <1>1. Known2'
    <2>1. Ordinary /\ "fail-hook" \notin Moves
      BY DEF Steady, Ordinary
    <2>2. TypeOK'
      BY DEF TypeInv
    <2> QED
      BY <2>1, <2>2, SaveNext, PluginStep DEF SelectInv, Known2
  <1>2. SelectStep
    BY SelectSteps DEF SelectInv
  <1>3. Healthy' /\ Marks' /\ Grown' /\ Loads' /\ Tables'
    BY <1>2, HealthyNext, MarksNext, GrownNext, LoadsNext, TablesNext DEF SelectInv
  <1>4. Paged'
    BY <1>2, PagedNext DEF SelectInv, Steady
  <1> QED
    BY <1>1, <1>3, <1>4 DEF SelectInv

\* A preview with incremental refreshes whose request queue never overflows:
\* however the saves fall into the window and between the reads of a load, at
\* rest it has exactly one page for each artefact on disk, of the files and the
\* plugin as they are, and the clients have the same pages - also those that the
\* last refreshes left out (Run: "unaffected routes keep their cached content").
THEOREM PreviewRoutesFresh ==
    Steady => (Spec /\ [][~Drops]_vars => []RoutesFresh)
  <1> SUFFICES ASSUME Steady PROVE Spec /\ [][~Drops]_vars => []RoutesFresh
    OBVIOUS
  <1>1. Spec => []TypeInv
    BY TypeInit, TypeNext, PTL DEF Spec
  <1>2. SelectInv /\ TypeInv' /\ [Next]_vars /\ [~Drops]_vars => SelectInv'
    BY SelectNext
  <1>3. Init => SelectInv
    BY SelectInit
  <1>4. Spec /\ [][~Drops]_vars => []SelectInv
    BY <1>1, <1>2, <1>3, PTL DEF Spec
  <1>5. TypeOK /\ PluginAge /\ SelectInv => RoutesFresh
    <2> SUFFICES ASSUME TypeOK, PluginAge, SelectInv, AtRest PROVE RoutesFresh
      BY DEF RoutesFresh
    <2>1. \A f : ~Outstanding(f)
      BY DEF AtRest, Outstanding, Asked
    <2>2. pc = "idle" /\ job.routeMap = NoRoutes /\ loaded # 0 /\ ~stale
      BY DEF AtRest, SelectInv, Known2, PluginInv, Marks
    <2>3. loaded = build
      BY <2>2, ConstantsAssumption DEF AtRest, PluginAge, TypeOK
    <2>4. lastDocs = disk
      <3>1. \A d \in Docs : lastDocs[d] = disk[d]
        BY <2>1, <2>2 DEF SelectInv, Loads
      <3> QED
        BY <3>1 DEF TypeOK, Content
    <2>5. \A a \in Artefacts : Fits(a)
      BY <2>2 DEF SelectInv, Paged
    <2>6. DOMAIN routes = Artefacts \cap Defined(disk)
      <3>1. Artefacts \subseteq Docs /\ DOMAIN routes \subseteq Artefacts
        BY ConstantsAssumption DEF Artefacts, TypeOK, IsRoutes
      <3> QED
        BY <2>1, <2>4, <2>5, <3>1 DEF SelectInv, Grown, Fits, Defined
    <2>7. ASSUME NEW a \in DOMAIN routes PROVE routes[a] = Wanted(a)
      <3>1. routes[a] \in Page(a) /\ a \in Artefacts
        BY DEF TypeOK, IsRoutes
      <3>2. routes[a].plugin = build
        BY <2>2, <2>3 DEF SelectInv, Known2, PluginInv
      <3>3. routes[a].docs = [d \in Reads(a) |-> disk[d]]
        <4>1. \A d \in Reads(a) : routes[a].docs[d] = disk[d]
          BY <2>1, <2>4, <2>5, <3>1 DEF Fits
        <4> QED
          BY <3>1, <4>1 DEF Page
      <3> QED
        BY <3>1, <3>2, <3>3 DEF Page, Wanted, Rendered
    <2>8. routes = [a \in Artefacts \cap Defined(disk) |-> Wanted(a)]
      BY <2>6, <2>7 DEF SelectInv, Tables
    <2>9. \A a \in DOMAIN routes : a \in DOMAIN contexts /\ contexts[a] = routes[a]
      BY <2>2 DEF SelectInv, Tables, NoRoutes
    <2> QED
      BY <2>8, <2>9 DEF RoutesFresh
  <1> QED
    BY <1>4, <1>5, PluginAgeHolds, PTL
-----------------------------------------------------------------------------
(* The loop implements Preview.                                              *)

\* A version of a document that is no newer than what was last saved, read or
\* loaded, where these still have the document.
Past(v, d) ==
    /\ v <= edits + 1
    /\ Promise!Follows(disk[d], v) /\ Promise!Follows(job.read[d], v)
    /\ Promise!Follows(lastDocs[d], v)

PastPage(p, page) ==
    /\ page.plugin <= build
    /\ loaded # 0 => page.plugin <= loaded
    /\ \A d \in Reads(p) : Past(page.docs[d], d)

\* The loaded documents and every page that is served or was sent are past.  What
\* the running load has read may be newer than that, and older than the disk.
Ages ==
    /\ \A d \in Docs :
         /\ disk[d] <= edits + 1 /\ job.read[d] <= edits + 1
         /\ Promise!Follows(disk[d], job.read[d])
         /\ Past(lastDocs[d], d)
    /\ \A p \in DOMAIN routes : PastPage(p, routes[p])
    /\ \A p \in DOMAIN contexts : PastPage(p, contexts[p])

\* How versions change: a save writes one newer than all others or drops the
\* document, reading takes the one on disk, a load those that were read.
Saving ==
    /\ edits' = edits + 1
    /\ \A d \in Docs : disk'[d] \in {disk[d], 0, edits + 2}
    /\ UNCHANGED <<job, lastDocs, build, loaded>>

Reading ==
    /\ UNCHANGED <<edits, disk>>
    /\ \A d \in Docs : job'.read[d] \in {job.read[d], 0, disk[d]}
    /\ lastDocs' = lastDocs \/ lastDocs' = job.read
    /\ build' \in {build, build + 1} /\ loaded' \in {loaded, 0, build}

LEMMA SavingOrReading ==
    ASSUME TypeInv, [Next]_vars
    PROVE  Saving \/ Reading
  <1>t. /\ disk \in Content /\ lastDocs \in Content /\ IsJob(job) /\ job.read \in Content
        /\ \A d \in Docs : NoJob.read[d] = 0
    BY DEF TypeInv, TypeOK, IsJob, NoJob
  <1>f. ASSUME NEW e \in BOOLEAN, Finish(e)
        PROVE  \A d \in Docs : job'.read[d] \in {job.read[d], 0, disk[d]}
    BY <1>f, <1>t DEF Finish
  <1>1. ASSUME NEW f \in Files, Save(f) PROVE Saving
    <2>1. PICK d \in DocsIn(f) : \/ disk' = [disk EXCEPT ![d] = edits + 2]
                                 \/ disk' = [disk EXCEPT ![d] = 0]
      BY <1>1 DEF Save
    <2>2. \A e \in Docs : disk'[e] \in {disk[e], 0, edits + 2}
      BY <1>t, <2>1 DEF Content
    <2> QED
      BY <1>1, <2>2 DEF Save, Saving, pluginVars
  <1>2. ASSUME NEW f \in Files, DeleteFile(f) PROVE Saving
    BY <1>2, <1>t DEF DeleteFile, Saving, pluginVars
  <1>3. CASE RebuildPlugin
    BY <1>3 DEF RebuildPlugin, Reading, pluginVars
  <1>4. ASSUME UNCHANGED <<diskVars, loaded, lastDocs>>,
               \A d \in Docs : job'.read[d] \in {job.read[d], 0, disk[d]}
        PROVE  Reading
    BY <1>4 DEF Reading, diskVars
  <1>5. CASE StartWatcher \/ Process \/ Poll \/ Receive
    BY <1>4, <1>5 DEF StartWatcher, Process, Poll, Receive, pluginVars
  <1>6. CASE TimerFires
    <2>1. \A d \in Docs : job'.read[d] \in {job.read[d], 0, disk[d]}
      <3>1. job' = job \/ job'.read = NoJob.read
        BY <1>6 DEF TimerFires, NoJob
      <3> QED
        BY <1>t, <3>1
    <2> QED
      BY <1>4, <1>6, <2>1 DEF TimerFires, pluginVars
  <1>7. ASSUME Proceed PROVE \A d \in Docs : job'.read[d] \in {job.read[d], 0, disk[d]}
    <2>1. CASE job' = [job EXCEPT !.changed = AfterReload(@, stale')]
      BY <1>t, <2>1 DEF IsJob, NoJob
    <2> QED
      BY <1>f, <1>7, <2>1 DEF Proceed
  <1>8. CASE Reload
    BY <1>4, <1>7, <1>8 DEF Reload
  <1>9. CASE LoadPlugins
    BY <1>7, <1>9 DEF LoadPlugins, Reading, diskVars
  <1>10. CASE Hook
    <2>1. CASE job' = [job EXCEPT !.left = Files]
      BY <1>4, <1>10, <1>t, <2>1 DEF Hook, IsJob, NoJob
    <2> QED
      BY <1>4, <1>10, <1>f, <2>1 DEF Hook, Succeed
  <1>11. ASSUME NEW f \in Files, ReadFile(f) PROVE Reading
    <2>1. CASE health[f] = "broken"
      BY <1>4, <1>11, <1>f, <2>1 DEF ReadFile, pluginVars
    <2>2. CASE health[f] # "broken"
      <3>1. job'.read = [d \in Docs |-> IF Home[d] = f THEN disk[d] ELSE job.read[d]]
        BY <1>11, <1>t, <2>2 DEF ReadFile, IsJob, NoJob
      <3> QED
        BY <1>4, <1>11, <3>1 DEF ReadFile, pluginVars
    <2> QED
      BY <2>1, <2>2
  <1>12. CASE Plan
    <2>1. CASE Finish(TRUE)
      BY <1>12, <1>f, <2>1 DEF Plan, Reading, diskVars, pluginVars
    <2>2. CASE ~Finish(TRUE)
      <3>1. job'.read = job.read
        BY <1>12, <1>t, <2>2 DEF Plan, IsJob, NoJob
      <3> QED
        BY <1>12, <3>1 DEF Plan, Reading, diskVars, pluginVars
    <2> QED
      BY <2>1, <2>2
  <1>13. CASE RenderAllPages
    BY <1>4, <1>13, <1>f DEF RenderAllPages, pluginVars
  <1>14. ASSUME NEW a \in Artefacts, RenderReport(a) \/ RenderDocument(a) PROVE Reading
    <2>1. job'.read = job.read \/ Finish(TRUE)
      BY <1>14, <1>t DEF RenderReport, RenderDocument, Render, IsJob, NoJob
    <2> QED
      BY <1>4, <1>14, <1>f, <2>1 DEF RenderReport, RenderDocument, pluginVars
  <1>15. CASE Publish
    BY <1>4, <1>15, <1>f DEF Publish, Succeed
  <1>16. CASE UNCHANGED vars
    BY <1>4, <1>16 DEF vars, pluginVars
  <1> QED
    BY <1>1, <1>2, <1>3, <1>5, <1>6, <1>8, <1>9, <1>10, <1>11, <1>12, <1>13, <1>14, <1>15,
       <1>16
    DEF Next, Environment, Loop, Run

\* What is past stays so.
LEMMA PastKept ==
    ASSUME TypeInv, Ages, Saving \/ Reading,
           NEW d \in Docs, NEW v \in Nat, Past(v, d)
    PROVE  Past(v, d)'
  <1>t. /\ edits \in Nat /\ disk[d] \in Nat /\ job.read[d] \in Nat /\ lastDocs[d] \in Nat
    BY ConstantsAssumption DEF TypeInv, TypeOK, IsJob, Content, Versions
  <1>1. CASE Saving
    BY <1>1, <1>t DEF Saving, Past, Promise!Follows
  <1>2. CASE Reading
    BY <1>2, <1>t DEF Reading, Past, Promise!Follows
  <1> QED
    BY <1>1, <1>2

LEMMA PastPageKept ==
    ASSUME TypeInv, PluginAge, Ages, Saving \/ Reading,
           NEW p \in Paths, NEW page \in Page(p), PastPage(p, page)
    PROVE  PastPage(p, page)'
  <1>t. /\ build \in Nat /\ loaded \in Nat /\ page.plugin \in Nat /\ loaded <= build
        /\ page.docs \in [Reads(p) -> Versions]
    BY ConstantsAssumption DEF TypeInv, TypeOK, Page, PluginAge
  <1>1. \A d \in Reads(p) : Past(page.docs[d], d)'
    <2> SUFFICES ASSUME NEW d \in Reads(p) PROVE Past(page.docs[d], d)'
      OBVIOUS
    <2>1. d \in Docs /\ page.docs[d] \in Nat
      BY <1>t, ReadsType, ConstantsAssumption DEF Versions
    <2> QED
      BY <2>1, PastKept DEF PastPage
  <1>2. page.plugin <= build' /\ (loaded' # 0 => page.plugin <= loaded')
    <2>1. CASE Saving
      BY <1>t, <2>1 DEF Saving, PastPage
    <2>2. CASE Reading
      BY <1>t, <2>2 DEF Reading, PastPage
    <2> QED
      BY <2>1, <2>2
  <1>3. Reads(p)' = Reads(p)
    BY DEF Reads
  <1> QED
    BY <1>1, <1>2, <1>3 DEF PastPage

\* A page that is rendered now is past from the start.
LEMMA RenderedPast ==
    ASSUME TypeInv, PluginAge, Ages, NEW p \in Paths
    PROVE  PastPage(p, Rendered(p, lastDocs, loaded))
  <1>1. loaded <= loaded /\ loaded <= build
    BY ConstantsAssumption DEF TypeInv, TypeOK, PluginAge
  <1>2. \A d \in Reads(p) : Past(lastDocs[d], d)
    BY ReadsType DEF Ages
  <1> QED
    BY <1>1, <1>2 DEF PastPage, Rendered

\* What the running refresh has rendered.  A full one has rendered every artefact
\* of the load that is not left to do, unless it could skip it.
Composing ==
    /\ ~Incremental => AllOrNothing
    /\ pc # "render" => job.routeMap = NoRoutes
    /\ job.routeMap = Table(DOMAIN job.routeMap)
    /\ pc \in {"all-pages", "render"} =>
         /\ job.todo \subseteq Wanting
         /\ DOMAIN job.routeMap \subseteq Wanting
         /\ ~job.selective => Wanting \subseteq job.todo \cup DOMAIN job.routeMap \cup Skippable

\* Without --incremental nobody asks for less than everything.
LEMMA AllOrNothingStep ==
    ASSUME ~Incremental, TypeOK, AllOrNothing, [Next]_vars
    PROVE  AllOrNothing'
  <1>t. /\ IsJob(job) /\ NoJob.changed = {Nil} /\ ~NoJob.selective
        /\ DOMAIN NoJob = DOMAIN job
    BY DEF TypeOK, NoJob, IsJob
  <1>n. ASSUME UNCHANGED <<queue, pending>>, Nil \in job'.changed, ~job'.selective
        PROVE  AllOrNothing'
    BY <1>n DEF AllOrNothing
  <1>s. ASSUME UNCHANGED <<queue, pending, job>> PROVE AllOrNothing'
    BY <1>s DEF AllOrNothing
  <1>f. ASSUME NEW e \in BOOLEAN, Finish(e), UNCHANGED <<queue, pending>> PROVE AllOrNothing'
    BY <1>f, <1>n, <1>t DEF Finish
  <1>1. ASSUME NEW f \in Files, Save(f) \/ DeleteFile(f) PROVE AllOrNothing'
    BY <1>1, <1>s DEF Save, DeleteFile
  <1>2. CASE RebuildPlugin \/ StartWatcher
    BY <1>2, <1>s DEF RebuildPlugin, StartWatcher, loopVars
  <1>3. CASE Process \/ Poll
    <2>1. Enqueue(Nil) \/ UNCHANGED queue
      BY <1>3 DEF Process, Poll
    <2>2. \A i \in 1 .. Len(queue') : queue'[i] = Nil
      BY <2>1, NilEnqueued DEF AllOrNothing
    <2> QED
      BY <1>3, <2>2 DEF Process, Poll, AllOrNothing
  <1>4. CASE Receive
    <2>1. queue \in Seq(Request) /\ queue # <<>>
      BY <1>4 DEF Receive, TypeOK
    <2>2. Head(queue) = Nil /\ \A i \in 1 .. Len(Tail(queue)) : Tail(queue)[i] = Nil
      BY <2>1 DEF AllOrNothing
    <2> QED
      BY <1>4, <2>2 DEF Receive, AllOrNothing
  <1>5. CASE TimerFires
    <2>1. CASE pending = {}
      BY <1>5, <2>1, <1>s DEF TimerFires
    <2>2. CASE pending # {}
      <3>1. MergeRequests(pending) = {Nil}
        BY <2>2 DEF AllOrNothing, MergeRequests
      <3> QED
        BY <1>5, <2>2, <3>1 DEF TimerFires, AllOrNothing, NoJob
    <2> QED
      BY <2>1, <2>2
  <1>6. CASE Reload \/ LoadPlugins
    <2>1. CASE job' = [job EXCEPT !.changed = AfterReload(@, stale')]
      <3>1. Nil \in job'.changed /\ ~job'.selective
        BY <1>t, <2>1 DEF AfterReload, AllOrNothing, NoJob
      <3> QED
        BY <1>6, <3>1, <1>n DEF Reload, LoadPlugins, loopVars
    <2> QED
      BY <1>6, <1>f, <1>s, <2>1 DEF Reload, LoadPlugins, Proceed, loopVars
  <1>7. CASE Hook
    <2>1. CASE job' = [job EXCEPT !.left = Files]
      <3>1. Nil \in job'.changed /\ ~job'.selective
        BY <1>t, <2>1 DEF AllOrNothing, NoJob
      <3> QED
        BY <1>7, <3>1, <1>n DEF Hook, loopVars
    <2> QED
      BY <1>7, <1>f, <2>1 DEF Hook, Succeed, loopVars
  <1>8. ASSUME NEW f \in Files, ReadFile(f) PROVE AllOrNothing'
    <2>1. CASE health[f] = "broken"
      BY <1>8, <1>f, <2>1 DEF ReadFile, loopVars
    <2>2. CASE health[f] # "broken"
      <3>1. Nil \in job'.changed /\ ~job'.selective
        BY <1>8, <1>t, <2>2 DEF ReadFile, AllOrNothing, NoJob
      <3> QED
        BY <1>8, <3>1, <1>n DEF ReadFile, loopVars
    <2> QED
      BY <2>1, <2>2
  <1>9. CASE Plan
    <2>1. CASE job.duplicate
      BY <1>9, <1>f, <2>1 DEF Plan, loopVars
    <2>2. CASE ~job.duplicate
      <3>1. ~CanSelect(job.read, job.changed)
        BY DEF CanSelect, AllOrNothing
      <3>2. job' = [job EXCEPT !.todo = Artefacts \cap Defined(job.read)]
        BY <1>9, <2>2, <3>1 DEF Plan
      <3>3. Nil \in job'.changed /\ ~job'.selective
        BY <1>t, <3>2 DEF AllOrNothing, NoJob
      <3> QED
        BY <1>9, <3>3, <1>n DEF Plan, loopVars
    <2> QED
      BY <2>1, <2>2
  <1>10. CASE RenderAllPages
    BY <1>10, <1>f, <1>s DEF RenderAllPages, loopVars
  <1>11. ASSUME NEW a \in Artefacts, RenderReport(a) \/ RenderDocument(a)
         PROVE  AllOrNothing'
    <2>1. CASE job'.changed = job.changed /\ job'.selective = job.selective
      BY <1>11, <2>1, <1>n DEF RenderReport, RenderDocument, AllOrNothing, loopVars
    <2>2. \/ Finish(TRUE) /\ UNCHANGED loopVars
          \/ job'.changed = job.changed /\ job'.selective = job.selective
      BY <1>11, <1>t DEF RenderReport, RenderDocument, Render, NoJob
    <2> QED
      BY <2>1, <2>2, <1>f DEF loopVars
  <1>12. CASE Publish
    BY <1>12, <1>f DEF Publish, Succeed, loopVars
  <1>13. CASE UNCHANGED vars
    BY <1>13, <1>s DEF vars, loopVars
  <1> QED
    BY <1>1, <1>2, <1>3, <1>4, <1>5, <1>6, <1>7, <1>8, <1>9, <1>10, <1>11, <1>12, <1>13
    DEF Next, Environment, Loop, Run

\* The steps in front of the render, and the end of a refresh.
LEMMA ComposingStarts ==
    ASSUME ~Incremental => AllOrNothing', job'.routeMap = NoRoutes,
           pc' \notin {"all-pages", "render"}
    PROVE  Composing'
  <1>1. NoRoutes = Table(DOMAIN NoRoutes)'
    BY DEF Table, NoRoutes
  <1> QED
    BY <1>1 DEF Composing

LEMMA ComposingKept ==
    ASSUME Composing, ~Incremental => AllOrNothing', UNCHANGED <<job, lastDocs, loaded>>,
           \/ pc' = pc
           \/ pc' = "render" /\ pc = "all-pages"
           \/ pc # "render" /\ pc' \notin {"all-pages", "render"}
    PROVE  Composing'
  <1>1. Wanting' = Wanting /\ Table(DOMAIN job.routeMap)' = Table(DOMAIN job.routeMap)
    BY PagesKept DEF Table
  <1> QED
    BY <1>1 DEF Composing, Skippable

LEMMA ComposingStep == TypeInv /\ Composing /\ TypeInv' /\ [Next]_vars => Composing'
  <1> SUFFICES ASSUME TypeInv, Composing, TypeInv', [Next]_vars PROVE Composing'
    OBVIOUS
  <1>t. /\ IsJob(job) /\ NoJob.routeMap = NoRoutes
        /\ pc # "render" => job.routeMap = NoRoutes
    BY DEF TypeInv, TypeOK, Composing, NoJob
  <1>a. ~Incremental => AllOrNothing'
    BY AllOrNothingStep DEF TypeInv, Composing
  <1>f. ASSUME NEW e \in BOOLEAN, Finish(e) PROVE Composing'
    BY <1>a, <1>f, <1>t, ComposingStarts DEF Finish
  <1>r. ASSUME job'.routeMap = job.routeMap, pc # "render",
               pc' \notin {"all-pages", "render"}
        PROVE  Composing'
    BY <1>a, <1>r, <1>t, ComposingStarts
  <1>1. ASSUME NEW f \in Files, Save(f) \/ DeleteFile(f) PROVE Composing'
    BY <1>1, <1>a, ComposingKept DEF Save, DeleteFile, pluginVars
  <1>2. CASE RebuildPlugin \/ StartWatcher \/ Process \/ Poll \/ Receive
    BY <1>2, <1>a, ComposingKept
    DEF RebuildPlugin, StartWatcher, Process, Poll, Receive, pluginVars
  <1>3. CASE TimerFires
    <2>1. CASE pending = {}
      BY <1>3, <1>a, <2>1, ComposingKept DEF TimerFires, pluginVars
    <2>2. CASE pending # {}
      <3>1. job'.routeMap = NoRoutes /\ pc' = "reload"
        BY <1>3, <2>2 DEF TimerFires, NoJob
      <3> QED
        BY <1>a, <3>1, ComposingStarts
    <2> QED
      BY <2>1, <2>2
  <1>4. CASE Reload \/ LoadPlugins
    <2>1. CASE Proceed
      <3>1. CASE loaded' # 0
        <4>1. job'.routeMap = job.routeMap /\ pc' = "hook"
          BY <1>t, <2>1, <3>1 DEF Proceed, IsJob, NoJob
        <4> QED
          BY <1>4, <1>r, <4>1 DEF Reload, LoadPlugins
      <3> QED
        BY <1>f, <2>1, <3>1 DEF Proceed
    <2>2. CASE ~Proceed
      BY <1>4, <1>r, <2>2 DEF Reload, LoadPlugins
    <2> QED
      BY <2>1, <2>2
  <1>5. CASE Hook
    <2>1. CASE job' = [job EXCEPT !.left = Files] /\ pc' = "read"
      <3>1. job'.routeMap = job.routeMap
        BY <1>t, <2>1 DEF IsJob, NoJob
      <3> QED
        BY <1>5, <1>r, <2>1, <3>1 DEF Hook
    <2> QED
      BY <1>5, <1>f, <2>1 DEF Hook, Succeed
  <1>6. ASSUME NEW f \in Files, ReadFile(f) PROVE Composing'
    <2>1. CASE health[f] = "broken"
      BY <1>6, <1>f, <2>1 DEF ReadFile
    <2>2. CASE health[f] # "broken"
      <3>1. job'.routeMap = job.routeMap /\ pc = "read" /\ pc' = "read"
        BY <1>6, <1>t, <2>2 DEF ReadFile, IsJob, NoJob
      <3> QED
        BY <1>r, <3>1
    <2> QED
      BY <2>1, <2>2
  <1>7. CASE Plan
    <2>1. CASE Finish(TRUE)
      BY <1>f, <2>1
    <2>2. CASE ~Finish(TRUE)
      <3> DEFINE seeds == NodesByFile(job.read, job.changed)
      <3>1. /\ job'.routeMap = NoRoutes /\ pc' \in {"all-pages", "render"}
            /\ lastDocs' = job.read
            /\ \/ job'.selective /\ job'.todo = AffectedArtefacts(job.read, seeds)
               \/ job'.todo = Artefacts \cap Defined(job.read)
        BY <1>7, <1>t, <2>2 DEF Plan, IsJob, NoJob
      <3>2. Wanting' = Artefacts \cap Defined(job.read)
        BY <3>1 DEF Wanting
      <3>3. AffectedArtefacts(job.read, seeds) \subseteq Wanting'
        BY <3>2 DEF AffectedArtefacts, GraphDocs
      <3>4. DOMAIN NoRoutes = {} /\ NoRoutes = Table({})'
        BY DEF NoRoutes, Table
      <3>5. pc' = "render" => job'.selective
        BY <1>7, <1>t, <2>2 DEF Plan, IsJob, NoJob
      <3> QED
        BY <1>a, <3>1, <3>2, <3>3, <3>4, <3>5 DEF Composing
    <2> QED
      BY <2>1, <2>2
  <1>8. CASE RenderAllPages
    BY <1>8, <1>a, <1>f, ComposingKept DEF RenderAllPages, pluginVars
  <1>9. ASSUME NEW a \in Artefacts, Render(a), pc = "render", a \in job.todo,
               UNCHANGED <<lastDocs, loaded>>
        PROVE  Composing'
    <2>1. /\ job'.todo = job.todo \ {a} /\ job'.selective = job.selective
          /\ job'.routeMap
               = Updated(job.routeMap, [p \in {a} |-> Rendered(a, lastDocs, loaded)])
          /\ pc' = pc
      BY <1>9, <1>t DEF Render, IsJob, NoJob
    <2>2. Wanting' = Wanting /\ \A S : Table(S)' = Table(S)
      BY <1>9, PagesKept
    <2>3. PICK S : S = DOMAIN job.routeMap \cup {a}
      OBVIOUS
    <2>4. DOMAIN job'.routeMap = S
      BY <2>1, <2>3 DEF Updated
    <2>5. job'.routeMap = Table(S)
      BY <2>1, <2>3, TableGrows DEF Composing
    <2>6. job'.routeMap = Table(DOMAIN job.routeMap)'
      <3>1. Table(DOMAIN job.routeMap)' = Table(S)'
        BY <2>4 DEF Table
      <3> QED
        BY <2>2, <2>5, <3>1
    <2> QED
      BY <1>9, <1>a, <2>1, <2>2, <2>3, <2>4, <2>6 DEF Composing, Skippable
  <1>10. ASSUME NEW a \in Artefacts, RenderReport(a) PROVE Composing'
    BY <1>9, <1>10, <1>f DEF RenderReport, pluginVars
  <1>11. ASSUME NEW a \in Artefacts, RenderDocument(a) PROVE Composing'
    <2>1. CASE Render(a)
      BY <1>9, <1>11, <2>1 DEF RenderDocument, pluginVars
    <2>2. CASE ~Render(a)
      <3>1. /\ job'.todo = job.todo \ {a} /\ job'.selective = job.selective
            /\ job'.routeMap = job.routeMap /\ pc' = pc /\ pc = "render"
            /\ "fail-document" \in Moves /\ UNCHANGED <<lastDocs, loaded>>
        BY <1>11, <1>t, <2>2 DEF RenderDocument, IsJob, NoJob, pluginVars
      <3>2. a \in Documents
        BY <1>11 DEF RenderDocument, Artefacts
      <3>3. Wanting' = Wanting /\ Table(DOMAIN job.routeMap)' = Table(DOMAIN job.routeMap)
        BY <3>1, PagesKept DEF Table
      <3> QED
        BY <1>a, <3>1, <3>2, <3>3 DEF Composing, Skippable
    <2> QED
      BY <2>1, <2>2
  <1>12. CASE Publish
    BY <1>12, <1>f DEF Publish, Succeed
  <1>13. CASE UNCHANGED vars
    BY <1>13, <1>a, ComposingKept DEF vars, pluginVars
  <1> QED
    BY <1>1, <1>2, <1>3, <1>4, <1>5, <1>6, <1>7, <1>8, <1>10, <1>11, <1>12, <1>13
    DEF Next, Environment, Loop, Run

\* Pages change to what is rendered at that moment.
Repaged(old, new) ==
    \A p \in DOMAIN new :
        \/ p \in DOMAIN old /\ new[p] = old[p]
        \/ p \in Paths /\ new[p] = Rendered(p, lastDocs, loaded)

LEMMA Broadcasts ==
    ASSUME NEW p \in Paths, BroadcastContent(p, Rendered(p, lastDocs, loaded))
    PROVE  Repaged(contexts, contexts')
  BY DEF BroadcastContent, Updated, Repaged

LEMMA RepagedStep ==
    ASSUME TypeInv, Composing, [Next]_vars
    PROVE  Repaged(routes, routes') /\ Repaged(contexts, contexts')
  <1>u. \A table : Repaged(table, table)
    BY DEF Repaged
  <1>1. CASE RenderAllPages
    <2>1. Root \in Paths
      BY DEF Paths
    <2> QED
      BY <1>1, <1>u, <2>1, Broadcasts DEF RenderAllPages
  <1>2. ASSUME NEW a \in Artefacts, RenderReport(a) \/ RenderDocument(a)
        PROVE  Repaged(routes, routes') /\ Repaged(contexts, contexts')
    <2>1. a \in Paths
      BY DEF Paths
    <2> QED
      BY <1>2, <1>u, <2>1, Broadcasts DEF RenderReport, RenderDocument, Render
  <1>3. CASE Publish
    <2>1. job.routeMap = Table(DOMAIN job.routeMap) /\ DOMAIN job.routeMap \subseteq Paths
      BY DEF Composing, TypeInv, TypeOK, IsJob, IsRoutes, Paths
    <2>2. \A p \in DOMAIN job.routeMap :
             p \in Paths /\ job.routeMap[p] = Rendered(p, lastDocs, loaded)
      BY <2>1 DEF Table
    <2>3. Repaged(routes, NewRoutes)
      BY <2>2 DEF Repaged, NewRoutes, Updated
    <2> QED
      BY <1>3, <1>u, <2>3 DEF Publish
  <1>4. CASE UNCHANGED <<routes, contexts>>
    BY <1>4, <1>u
  <1>5. ASSUME NEW f \in Files, Save(f) \/ DeleteFile(f) \/ ReadFile(f)
        PROVE  UNCHANGED <<routes, contexts>>
    BY <1>5 DEF Save, DeleteFile, ReadFile, serverVars
  <1>6. CASE RebuildPlugin \/ StartWatcher \/ Process \/ Poll \/ Receive \/ TimerFires
    BY <1>4, <1>6
    DEF RebuildPlugin, StartWatcher, Process, Poll, Receive, TimerFires, serverVars
  <1>7. CASE Reload \/ LoadPlugins \/ Hook \/ Plan \/ UNCHANGED vars
    BY <1>4, <1>7 DEF Reload, LoadPlugins, Hook, Plan, vars, serverVars
  <1> QED
    BY <1>1, <1>2, <1>3, <1>4, <1>5, <1>6, <1>7 DEF Next, Environment, Loop, Run

LEMMA AgesInit == Init => Ages
  BY ConstantsAssumption
  DEF Init, Ages, Past, NoJob, NoRoutes, Content, Versions, Promise!Follows

LEMMA AgesStep ==
    TypeInv /\ PluginAge /\ Composing /\ Ages /\ TypeInv' /\ [Next]_vars => Ages'
  <1> SUFFICES ASSUME TypeInv, PluginAge, Composing, Ages, TypeInv', [Next]_vars
               PROVE  Ages'
    OBVIOUS
  <1>s. Saving \/ Reading
    BY SavingOrReading
  <1>1. ASSUME NEW d \in Docs
        PROVE  /\ disk'[d] <= edits' + 1 /\ job'.read[d] <= edits' + 1
               /\ Promise!Follows(disk'[d], job'.read[d])
    <2>1. /\ edits \in Nat /\ disk[d] \in Nat /\ job.read[d] \in Nat
          /\ disk[d] <= edits + 1 /\ job.read[d] <= edits + 1
          /\ Promise!Follows(disk[d], job.read[d])
      BY ConstantsAssumption DEF TypeInv, TypeOK, IsJob, Content, Versions, Ages
    <2>2. CASE Saving
      BY <2>1, <2>2 DEF Saving, Promise!Follows
    <2>3. CASE Reading
      BY <2>1, <2>3 DEF Reading, Promise!Follows
    <2> QED
      BY <1>s, <2>2, <2>3
  <1>2. ASSUME NEW d \in Docs PROVE Past(lastDocs[d], d)'
    <2>1. lastDocs'[d] \in {lastDocs[d], job.read[d]}
      BY <1>s DEF Saving, Reading
    <2>2. lastDocs[d] \in Nat /\ job.read[d] \in Nat /\ edits \in Nat
      BY ConstantsAssumption DEF TypeInv, TypeOK, IsJob, Content, Versions
    <2>3. Past(lastDocs[d], d)
      BY DEF Ages
    <2>4. PICK v \in Nat : v = lastDocs'[d]
      BY <2>1, <2>2
    <2>5. CASE v = lastDocs[d]
      BY <1>s, <2>3, <2>4, <2>5, PastKept DEF Past
    <2>6. CASE v = job.read[d] /\ v # lastDocs[d]
      BY <1>1, <1>s, <2>2, <2>3, <2>4, <2>6 DEF Saving, Reading, Past, Promise!Follows, Ages
    <2> QED
      BY <2>1, <2>4, <2>5, <2>6
  <1>3. ASSUME NEW p \in Paths, NEW page \in Page(p),
               PastPage(p, page) \/ page = Rendered(p, lastDocs, loaded)
        PROVE  PastPage(p, page)'
    BY <1>3, <1>s, RenderedPast, PastPageKept
  <1>4. ASSUME NEW p \in DOMAIN routes' PROVE PastPage(p, routes[p])'
    <2>1. p \in Paths /\ routes'[p] \in Page(p)
      BY DEF TypeInv, TypeOK, IsRoutes, Paths, Page, Reads
    <2>2. PastPage(p, routes'[p]) \/ routes'[p] = Rendered(p, lastDocs, loaded)
      BY RepagedStep DEF Repaged, Ages
    <2> QED
      BY <1>3, <2>1, <2>2
  <1>5. ASSUME NEW p \in DOMAIN contexts' PROVE PastPage(p, contexts[p])'
    <2>1. p \in Paths /\ contexts'[p] \in Page(p)
      BY DEF TypeInv, TypeOK, IsRoutes, Paths, Page, Reads
    <2>2. PastPage(p, contexts'[p]) \/ contexts'[p] = Rendered(p, lastDocs, loaded)
      BY RepagedStep DEF Repaged, Ages
    <2> QED
      BY <1>3, <2>1, <2>2
  <1> QED
    BY <1>1, <1>2, <1>4, <1>5 DEF Ages

\* What the refinement needs.
PromiseInv == TypeInv /\ PluginAge /\ Composing /\ Ages

promiseVars == <<disk, lastDocs, loaded, routes, contexts>>

LEMMA PromiseInit == Init => PromiseInv /\ Promise!Init
  <1> SUFFICES ASSUME Init PROVE PromiseInv /\ Promise!Init
    OBVIOUS
  <1>1. TypeInv /\ PluginAge /\ Ages
    BY TypeInit, PluginAgeInit, AgesInit
  <1>2. AllOrNothing
    BY DEF Init, AllOrNothing, NoJob
  <1>3. Composing
    BY <1>2 DEF Init, Composing, NoJob, NoRoutes, Table
  <1>4. disk \in Promise!Contents
    BY <1>1, ConstantsAssumption DEF TypeInv, TypeOK, Content, Versions, Promise!Contents
  <1> QED
    BY <1>1, <1>3, <1>4 DEF PromiseInv, Init, Promise!Init, NoRoutes, Promise!NoPages

\* The operators of Preview are those of the loop.
LEMMA PromisePages ==
    /\ Promise!Defined = Wanting
    /\ \A S : Promise!PagesOf(S) = Table(S)
    /\ \A old, new : Promise!Replaced(old, new) = Updated(old, new)
  <1>1. Promise!Defined = Wanting
    BY ConstantsAssumption DEF Promise!Defined, Wanting, Defined, Artefacts
  <1>2. \A p : Promise!Content(p) = Rendered(p, lastDocs, loaded)
    BY DEF Promise!Content, Rendered
  <1> QED
    BY <1>1, <1>2 DEF Promise!PagesOf, Table, Promise!Replaced, Updated

\* While pages are rendered nothing that was shown is newer.
LEMMA PromiseForward ==
    ASSUME PromiseInv, pc \in {"all-pages", "render"}
    PROVE  Promise!Forward(routes) /\ Promise!Forward(contexts)
  BY DEF PromiseInv, TypeInv, Loading, Ages, PastPage, Past, Promise!Forward

LEMMA SendStep ==
    ASSUME PromiseInv, pc \in {"all-pages", "render"}, NEW p \in Wanting \cup {Root},
           BroadcastContent(p, Rendered(p, lastDocs, loaded)),
           UNCHANGED <<disk, lastDocs, loaded, routes>>
    PROVE  Promise!Next
  <1>1. [q \in {p} |-> Rendered(p, lastDocs, loaded)] = Table({p})
    BY DEF Table
  <1>2. contexts' = Promise!Replaced(contexts, Promise!PagesOf({p}))
    BY <1>1, PromisePages DEF BroadcastContent
  <1>3. Promise!Send(p)
    BY <1>2, PromiseForward DEF Promise!Send
  <1> QED
    BY <1>3, PromisePages DEF Promise!Next

LEMMA ShowStep ==
    ASSUME PromiseInv, Publish
    PROVE  Promise!Next
  <1> DEFINE S == DOMAIN job.routeMap
  <1>1. /\ pc = "render" /\ job.todo = {} /\ routes' = NewRoutes
        /\ UNCHANGED <<disk, lastDocs, loaded, contexts>>
    BY DEF Publish, diskVars
  <1>2. /\ job.routeMap = Promise!PagesOf(S) /\ S \in SUBSET Promise!Defined
        /\ ~job.selective => Promise!Defined \ Skippable \subseteq S
    BY <1>1, PromisePages DEF PromiseInv, Composing
  <1>3. CASE job.selective
    <2>1. Incremental
      BY <1>3, ConstantsAssumption DEF PromiseInv, Composing, AllOrNothing
    <2>2. Promise!ShowSome(S)
      BY <1>1, <1>2, <1>3, <2>1, PromisePages DEF NewRoutes, Promise!ShowSome
    <2> QED
      BY <1>1, <1>2, <2>2, PromiseForward DEF Promise!Show, Promise!Next
  <1>4. CASE ~job.selective
    <2>1. Promise!ShowAll(S)
      BY <1>1, <1>2, <1>4 DEF NewRoutes, Promise!ShowAll
    <2> QED
      BY <1>1, <1>2, <2>1, PromiseForward DEF Promise!Show, Promise!Next
  <1> QED
    BY <1>3, <1>4

LEMMA PromiseStep ==
    PromiseInv /\ TypeInv' /\ [Next]_vars => [Promise!Next]_promiseVars
  <1> SUFFICES ASSUME PromiseInv, TypeInv', [Next]_vars PROVE [Promise!Next]_promiseVars
    OBVIOUS
  <1>t. /\ \A c \in Content : c \in Promise!Contents
        /\ \A d \in Docs : disk[d] \in Nat /\ lastDocs[d] \in Nat
        /\ edits \in Nat /\ build \in Nat /\ loaded \in Nat
        /\ disk \in Content /\ lastDocs \in Content /\ job.read \in Content
    BY ConstantsAssumption
    DEF PromiseInv, TypeInv, TypeOK, IsJob, Content, Versions, Promise!Contents
  <1>s. Saving \/ Reading
    BY SavingOrReading DEF PromiseInv
  <1>k. CASE UNCHANGED promiseVars
    BY <1>k
  <1>1. ASSUME NEW f \in Files, Save(f) \/ DeleteFile(f) PROVE Promise!Next
    <2>1. /\ UNCHANGED <<lastDocs, loaded, routes, contexts>> /\ edits' = edits + 1
      BY <1>1 DEF Save, DeleteFile, pluginVars, serverVars
    <2>2. Saving
      BY <1>s, <1>t, <2>1 DEF Reading
    <2>3. \A d \in Docs : Promise!Follows(disk'[d], disk[d])
      BY <1>t, <2>2 DEF Saving, Promise!Follows, PromiseInv, Ages
    <2>4. disk' \in Promise!Contents
      BY ConstantsAssumption
      DEF TypeInv, TypeOK, Content, Versions, Promise!Contents
    <2> QED
      BY <2>1, <2>3, <2>4 DEF Promise!Edit, Promise!Next
  <1>2. CASE Plan
    <2>1. lastDocs' = job.read /\ UNCHANGED <<disk, loaded, routes, contexts>>
      BY <1>2 DEF Plan, diskVars, pluginVars, serverVars
    <2>2. \A d \in Docs : /\ Promise!Follows(job.read[d], lastDocs[d])
                          /\ Promise!Follows(disk[d], job.read[d])
      BY DEF PromiseInv, Ages, Past
    <2> QED
      BY <1>t, <2>1, <2>2 DEF Promise!Load, Promise!Next
  <1>3. CASE LoadPlugins
    <2>1. loaded' \in {build, 0} /\ UNCHANGED <<disk, lastDocs, routes, contexts>>
      BY <1>3 DEF LoadPlugins, diskVars, serverVars
    <2>2. loaded' \in Nat /\ Promise!Follows(loaded', loaded)
      BY <1>t, <2>1 DEF PromiseInv, PluginAge, Promise!Follows
    <2> QED
      BY <2>1, <2>2 DEF Promise!LoadPlugin, Promise!Next
  <1>4. CASE RenderAllPages
    <2>1. UNCHANGED <<disk, lastDocs, loaded, routes>> /\ pc = "all-pages"
      BY <1>4 DEF RenderAllPages, diskVars, pluginVars
    <2>2. CASE UNCHANGED contexts
      BY <1>k, <2>1, <2>2 DEF promiseVars
    <2>3. CASE BroadcastContent(Root, Rendered(Root, lastDocs, loaded))
      BY <2>1, <2>3, SendStep
    <2> QED
      BY <1>4, <2>2, <2>3 DEF RenderAllPages
  <1>5. ASSUME NEW a \in Artefacts, RenderReport(a) \/ RenderDocument(a)
        PROVE  [Promise!Next]_promiseVars
    <2>1. /\ UNCHANGED <<disk, lastDocs, loaded, routes>> /\ pc = "render"
          /\ a \in job.todo
      BY <1>5 DEF RenderReport, RenderDocument, diskVars, pluginVars
    <2>2. a \in Wanting
      BY <2>1 DEF PromiseInv, Composing
    <2>3. CASE UNCHANGED contexts
      BY <1>k, <2>1, <2>3 DEF promiseVars
    <2>4. CASE BroadcastContent(a, Rendered(a, lastDocs, loaded))
      BY <2>1, <2>2, <2>4, SendStep
    <2> QED
      BY <1>5, <2>3, <2>4 DEF RenderReport, RenderDocument, Render
  <1>6. CASE Publish
    BY <1>6, ShowStep
  <1>7. CASE RebuildPlugin \/ StartWatcher \/ Process \/ Poll \/ Receive \/ TimerFires
    BY <1>k, <1>7
    DEF RebuildPlugin, StartWatcher, Process, Poll, Receive, TimerFires, diskVars,
        pluginVars, serverVars, promiseVars
  <1>8. CASE Reload \/ Hook \/ UNCHANGED vars
    BY <1>k, <1>8 DEF Reload, Hook, vars, diskVars, pluginVars, serverVars, promiseVars
  <1>9. ASSUME NEW f \in Files, ReadFile(f) PROVE UNCHANGED promiseVars
    BY <1>9 DEF ReadFile, diskVars, pluginVars, serverVars, promiseVars
  <1> QED
    BY <1>1, <1>2, <1>3, <1>4, <1>5, <1>6, <1>7, <1>8, <1>9
    DEF Next, Environment, Loop, Run

\* The live-reload loop implements Preview, whatever happens in its environment
\* and in either mode: no page goes back to an older version of a document or of
\* the plugin, a refresh sets all its routes together and from one load, and a
\* full one leaves no other (Run, SetContentRoutes, UpdateContentRoutes).
THEOREM PreviewKeepsPromise == Spec => KeepsPromise
  <1>1. Init => PromiseInv /\ Promise!Init
    BY PromiseInit
  <1>2. PromiseInv /\ TypeInv' /\ [Next]_vars
          => PromiseInv' /\ [Promise!Next]_promiseVars
    <2> SUFFICES ASSUME PromiseInv, TypeInv', [Next]_vars
                 PROVE  PromiseInv' /\ [Promise!Next]_promiseVars
      OBVIOUS
    <2>1. PluginAge'
      BY PluginAgeNext DEF PromiseInv, TypeInv
    <2>2. Composing' /\ Ages'
      BY ComposingStep, AgesStep DEF PromiseInv
    <2> QED
      BY <2>1, <2>2, PromiseStep DEF PromiseInv
  <1>3. Spec => []TypeInv
    BY TypeInit, TypeNext, PTL DEF Spec
  <1> QED
    BY <1>1, <1>2, <1>3, PTL
    DEF Spec, KeepsPromise, Promise!Spec, Promise!vars, promiseVars

=============================================================================
