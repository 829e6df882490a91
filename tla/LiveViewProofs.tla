---------------------------- MODULE LiveViewProofs ----------------------------
(* The caches of the preview server, its event streams and the pages, for    *)
(* every set of views and clients and every size of the caches.              *)
EXTENDS LiveView, FiniteSetTheorems, SequenceTheorems, TLAPS

-----------------------------------------------------------------------------
(* Types.                                                                    *)

Entries == [path : Paths, version : 1 .. MaxRefreshes, data : Int]
Pages == [sse : BOOLEAN, engine : BOOLEAN, loaded : BOOLEAN, shown : Contents]
Requests == [latest : BOOLEAN, answered : BOOLEAN, content : Contents]

Jobs == [pc : {"idle", "render", "store", "announce", "done", "reload"},
         todo : SUBSET Paths, path : SUBSET Paths, paths : SUBSET Paths]

Server ==
    /\ refreshes \in 0 .. MaxRefreshes /\ losses \in 0 .. MaxLosses /\ data \in Int
    /\ job \in Jobs
    /\ job.pc # "idle" => refreshes >= 1

\* No path is cached twice.
Once == \A i, j \in DOMAIN contexts : contexts[i].path = contexts[j].path => i = j

Contexts == contexts \in Seq(Entries) /\ Len(contexts) <= CacheSize /\ Once

Store == store \in Seq(Int) /\ Len(store) <= Keep /\ IsInjective(store)

Streams ==
    /\ DOMAIN stream \subseteq Clients
    /\ stream = [c \in DOMAIN stream |-> stream[c]]
    /\ \A c \in DOMAIN stream : stream[c] \in Seq(Events) /\ Len(stream[c]) <= Buffer

\* Only the request that a page made last may change what it shows.
OnlyLast == \A c \in Clients : \A f, g \in fetches[c] : f.latest /\ g.latest => f = g

Browsers ==
    /\ page \in [Clients -> Pages]
    /\ fetches \in [Clients -> SUBSET Requests]
    /\ OnlyLast

TypeInv == Server /\ Contexts /\ Store /\ Streams /\ Browsers

LEMMA AtMostOne ==
    ASSUME NEW S, \A x, y \in S : x = y
    PROVE  Cardinality(S) <= 1
  <1>1. CASE S = {}
    BY <1>1, FS_EmptySet
  <1>2. CASE S # {}
    <2>1. PICK x : x \in S
      BY <1>2
    <2>2. S = {x}
      BY <2>1
    <2> QED
      BY <2>2, FS_Singleton
  <1> QED
    BY <1>1, <1>2

LEMMA TypeInvImplies == TypeInv => TypeOK
  <1> SUFFICES ASSUME TypeInv PROVE TypeOK
    OBVIOUS
  <1>1. ToSet(contexts) \subseteq Entries
    BY DEF TypeInv, Contexts, ToSet
  <1>2. \A p \in Paths : Cardinality(Cached(p)) <= 1
    <2> TAKE p \in Paths
    <2>1. \A e, f \in Cached(p) : e = f
      BY DEF Cached, ToSet, TypeInv, Contexts, Once
    <2> QED
      BY <2>1, AtMostOne
  <1>3. \A c \in Clients : Cardinality({f \in fetches[c] : f.latest}) <= 1
    <2> TAKE c \in Clients
    <2>1. \A f, g \in {h \in fetches[c] : h.latest} : f = g
      BY DEF TypeInv, Browsers, OnlyLast
    <2> QED
      BY <2>1, AtMostOne
  <1>4. \A c \in Clients : page[c].shown \in Contents /\ \A f \in fetches[c] : f.content \in Contents
    BY DEF TypeInv, Browsers, Pages, Requests
  <1> QED
    BY <1>1, <1>2, <1>3, <1>4 DEF TypeInv, TypeOK, Server, Jobs, Contexts, Store, Streams, Entries

LEMMA TypeInvInit == Init => TypeInv
  <1> SUFFICES ASSUME Init PROVE TypeInv
    OBVIOUS
  <1> USE ConstantsAssumption DEF Init
  <1>1. Server
    BY DEF Server, Jobs, NoJob
  <1>2. Contexts /\ Store
    BY DEF Contexts, Once, Store, IsInjective
  <1>3. Streams
    BY DEF Streams
  <1>4. Browsers
    BY DEF Browsers, OnlyLast, NewPage, Pages, Nothing, Contents
  <1> QED
    BY <1>1, <1>2, <1>3, <1>4 DEF TypeInv

-----------------------------------------------------------------------------
(* What the operators on the caches and the streams do.                      *)

\* Others removes the element of the path, if there is one, and keeps the rest.
LEMMA OthersLeft ==
    ASSUME Contexts, NEW p \in Paths
    PROVE  /\ Others(p) \in Seq(Entries)
           /\ Len(Others(p)) <= Len(contexts)
           /\ Cached(p) # {} => Len(Others(p)) < Len(contexts)
           /\ \A i \in DOMAIN Others(p) :
                Others(p)[i].path # p /\ Others(p)[i] \in ToSet(contexts)
           /\ \A i, j \in DOMAIN Others(p) : Others(p)[i].path = Others(p)[j].path => i = j
  <1> DEFINE held == {i \in DOMAIN contexts : contexts[i].path = p}
  <1>1. contexts \in Seq(Entries) /\ DOMAIN contexts = 1 .. Len(contexts) /\ Len(contexts) \in Nat
    BY DEF Contexts
  <1>2. CASE held = {}
    <2>1. Others(p) = contexts
      BY <1>2 DEF Others
    <2>2. Cached(p) = {}
      BY <1>2 DEF Cached, ToSet
    <2>3. \A i \in DOMAIN contexts : contexts[i].path # p
      BY <1>2
    <2> QED
      BY <1>1, <2>1, <2>2, <2>3 DEF Contexts, Once, ToSet
  <1>3. CASE held # {}
    <2> DEFINE at == CHOOSE i \in held : TRUE
    <2>1. at \in held
      BY <1>3
    <2>2. Others(p) = RemoveAt(contexts, at)
      BY <1>3 DEF Others
    <2>3. at \in 1 .. Len(contexts) /\ contexts[at].path = p
      BY <1>1, <2>1
    <2> HIDE DEF at, held
    <2>4. /\ RemoveAt(contexts, at) \in Seq(Entries)
          /\ Len(RemoveAt(contexts, at)) = Len(contexts) - 1
          /\ \A i \in 1 .. Len(contexts) - 1 :
               RemoveAt(contexts, at)[i] = contexts[IF i < at THEN i ELSE i + 1]
      <3> DEFINE front == SubSeq(contexts, 1, at - 1)
                 back == SubSeq(contexts, at + 1, Len(contexts))
      <3>1. front \in Seq(Entries) /\ Len(front) = at - 1 /\ \A i \in 1 .. at - 1 : front[i] = contexts[i]
        BY <1>1, <2>3
      <3>2. \A i \in at + 1 .. Len(contexts) : contexts[i] \in Entries
        BY <1>1, <2>3
      <3>3. /\ back \in Seq(Entries) /\ Len(back) = Len(contexts) - at
            /\ \A i \in 1 .. Len(contexts) - at : back[i] = contexts[at + i]
        <4>1. at + 1 \in Int /\ Len(contexts) \in Int
          BY <1>1, <2>3
        <4>2. /\ back \in Seq(Entries)
              /\ Len(back) = IF at + 1 <= Len(contexts) THEN Len(contexts) - (at + 1) + 1 ELSE 0
              /\ \A i \in 1 .. Len(contexts) - (at + 1) + 1 : back[i] = contexts[at + 1 + i - 1]
          BY <3>2, <4>1, SubSeqProperties
        <4> HIDE DEF back
        <4>3. \A i \in 1 .. Len(contexts) - at : back[i] = contexts[at + i]
          <5> TAKE i \in 1 .. Len(contexts) - at
          <5>1. i \in 1 .. Len(contexts) - (at + 1) + 1 /\ at + 1 + i - 1 = at + i
            BY <1>1, <2>3
          <5>2. back[i] = contexts[at + 1 + i - 1]
            BY <4>2, <5>1
          <5> QED
            BY <5>1, <5>2
        <4>4. Len(back) = Len(contexts) - at
          <5>1. Len(back) = IF at + 1 <= Len(contexts) THEN Len(contexts) - (at + 1) + 1 ELSE 0
            BY <4>2
          <5>2. CASE at + 1 <= Len(contexts)
            BY <1>1, <2>3, <5>1, <5>2
          <5>3. CASE ~(at + 1 <= Len(contexts))
            <6>1. at \in Int /\ Len(contexts) \in Int /\ at <= Len(contexts)
              BY <1>1, <2>3
            <6>2. at = Len(contexts)
              BY <5>3, <6>1
            <6> QED
              BY <5>1, <5>3, <6>1, <6>2
          <5> QED
            BY <5>2, <5>3
        <4> QED
          BY <4>2, <4>3, <4>4
      <3>4. RemoveAt(contexts, at) = front \o back
        BY DEF RemoveAt
      <3> HIDE DEF front, back
      <3>5. /\ front \o back \in Seq(Entries) /\ Len(front \o back) = Len(contexts) - 1
            /\ \A i \in 1 .. Len(contexts) - 1 :
                 (front \o back)[i] = IF i <= at - 1 THEN front[i] ELSE back[i - (at - 1)]
        <4>1. /\ front \o back \in Seq(Entries) /\ Len(front \o back) = Len(front) + Len(back)
              /\ \A i \in 1 .. Len(front) + Len(back) :
                   (front \o back)[i] = IF i <= Len(front) THEN front[i] ELSE back[i - Len(front)]
          BY <3>1, <3>3, ConcatProperties
        <4>2. Len(front) + Len(back) = Len(contexts) - 1
          BY <1>1, <2>3, <3>1, <3>3
        <4> DEFINE joined == front \o back
        <4> HIDE DEF joined
        <4> QED
          BY <3>1, <4>1, <4>2
      <3>6. ASSUME NEW i \in 1 .. Len(contexts) - 1
            PROVE  (front \o back)[i] = contexts[IF i < at THEN i ELSE i + 1]
        <4>1. CASE i < at
          BY <1>1, <2>3, <3>1, <3>5, <4>1
        <4>2. CASE ~(i < at)
          <5>1. (front \o back)[i] = back[i - (at - 1)]
            <6>1. ~(i <= at - 1)
              BY <1>1, <2>3, <4>2
            <6> QED
              BY <3>5, <6>1
          <5>2. i - (at - 1) \in 1 .. Len(contexts) - at /\ at + (i - (at - 1)) = i + 1
            BY <1>1, <2>3, <4>2
          <5> QED
            BY <3>3, <4>2, <5>1, <5>2
        <4> QED
          BY <4>1, <4>2
      <3> QED
        BY <3>4, <3>5, <3>6
    <2> DEFINE from(i) == IF i < at THEN i ELSE i + 1
    <2>5. \A i \in 1 .. Len(contexts) - 1 :
            from(i) \in DOMAIN contexts /\ from(i) # at /\ Others(p)[i] = contexts[from(i)]
      BY <1>1, <2>2, <2>3, <2>4
    <2>6. \A i, j \in 1 .. Len(contexts) - 1 : from(i) = from(j) => i = j
      BY <1>1, <2>3
    <2>7. Len(Others(p)) = Len(contexts) - 1 /\ DOMAIN Others(p) = 1 .. Len(contexts) - 1
      BY <1>1, <2>2, <2>3, <2>4
    <2> HIDE DEF from
    <2>8. \A i \in DOMAIN contexts : contexts[i].path = p => i = at
      BY <1>1, <2>3 DEF Contexts, Once
    <2>9. Others(p) \in Seq(Entries) /\ Len(Others(p)) < Len(contexts)
      BY <1>1, <2>2, <2>4, <2>7
    <2>10. \A i \in DOMAIN Others(p) : Others(p)[i].path # p /\ Others(p)[i] \in ToSet(contexts)
      BY <2>5, <2>7, <2>8 DEF ToSet
    <2>11. \A i, j \in DOMAIN Others(p) : Others(p)[i].path = Others(p)[j].path => i = j
      BY <2>5, <2>6, <2>7 DEF Contexts, Once
    <2> QED
      BY <1>1, <2>9, <2>10, <2>11
  <1> QED
    BY <1>2, <1>3

\* Moving an entry to the back of the list, or pushing it there, and evicting: the
\* entries are the old ones of other paths, and this one.
LEMMA MovedToBack ==
    ASSUME Contexts, NEW p \in Paths, NEW e \in Entries, e.path = p,
           \/ contexts' = EvictOldest(Append(Others(p), e))
           \/ contexts' = Append(Others(p), e) /\ Cached(p) # {}
    PROVE  Contexts' /\ ToSet(contexts)' \subseteq ToSet(contexts) \cup {e}
  <1> DEFINE others == Others(p)
             moved == Append(others, e)
  <1>1. /\ others \in Seq(Entries) /\ Len(others) <= Len(contexts)
        /\ Cached(p) # {} => Len(others) < Len(contexts)
        /\ \A i \in DOMAIN others : others[i].path # p /\ others[i] \in ToSet(contexts)
        /\ \A i, j \in DOMAIN others : others[i].path = others[j].path => i = j
    BY OthersLeft
  <1>c. CacheSize \in Nat \ {0} /\ Len(contexts) \in Nat /\ Len(contexts) <= CacheSize
    BY ConstantsAssumption DEF Contexts
  <1>m. contexts' = EvictOldest(moved) \/ (contexts' = moved /\ Cached(p) # {})
    OBVIOUS
  <1> HIDE DEF others
  <1>2. /\ moved \in Seq(Entries) /\ Len(moved) = Len(others) + 1
        /\ \A i \in 1 .. Len(others) : moved[i] = others[i]
        /\ moved[Len(others) + 1] = e
    BY <1>1
  <1> HIDE DEF moved
  <1>3. \A i, j \in 1 .. Len(moved) : moved[i].path = moved[j].path => i = j
    BY <1>1, <1>2
  <1>4. \A i \in 1 .. Len(moved) : moved[i] \in ToSet(contexts) \cup {e}
    BY <1>1, <1>2
  <1>5. CASE contexts' = moved /\ Len(moved) <= CacheSize
    BY <1>2, <1>3, <1>4, <1>5 DEF Contexts, Once, ToSet
  <1>6. CASE contexts' = Tail(moved) /\ Len(moved) <= CacheSize + 1
    <2>1. /\ Tail(moved) \in Seq(Entries) /\ Len(Tail(moved)) = Len(moved) - 1
          /\ \A i \in 1 .. Len(moved) - 1 : Tail(moved)[i] = moved[i + 1]
      BY <1>1, <1>2
    <2> QED
      BY <1>1, <1>2, <1>3, <1>4, <1>6, <1>c, <2>1 DEF Contexts, Once, ToSet
  <1> QED
    BY <1>1, <1>2, <1>5, <1>6, <1>c, <1>m DEF EvictOldest

LEMMA PutKeeps ==
    ASSUME Store, NEW h \in Int, Put(h)
    PROVE  Store'
  <1>k. Keep \in Nat \ {0}
    BY ConstantsAssumption
  <1>1. CASE h \in ToSet(store)
    BY <1>1 DEF Put, Store
  <1>2. CASE h \notin ToSet(store)
    <2> DEFINE longer == Append(store, h)
    <2>1. /\ longer \in Seq(Int) /\ Len(longer) = Len(store) + 1
          /\ \A i \in 1 .. Len(store) : longer[i] = store[i] /\ longer[i] # h
          /\ longer[Len(store) + 1] = h
      BY <1>2 DEF Store, ToSet
    <2>2. store' = IF Len(longer) > Keep THEN Tail(longer) ELSE longer
      BY <1>2 DEF Put, Trim
    <2> HIDE DEF longer
    <2>3. \A i, j \in 1 .. Len(longer) : longer[i] = longer[j] => i = j
      <3>1. Len(store) \in Nat /\ DOMAIN store = 1 .. Len(store)
        BY DEF Store
      <3>2. \A i, j \in 1 .. Len(store) : store[i] = store[j] => i = j
        BY <3>1 DEF Store, IsInjective
      <3> SUFFICES ASSUME NEW i \in 1 .. Len(longer), NEW j \in 1 .. Len(longer),
                          longer[i] = longer[j]
                   PROVE  i = j
        OBVIOUS
      <3>3. CASE i <= Len(store) /\ j <= Len(store)
        BY <2>1, <3>1, <3>2, <3>3
      <3>4. CASE i > Len(store) \/ j > Len(store)
        BY <2>1, <3>1, <3>4
      <3> QED
        BY <2>1, <3>1, <3>3, <3>4
    <2>4. /\ Tail(longer) \in Seq(Int) /\ Len(Tail(longer)) = Len(longer) - 1
          /\ \A i \in 1 .. Len(longer) - 1 : Tail(longer)[i] = longer[i + 1]
      BY <2>1 DEF Store
    <2>5. CASE Len(longer) > Keep
      <3>1. store' = Tail(longer) /\ DOMAIN store' = 1 .. Len(longer) - 1
        BY <2>2, <2>4, <2>5
      <3>2. IsInjective(store')
        <4>1. ASSUME NEW i \in DOMAIN store', NEW j \in DOMAIN store', store'[i] = store'[j]
              PROVE  i = j
          <5>1. Len(longer) \in Nat
            BY <2>1
          <5>2. /\ i \in 1 .. Len(longer) - 1 /\ j \in 1 .. Len(longer) - 1
                /\ i + 1 \in 1 .. Len(longer) /\ j + 1 \in 1 .. Len(longer)
            BY <3>1, <5>1
          <5>3. longer[i + 1] = longer[j + 1]
            BY <2>4, <3>1, <4>1, <5>2
          <5> QED
            BY <2>3, <5>2, <5>3
        <4> QED
          BY <4>1 DEF IsInjective
      <3>3. Len(store') <= Keep
        BY <1>k, <2>1, <2>4, <3>1 DEF Store
      <3> QED
        BY <2>4, <3>1, <3>2, <3>3 DEF Store
    <2>6. CASE ~(Len(longer) > Keep)
      <3>1. store' = longer /\ DOMAIN store' = 1 .. Len(longer)
        BY <2>1, <2>2, <2>6
      <3>2. IsInjective(store')
        BY <2>3, <3>1 DEF IsInjective
      <3>3. Len(store') <= Keep
        BY <1>k, <2>1, <2>6, <3>1 DEF Store
      <3> QED
        BY <2>1, <3>1, <3>2, <3>3 DEF Store
    <2> QED
      BY <2>5, <2>6
  <1> QED
    BY <1>1, <1>2

LEMMA BroadcastStreams ==
    ASSUME Streams, NEW e \in Events, Broadcast(e)
    PROVE  Streams'
  <1>1. Buffer \in Nat \ {0}
    BY ConstantsAssumption
  <1>2. \A c \in DOMAIN stream : Send(stream[c], e) \in Seq(Events) /\ Len(Send(stream[c], e)) <= Buffer
    BY <1>1 DEF Streams, Send
  <1>3. stream' = [c \in DOMAIN stream |-> Send(stream[c], e)]
    BY DEF Broadcast
  <1> QED
    BY <1>2, <1>3 DEF Streams

-----------------------------------------------------------------------------
(* The types hold behind every step.                                         *)

LEMMA ServerNext == TypeInv /\ [Next]_vars => Server'
  <1> SUFFICES ASSUME TypeInv, [Next]_vars PROVE Server'
    OBVIOUS
  <1>t. Server /\ MaxRefreshes \in Nat /\ MaxLosses \in Nat
    BY ConstantsAssumption DEF TypeInv
  <1>1. CASE Start
    <2>1. /\ refreshes' = refreshes + 1 /\ refreshes < MaxRefreshes
          /\ data' \in Int /\ UNCHANGED losses
      BY <1>1, <1>t DEF Start, Emits, pageVars, Server
    <2>2. PICK ps \in SUBSET Paths : job' = [NoJob EXCEPT !.pc = "render", !.todo = ps]
      BY <1>1 DEF Start
    <2>3. job' = [pc |-> "render", todo |-> ps, path |-> {}, paths |-> {}]
      BY <2>2 DEF NoJob
    <2>4. job' \in Jobs
      BY <2>3 DEF Jobs
    <2> QED
      BY <1>t, <2>1, <2>4 DEF Server
  <1>2. CASE Fail \/ Done \/ Reload
    <2>1. UNCHANGED <<refreshes, data, losses>> /\ job.pc # "idle"
      BY <1>2 DEF Fail, Done, Reload, pageVars
    <2>2. job' \in Jobs
      <3>1. NoJob \in Jobs
        BY DEF NoJob, Jobs
      <3>2. CASE job' = [job EXCEPT !.pc = "done", !.todo = {}, !.paths = {}]
        BY <1>t, <3>2 DEF Server, Jobs
      <3>3. CASE job' = [job EXCEPT !.pc = "reload"]
        BY <1>t, <3>3 DEF Server, Jobs
      <3> QED
        BY <1>2, <3>1, <3>2, <3>3 DEF Fail, Done, Reload
    <2> QED
      BY <1>t, <2>1, <2>2 DEF Server
  <1>3. ASSUME NEW p \in Paths, Render(p) \/ StoreContent(p) \/ Announce(p) PROVE Server'
    <2>1. UNCHANGED <<refreshes, data, losses>> /\ job.pc # "idle"
      BY <1>3 DEF Render, StoreContent, Announce, pageVars
    <2>2. job' \in Jobs
      <3>1. CASE job' = [job EXCEPT !.pc = "store", !.path = {p}, !.todo = @ \ {p}]
        BY <1>t, <3>1 DEF Server, Jobs
      <3>2. CASE job' = [job EXCEPT !.pc = "announce"]
        BY <1>t, <3>2 DEF Server, Jobs
      <3>3. CASE job' = [job EXCEPT !.pc = "render", !.path = {}, !.paths = @ \cup {p}]
        BY <1>t, <3>3 DEF Server, Jobs
      <3> QED
        BY <1>3, <3>1, <3>2, <3>3 DEF Render, StoreContent, Announce
    <2> QED
      BY <1>t, <2>1, <2>2 DEF Server
  <1>4. ASSUME NEW c \in Clients, Lose(c) PROVE Server'
    <2>1. UNCHANGED <<refreshes, data, job>> /\ losses < MaxLosses /\ losses' = losses + 1
      BY <1>4 DEF Lose
    <2> QED
      BY <1>t, <2>1 DEF Server
  <1>5. ASSUME NEW c \in Clients, Subscribe(c) \/ Runtime(c)
        PROVE  UNCHANGED <<refreshes, data, job, losses>>
    BY <1>5 DEF Subscribe, Runtime, EngineReady, HandleReady, HandlePathChanged, HandleRefreshDone,
                HandleToolbar, HandlePluginsReloaded, NewLoad, Answer, Arrive, handledVars
  <1>6. EmbedRegister \/ UNCHANGED vars => UNCHANGED <<refreshes, data, job, losses>>
    BY DEF EmbedRegister, vars, pageVars
  <1>7. UNCHANGED <<refreshes, data, job, losses>> => Server'
    BY <1>t DEF Server
  <1> QED
    BY <1>1, <1>2, <1>3, <1>4, <1>5, <1>6, <1>7 DEF Next, Run

\* The cache is written by a render, and its order by a page that asks.
ContextStep ==
    \/ UNCHANGED contexts
    \/ \E p \in Paths :
         /\ job.pc = "store"
         /\ contexts' = EvictOldest(Append(Others(p), [path |-> p, version |-> refreshes, data |-> data]))
    \/ \E p \in Paths : \E e \in Cached(p) : contexts' = Append(Others(p), e)

LEMMA ContextSteps == [Next]_vars => ContextStep
  <1> SUFFICES ASSUME [Next]_vars PROVE ContextStep
    OBVIOUS
  <1>1. Start \/ Fail \/ Done \/ Reload \/ EmbedRegister \/ UNCHANGED vars => UNCHANGED contexts
    BY DEF Start, Fail, Done, Reload, EmbedRegister, vars, serverVars
  <1>2. ASSUME NEW p \in Paths, Render(p) \/ Announce(p) PROVE UNCHANGED contexts
    BY <1>2 DEF Render, Announce, serverVars
  <1>3. ASSUME NEW p \in Paths, StoreContent(p) PROVE ContextStep
    BY <1>3 DEF StoreContent, ContextStep
  <1>4. ASSUME NEW c \in Clients,
               \/ Subscribe(c) \/ Lose(c) \/ EngineReady(c) \/ HandleReady(c) \/ HandlePathChanged(c)
               \/ HandleRefreshDone(c) \/ HandleToolbar(c) \/ HandlePluginsReloaded(c)
               \/ \E f \in fetches[c] : Arrive(c, f)
        PROVE  UNCHANGED contexts
    BY <1>4 DEF Subscribe, Lose, EngineReady, HandleReady, HandlePathChanged, HandleRefreshDone,
                HandleToolbar, HandlePluginsReloaded, NewLoad, Arrive, handledVars, serverVars
  <1>5. ASSUME NEW c \in Clients, NEW f \in fetches[c], Answer(c, f) PROVE ContextStep
    <2>1. View[c] \in Paths
      BY ConstantsAssumption
    <2> QED
      BY <1>5, <2>1 DEF Answer, ContextStep
  <1> QED
    BY <1>1, <1>2, <1>3, <1>4, <1>5 DEF Next, Run, Runtime, ContextStep

\* An entry is an old one, or that of the view the refresh has just rendered.
LEMMA ContextsNext ==
    ASSUME TypeInv, ContextStep
    PROVE  /\ Contexts'
           /\ \A e \in ToSet(contexts)' :
                \/ e \in ToSet(contexts)
                \/ job.pc = "store" /\ e.version = refreshes /\ e.data = data
  <1>t. Contexts /\ Server /\ MaxRefreshes \in Nat
    BY ConstantsAssumption DEF TypeInv
  <1>1. CASE UNCHANGED contexts
    BY <1>1, <1>t DEF Contexts, Once
  <1>2. ASSUME NEW p \in Paths, job.pc = "store",
               contexts' = EvictOldest(Append(Others(p),
                             [path |-> p, version |-> refreshes, data |-> data]))
        PROVE  /\ Contexts'
               /\ \A e \in ToSet(contexts)' :
                    e \in ToSet(contexts) \/ (e.version = refreshes /\ e.data = data)
    <2> DEFINE new == [path |-> p, version |-> refreshes, data |-> data]
    <2>1. refreshes \in 1 .. MaxRefreshes /\ data \in Int
      BY <1>2, <1>t DEF Server
    <2>2. new \in Entries /\ new.path = p
      BY <2>1 DEF Entries
    <2>3. Contexts' /\ ToSet(contexts)' \subseteq ToSet(contexts) \cup {new}
      BY <1>2, <1>t, <2>2, MovedToBack
    <2> QED
      BY <2>3
  <1>3. ASSUME NEW p \in Paths, NEW e \in Cached(p), contexts' = Append(Others(p), e)
        PROVE  Contexts' /\ ToSet(contexts)' \subseteq ToSet(contexts)
    <2>1. e \in Entries /\ e.path = p /\ e \in ToSet(contexts)
      BY <1>t DEF Cached, ToSet, Contexts
    <2> QED
      BY <1>3, <1>t, <2>1, MovedToBack
  <1> QED
    BY <1>1, <1>2, <1>3 DEF ContextStep

\* The data of a render, or that of an embedding request, enters the store.
StoreStep ==
    \/ UNCHANGED store
    \/ Put(data)
    \/ "override" \in Moves /\ Put(0)

LEMMA StoreSteps == [Next]_vars => StoreStep
  <1> SUFFICES ASSUME [Next]_vars PROVE StoreStep
    OBVIOUS
  <1>1. Start \/ Fail \/ Done \/ Reload \/ UNCHANGED vars => UNCHANGED store
    BY DEF Start, Fail, Done, Reload, vars, serverVars
  <1>2. ASSUME NEW p \in Paths, Render(p) \/ StoreContent(p) \/ Announce(p) PROVE StoreStep
    BY <1>2 DEF Render, StoreContent, Announce, serverVars, StoreStep
  <1>3. CASE EmbedRegister
    BY <1>3 DEF EmbedRegister, StoreStep
  <1>4. ASSUME NEW c \in Clients, Subscribe(c) \/ Lose(c) \/ Runtime(c) PROVE UNCHANGED store
    BY <1>4 DEF Subscribe, Lose, Runtime, EngineReady, HandleReady, HandlePathChanged,
                HandleRefreshDone, HandleToolbar, HandlePluginsReloaded, NewLoad, Answer, Arrive,
                handledVars, serverVars
  <1> QED
    BY <1>1, <1>2, <1>3, <1>4 DEF Next, Run, StoreStep

LEMMA StoreNext == TypeInv /\ [Next]_vars => Store'
  <1> SUFFICES ASSUME TypeInv, [Next]_vars PROVE Store'
    OBVIOUS
  <1>1. Store /\ data \in Int
    BY DEF TypeInv, Server
  <1>2. UNCHANGED store => Store'
    BY <1>1 DEF Store, IsInjective
  <1> QED
    BY <1>1, <1>2, StoreSteps, PutKeeps DEF StoreStep

LEMMA HandledStreams ==
    ASSUME Streams, NEW c \in Clients, Listening(c), stream[c] # <<>>,
           stream' = [stream EXCEPT ![c] = Tail(@)] \/ stream' = Unsubscribed(c)
    PROVE  Streams'
  <1>1. CASE stream' = [stream EXCEPT ![c] = Tail(@)]
    <2>1. c \in DOMAIN stream /\ stream[c] \in Seq(Events) /\ Len(stream[c]) <= Buffer
      BY DEF Listening, Streams
    <2>2. Tail(stream[c]) \in Seq(Events) /\ Len(Tail(stream[c])) <= Buffer
      BY <2>1, ConstantsAssumption, HeadTailProperties
    <2> QED
      BY <1>1, <2>1, <2>2 DEF Streams
  <1>2. CASE stream' = Unsubscribed(c)
    BY <1>2 DEF Streams, Unsubscribed
  <1> QED
    BY <1>1, <1>2

LEMMA StreamsNext == TypeInv /\ [Next]_vars => Streams'
  <1> SUFFICES ASSUME TypeInv, [Next]_vars PROVE Streams'
    OBVIOUS
  <1>t. Streams /\ Server
    BY DEF TypeInv
  <1>0. UNCHANGED stream => Streams'
    BY <1>t DEF Streams
  <1>1. CASE Start \/ Fail \/ Done \/ Reload
    <2>1. PICK e \in {Toolbar, RefreshDone(job.paths), PluginsReloaded} : Broadcast(e)
      BY <1>1 DEF Start, Fail, Done, Reload
    <2>2. e \in Events
      BY <1>t DEF Toolbar, RefreshDone, PluginsReloaded, Events, Server, Jobs
    <2> QED
      BY <1>t, <2>1, <2>2, BroadcastStreams
  <1>2. ASSUME NEW p \in Paths, Announce(p) PROVE Streams'
    <2>1. PathChanged(p) \in Events
      BY DEF PathChanged, Events
    <2> QED
      BY <1>2, <1>t, <2>1, BroadcastStreams DEF Announce
  <1>3. ASSUME NEW p \in Paths, Render(p) \/ StoreContent(p) PROVE UNCHANGED stream
    BY <1>3 DEF Render, StoreContent
  <1>4. ASSUME NEW c \in Clients, Subscribe(c) PROVE Streams'
    <2>1. /\ stream' = [d \in DOMAIN stream \cup {c} |-> IF d = c THEN <<Ready>> ELSE stream[d]]
          /\ Ready \in Events
      BY <1>4 DEF Subscribe, Ready, Events
    <2>2. <<Ready>> \in Seq(Events) /\ Len(<<Ready>>) <= Buffer
      BY <2>1, ConstantsAssumption
    <2> DEFINE first == <<Ready>>
    <2> HIDE DEF first
    <2>3. stream' = [d \in DOMAIN stream \cup {c} |-> IF d = c THEN first ELSE stream[d]]
          /\ first \in Seq(Events) /\ Len(first) <= Buffer
      BY <2>1, <2>2 DEF first
    <2> QED
      BY <1>t, <2>3 DEF Streams
  <1>5. ASSUME NEW c \in Clients, Lose(c) PROVE Streams'
    BY <1>5, <1>t DEF Lose, Streams, Unsubscribed
  <1>6. ASSUME NEW c \in Clients,
               \/ HandleReady(c) \/ HandlePathChanged(c) \/ HandleRefreshDone(c)
               \/ HandleToolbar(c) \/ HandlePluginsReloaded(c)
        PROVE  Streams'
    BY <1>6, <1>t, HandledStreams DEF HandleReady, HandlePathChanged, HandleRefreshDone, HandleToolbar,
       HandlePluginsReloaded, NewLoad, Handle
  <1>7. ASSUME NEW c \in Clients, EngineReady(c) \/ \E f \in fetches[c] : Answer(c, f) \/ Arrive(c, f)
        PROVE  UNCHANGED stream
    BY <1>7 DEF EngineReady, Answer, Arrive
  <1>8. EmbedRegister \/ UNCHANGED vars => UNCHANGED stream
    BY DEF EmbedRegister, vars
  <1> QED
    BY <1>0, <1>1, <1>2, <1>3, <1>4, <1>5, <1>6, <1>7, <1>8 DEF Next, Run, Runtime

\* What a step does to a page and its requests.
Asks(c) ==
    /\ \E pg \in Pages : pg.shown = page[c].shown /\ page' = [page EXCEPT ![c] = pg]
    /\ fetches' = [fetches EXCEPT ![c] =
                     {[f EXCEPT !.latest = FALSE] : f \in @} \cup
                     {[latest |-> TRUE, answered |-> FALSE, content |-> Nothing]}]

Stays(c) ==
    /\ \E pg \in Pages : pg.shown = page[c].shown /\ page' = [page EXCEPT ![c] = pg]
    /\ UNCHANGED fetches

Loads(c) ==
    /\ page' = [page EXCEPT ![c] = NewPage]
    /\ fetches' = [fetches EXCEPT ![c] = {}]

\* The answer is that no content is there, or what the cache holds for its view.
Answers(c) ==
    /\ UNCHANGED page
    /\ \E f \in fetches[c] : \E new \in Requests :
         /\ new.latest = f.latest
         /\ \/ new.content = f.content
            \/ \E e \in Cached(View[c]) : new.content.version = e.version
         /\ fetches' = [fetches EXCEPT ![c] = (@ \ {f}) \cup {new}]

Arrives(c) ==
    \E f \in fetches[c] :
      /\ fetches' = [fetches EXCEPT ![c] = @ \ {f}]
      /\ page' = IF Accepts(c, f)
                   THEN [page EXCEPT ![c].shown = f.content, ![c].loaded = TRUE] ELSE page

BrowserStep ==
    \/ UNCHANGED <<page, fetches>>
    \/ \E c \in Clients : Asks(c) \/ Stays(c) \/ Loads(c) \/ Answers(c) \/ Arrives(c)

LEMMA BrowserSteps == TypeInv /\ [Next]_vars => BrowserStep
  <1> SUFFICES ASSUME TypeInv, [Next]_vars PROVE BrowserStep
    OBVIOUS
  <1>1. Start \/ Fail \/ Done \/ Reload \/ EmbedRegister \/ UNCHANGED vars => UNCHANGED <<page, fetches>>
    BY DEF Start, Fail, Done, Reload, EmbedRegister, vars, pageVars
  <1>2. ASSUME NEW p \in Paths, Render(p) \/ StoreContent(p) \/ Announce(p)
        PROVE  UNCHANGED <<page, fetches>>
    BY <1>2 DEF Render, StoreContent, Announce, pageVars
  <1>3. ASSUME NEW c \in Clients, Subscribe(c) \/ Lose(c) \/ HandleToolbar(c)
        PROVE  UNCHANGED <<page, fetches>>
    BY <1>3 DEF Subscribe, Lose, HandleToolbar
  <1>4. ASSUME NEW c \in Clients, NEW pg \in Pages, pg.shown = page[c].shown, Fetch(c, pg) \/ Stay(c, pg)
        PROVE  Asks(c) \/ Stays(c)
    BY <1>4 DEF Fetch, Stay, Asks, Stays
  <1>5. ASSUME NEW c \in Clients, EngineReady(c) PROVE Asks(c) \/ Stays(c)
    <2> DEFINE pg == [page[c] EXCEPT !.engine = TRUE]
    <2>1. pg \in Pages /\ pg.shown = page[c].shown
      BY DEF TypeInv, Browsers, Pages
    <2>2. Fetch(c, pg) \/ Stay(c, pg)
      BY <1>5 DEF EngineReady
    <2> QED
      BY <1>4, <2>1, <2>2
  <1>6. ASSUME NEW c \in Clients, HandleReady(c) PROVE Asks(c) \/ Stays(c)
    <2> DEFINE pg == [page[c] EXCEPT !.sse = TRUE]
    <2>1. pg \in Pages /\ pg.shown = page[c].shown
      BY DEF TypeInv, Browsers, Pages
    <2>2. Fetch(c, pg) \/ Stay(c, pg)
      BY <1>6 DEF HandleReady, AfterReady
    <2> QED
      BY <1>4, <2>1, <2>2
  <1>7. ASSUME NEW c \in Clients, HandlePathChanged(c) \/ HandleRefreshDone(c) PROVE Asks(c) \/ Stays(c)
    <2>1. page[c] \in Pages
      BY DEF TypeInv, Browsers
    <2>2. Fetch(c, page[c]) \/ Stay(c, page[c])
      BY <1>7 DEF HandlePathChanged, HandleRefreshDone
    <2> QED
      BY <1>4, <2>1, <2>2
  <1>8. ASSUME NEW c \in Clients, HandlePluginsReloaded(c) PROVE Loads(c)
    BY <1>8 DEF HandlePluginsReloaded, NewLoad, Loads
  <1>9. ASSUME NEW c \in Clients, NEW f \in fetches[c], Answer(c, f) PROVE Answers(c)
    <2>1. f \in Requests /\ f.content \in Contents
      BY DEF TypeInv, Browsers, Requests
    <2>2. CASE fetches' = [fetches EXCEPT ![c] = (@ \ {f}) \cup {[f EXCEPT !.answered = TRUE]}]
      <3> DEFINE new == [f EXCEPT !.answered = TRUE]
      <3>1. new \in Requests /\ new.latest = f.latest /\ new.content = f.content
        BY <2>1 DEF Requests
      <3>2. fetches' = [fetches EXCEPT ![c] = (@ \ {f}) \cup {new}] /\ UNCHANGED page
        BY <1>9, <2>2 DEF Answer
      <3> HIDE DEF new
      <3> QED
        BY <3>1, <3>2 DEF Answers
    <2>3. ASSUME NEW e \in Cached(View[c]),
                 fetches' = [fetches EXCEPT ![c] =
                   (@ \ {f}) \cup
                   {[f EXCEPT !.answered = TRUE, !.content = [version |-> e.version, data |-> e.data]]}]
          PROVE  Answers(c)
      <3> DEFINE new == [f EXCEPT !.answered = TRUE,
                                  !.content = [version |-> e.version, data |-> e.data]]
      <3>1. e \in Entries
        BY DEF Cached, ToSet, TypeInv, Contexts
      <3>2. [version |-> e.version, data |-> e.data] \in Contents
        BY <3>1, ConstantsAssumption DEF Entries, Contents
      <3>3. new \in Requests /\ new.latest = f.latest /\ new.content.version = e.version
        BY <2>1, <3>2 DEF Requests
      <3>4. fetches' = [fetches EXCEPT ![c] = (@ \ {f}) \cup {new}] /\ UNCHANGED page
        BY <1>9, <2>3 DEF Answer
      <3> HIDE DEF new
      <3> QED
        BY <3>3, <3>4 DEF Answers
    <2> QED
      BY <1>9, <2>2, <2>3 DEF Answer
  <1>10. ASSUME NEW c \in Clients, NEW f \in fetches[c], Arrive(c, f) PROVE Arrives(c)
    BY <1>10 DEF Arrive, Arrives
  <1> QED
    BY <1>1, <1>2, <1>3, <1>5, <1>6, <1>7, <1>8, <1>9, <1>10 DEF Next, Run, Runtime, BrowserStep

LEMMA BrowsersNext == TypeInv /\ BrowserStep => Browsers'
  <1> SUFFICES ASSUME TypeInv, BrowserStep PROVE Browsers'
    OBVIOUS
  <1>t. /\ page \in [Clients -> Pages] /\ fetches \in [Clients -> SUBSET Requests]
        /\ \A c \in Clients : \A f, g \in fetches[c] : f.latest /\ g.latest => f = g
    BY DEF TypeInv, Browsers, OnlyLast
  <1>n. Nothing \in Contents /\ NewPage \in Pages
    BY ConstantsAssumption DEF Nothing, NewPage, Contents, Pages
  <1>1. CASE UNCHANGED <<page, fetches>>
    BY <1>1, <1>t DEF Browsers, OnlyLast
  \* The requests of the other clients stay as they are.
  <1>2. ASSUME NEW c \in Clients, NEW fs \in SUBSET Requests, fetches' = [fetches EXCEPT ![c] = fs],
               \A f, g \in fs : f.latest /\ g.latest => f = g,
               page' \in [Clients -> Pages]
        PROVE  Browsers'
    BY <1>2, <1>t DEF Browsers, OnlyLast
  <1>3. ASSUME NEW c \in Clients, Asks(c) PROVE Browsers'
    <2> DEFINE older == {[f EXCEPT !.latest = FALSE] : f \in fetches[c]}
               new == [latest |-> TRUE, answered |-> FALSE, content |-> Nothing]
    <2>1. \A f \in older : f \in Requests /\ ~f.latest
      <3>1. ASSUME NEW f \in fetches[c]
            PROVE  [f EXCEPT !.latest = FALSE] \in Requests /\ ~[f EXCEPT !.latest = FALSE].latest
        <4>1. f \in Requests
          BY <1>t
        <4> QED
          BY <4>1 DEF Requests
      <3> QED
        BY <3>1
    <2>2. new \in Requests
      BY <1>n DEF Requests
    <2>3. fetches' = [fetches EXCEPT ![c] = older \cup {new}]
      BY <1>3, <1>t DEF Asks
    <2>4. page' \in [Clients -> Pages]
      BY <1>3, <1>t DEF Asks
    <2> HIDE DEF older, new
    <2>5. \A f, g \in older \cup {new} : f.latest /\ g.latest => f = g
      BY <2>1
    <2> QED
      BY <1>2, <2>1, <2>2, <2>3, <2>4, <2>5
  <1>4. ASSUME NEW c \in Clients, Stays(c) PROVE Browsers'
    BY <1>4, <1>t DEF Stays, Browsers, OnlyLast
  <1>5. ASSUME NEW c \in Clients, Loads(c) PROVE Browsers'
    <2>1. page' \in [Clients -> Pages] /\ fetches' = [fetches EXCEPT ![c] = {}]
      BY <1>5, <1>t, <1>n DEF Loads
    <2>2. {} \in SUBSET Requests /\ \A f, g \in {} : f.latest /\ g.latest => f = g
      OBVIOUS
    <2> QED
      BY <1>2, <2>1, <2>2
  <1>6. ASSUME NEW c \in Clients, Answers(c) PROVE Browsers'
    <2>1. PICK f \in fetches[c], new \in Requests :
            /\ new.latest = f.latest
            /\ fetches' = [fetches EXCEPT ![c] = (@ \ {f}) \cup {new}]
      BY <1>6 DEF Answers
    <2>2. \A g, h \in (fetches[c] \ {f}) \cup {new} : g.latest /\ h.latest => g = h
      BY <1>t, <2>1
    <2>3. fetches' = [fetches EXCEPT ![c] = (fetches[c] \ {f}) \cup {new}] /\ UNCHANGED page
      BY <1>6, <2>1 DEF Answers
    <2> QED
      BY <1>2, <1>t, <2>2, <2>3
  <1>7. ASSUME NEW c \in Clients, Arrives(c) PROVE Browsers'
    <2>1. PICK f \in fetches[c] :
            /\ fetches' = [fetches EXCEPT ![c] = @ \ {f}]
            /\ page' = IF Accepts(c, f)
                         THEN [page EXCEPT ![c].shown = f.content, ![c].loaded = TRUE] ELSE page
      BY <1>7 DEF Arrives
    <2>2. page' \in [Clients -> Pages]
      <3>1. f.content \in Contents
        BY <1>t DEF Requests
      <3>2. [page[c] EXCEPT !.shown = f.content, !.loaded = TRUE] \in Pages
        BY <1>t, <3>1 DEF Pages
      <3> QED
        BY <1>t, <2>1, <3>2
    <2>3. /\ fetches' = [fetches EXCEPT ![c] = fetches[c] \ {f}]
          /\ fetches[c] \ {f} \in SUBSET Requests
          /\ \A g, h \in fetches[c] \ {f} : g.latest /\ h.latest => g = h
      BY <1>t, <2>1
    <2> QED
      BY <1>2, <2>2, <2>3
  <1> QED
    BY <1>1, <1>3, <1>4, <1>5, <1>6, <1>7 DEF BrowserStep

LEMMA TypeInvNext == TypeInv /\ [Next]_vars => TypeInv'
  BY ServerNext, ContextSteps, ContextsNext, StoreNext, StreamsNext, BrowserSteps, BrowsersNext
     DEF TypeInv

\* For any number of views, pages and requests and every size of the caches and
\* streams: no view is cached twice, the caches and streams keep their limits, and of
\* the requests of a page at most one may still change what it shows.
THEOREM LiveViewTypeOK == Spec => []TypeOK
  BY TypeInvInit, TypeInvNext, TypeInvImplies, PTL DEF Spec

-----------------------------------------------------------------------------
(* A page never goes back.                                                   *)

\* What a page shows, what it may get and what the cache holds for it follow each
\* other: the cache is never behind.
Ordered(c) ==
    /\ page[c].shown.version <= refreshes
    /\ \A e \in Cached(View[c]) : page[c].shown.version <= e.version
    /\ \A f \in fetches[c] :
         /\ f.content.version <= refreshes
         /\ \A e \in Cached(View[c]) : f.content.version <= e.version
         /\ f.latest /\ f.content # Nothing => page[c].shown.version <= f.content.version

\* What is cached was rendered.
Rendered == \A e \in ToSet(contexts) : e.version <= refreshes

PageInv == TypeInv /\ Rendered /\ \A c \in Clients : Ordered(c)

LEMMA PageInvInit == Init => PageInv
  <1> SUFFICES ASSUME Init PROVE PageInv
    OBVIOUS
  <1>1. \A c \in Clients : Ordered(c)
    BY DEF Init, Ordered, Cached, ToSet, NewPage, Nothing
  <1> QED
    BY <1>1, TypeInvInit DEF PageInv, Rendered, Init, ToSet

LEMMA RefreshesGrow == TypeInv /\ [Next]_vars => refreshes' >= refreshes
  <1> SUFFICES ASSUME TypeInv, [Next]_vars PROVE refreshes' >= refreshes
    OBVIOUS
  <1>1. refreshes \in Nat
    BY ConstantsAssumption DEF TypeInv, Server
  <1>2. Start => refreshes' = refreshes + 1
    BY DEF Start
  <1>3. Fail \/ Done \/ Reload \/ EmbedRegister \/ UNCHANGED vars => UNCHANGED refreshes
    BY DEF Fail, Done, Reload, EmbedRegister, vars
  <1>4. ASSUME NEW p \in Paths, Render(p) \/ StoreContent(p) \/ Announce(p) PROVE UNCHANGED refreshes
    BY <1>4 DEF Render, StoreContent, Announce
  <1>5. ASSUME NEW c \in Clients, Subscribe(c) \/ Lose(c) \/ Runtime(c) PROVE UNCHANGED refreshes
    BY <1>5 DEF Subscribe, Lose, Runtime, EngineReady, HandleReady, HandlePathChanged,
                HandleRefreshDone, HandleToolbar, HandlePluginsReloaded, NewLoad, Answer, Arrive,
                handledVars
  <1> QED
    BY <1>1, <1>2, <1>3, <1>4, <1>5 DEF Next, Run

LEMMA PageInvNext == PageInv /\ [Next]_vars => PageInv'
  <1> SUFFICES ASSUME PageInv, [Next]_vars PROVE PageInv'
    OBVIOUS
  <1>t. TypeInv /\ TypeInv' /\ Rendered /\ \A c \in Clients : Ordered(c)
    BY TypeInvNext DEF PageInv
  <1>g. refreshes \in Nat /\ refreshes' \in Nat /\ refreshes' >= refreshes
    BY <1>t, ConstantsAssumption, RefreshesGrow DEF TypeInv, Server
  <1>b. /\ page \in [Clients -> Pages] /\ fetches \in [Clients -> SUBSET Requests] /\ OnlyLast
        /\ page' \in [Clients -> Pages] /\ fetches' \in [Clients -> SUBSET Requests]
    BY <1>t DEF TypeInv, Browsers
  <1>v. /\ \A c \in Clients : page[c].shown.version \in Nat /\ page'[c].shown.version \in Nat
        /\ \A c \in Clients : \A f \in fetches[c] : f.content.version \in Nat
        /\ \A c \in Clients : \A f \in fetches'[c] : f.content.version \in Nat
        /\ \A e \in ToSet(contexts) : e.version \in Nat
        /\ \A e \in ToSet(contexts)' : e.version \in Nat
    <2>1. Contents \in SUBSET [version : Nat, data : Int]
      BY ConstantsAssumption DEF Contents
    <2>2. \A e \in ToSet(contexts) : e \in Entries
      BY <1>t DEF TypeInv, Contexts, ToSet
    <2>3. \A e \in ToSet(contexts)' : e \in Entries
      BY <1>t DEF TypeInv, Contexts, ToSet
    <2>4. \A e \in Entries : e.version \in Nat
      BY ConstantsAssumption DEF Entries
    <2> QED
      BY <1>b, <2>1, <2>2, <2>3, <2>4 DEF Pages, Requests
  \* The cache only moves on.
  <1>c. \A e \in ToSet(contexts)' : e \in ToSet(contexts) \/ e.version = refreshes
    BY <1>t, ContextSteps, ContextsNext
  <1>1. Rendered'
    BY <1>c, <1>g, <1>t, <1>v DEF Rendered
  <1>2. \A c \in Clients : \A e \in Cached(View[c])' : e \in Cached(View[c]) \/ e.version = refreshes
    BY <1>c DEF Cached
  <1>3. \A c \in Clients : Cached(View[c]) \subseteq ToSet(contexts) /\ Cached(View[c])' \subseteq ToSet(contexts)'
    BY DEF Cached
  \* What was behind the cache and the refresh stays behind them.
  <1>4. ASSUME NEW c \in Clients, NEW n \in Nat,
               n <= refreshes /\ \A e \in Cached(View[c]) : n <= e.version
        PROVE  n <= refreshes' /\ \A e \in Cached(View[c])' : n <= e.version
    BY <1>2, <1>3, <1>4, <1>g, <1>v
  \* A page whose requests carry what they carried, or nothing, and that shows what it
  \* showed, or one of them.
  <1>5. ASSUME NEW c \in Clients,
               \/ page'[c].shown.version = page[c].shown.version
               \/ page'[c].shown.version = 0
               \/ \E f \in fetches[c] : page'[c].shown.version = f.content.version,
               \A f \in fetches'[c] :
                 /\ \/ f.content.version = 0
                    \/ \E g \in fetches[c] : f.content.version = g.content.version
                    \/ \E e \in Cached(View[c]) : f.content.version = e.version
                 /\ f.latest /\ f.content # Nothing => page'[c].shown.version <= f.content.version,
               \A e, g \in Cached(View[c]) : e.version = g.version
        PROVE  Ordered(c)'
    <2>1. page'[c].shown.version <= refreshes /\ \A e \in Cached(View[c]) : page'[c].shown.version <= e.version
      BY <1>5, <1>3, <1>g, <1>t, <1>v DEF Ordered
    <2>2. \A f \in fetches'[c] :
            f.content.version <= refreshes /\ \A e \in Cached(View[c]) : f.content.version <= e.version
      BY <1>5, <1>3, <1>g, <1>t, <1>v DEF Ordered, Rendered
    <2>3. page'[c].shown.version <= refreshes' /\ \A e \in Cached(View[c])' : page'[c].shown.version <= e.version
      BY <1>4, <1>v, <2>1
    <2>4. \A f \in fetches'[c] :
            f.content.version <= refreshes' /\ \A e \in Cached(View[c])' : f.content.version <= e.version
      BY <1>4, <1>v, <2>2
    <2> QED
      BY <1>5, <2>3, <2>4 DEF Ordered
  <1>6. ASSUME NEW c \in Clients PROVE \A e, g \in Cached(View[c]) : e = g
    BY <1>t DEF TypeInv, Contexts, Once, Cached, ToSet
  \* Pages that the step leaves alone.
  <1>7. ASSUME NEW c \in Clients, page'[c].shown = page[c].shown,
               \A f \in fetches'[c] : f \in fetches[c] \/ (f.content = Nothing)
                                      \/ (~f.latest /\ \E g \in fetches[c] : f.content = g.content)
        PROVE  Ordered(c)'
    <2>1. Nothing.version = 0
      BY DEF Nothing
    <2>2. \A f \in fetches'[c] :
                 /\ \/ f.content.version = 0
                    \/ \E g \in fetches[c] : f.content.version = g.content.version
                 /\ f.latest /\ f.content # Nothing => page'[c].shown.version <= f.content.version
      BY <1>7, <1>t, <2>1 DEF Ordered
    <2> QED
      BY <1>5, <1>6, <1>7, <2>2
  <1>8. ASSUME NEW c \in Clients, Asks(c) \/ Stays(c) \/ Loads(c) \/ Answers(c) \/ Arrives(c)
        PROVE  Ordered(c)' /\ \A d \in Clients \ {c} : Ordered(d)'
    <2>1. \A d \in Clients \ {c} : page'[d] = page[d] /\ fetches'[d] = fetches[d]
      BY <1>8, <1>b DEF Asks, Stays, Loads, Answers, Arrives
    <2>2. \A d \in Clients \ {c} : Ordered(d)'
      BY <1>7, <2>1
    <2>3. CASE Asks(c)
      <3>1. page'[c].shown = page[c].shown
        BY <1>b, <2>3 DEF Asks
      <3>2. \A f \in fetches'[c] : f.content = Nothing \/ (~f.latest /\ \E g \in fetches[c] : f.content = g.content)
        BY <1>b, <2>3 DEF Asks, Requests
      <3> QED
        BY <2>2, <1>7, <3>1, <3>2
    <2>4. CASE Stays(c)
      <3>1. page'[c].shown = page[c].shown /\ fetches'[c] = fetches[c]
        BY <1>b, <2>4 DEF Stays
      <3> QED
        BY <2>2, <1>7, <3>1
    <2>5. CASE Loads(c)
      <3>1. page'[c].shown.version = 0 /\ fetches'[c] = {}
        BY <1>b, <2>5 DEF Loads, NewPage, Nothing
      <3> QED
        BY <2>2, <1>5, <1>6, <3>1
    <2>6. CASE Answers(c)
      <3>1. PICK f \in fetches[c], new \in Requests :
              /\ new.latest = f.latest
              /\ \/ new.content = f.content
                 \/ \E e \in Cached(View[c]) : new.content.version = e.version
              /\ fetches'[c] = (fetches[c] \ {f}) \cup {new}
        BY <1>b, <2>6 DEF Answers
      <3>2. page'[c] = page[c]
        BY <2>6 DEF Answers
      <3>3. new.latest /\ new.content # Nothing => page[c].shown.version <= new.content.version
        BY <1>t, <3>1 DEF Ordered
      <3>4. \A g \in fetches'[c] : g.latest /\ g.content # Nothing => page'[c].shown.version <= g.content.version
        BY <1>t, <3>1, <3>2, <3>3 DEF Ordered
      <3>5. \A g \in fetches'[c] :
              \/ \E h \in fetches[c] : g.content.version = h.content.version
              \/ \E e \in Cached(View[c]) : g.content.version = e.version
        BY <3>1
      <3> QED
        BY <2>2, <1>5, <1>6, <3>2, <3>4, <3>5
    <2>7. CASE Arrives(c)
      <3>1. PICK f \in fetches[c] :
              /\ fetches'[c] = fetches[c] \ {f}
              /\ page'[c] = IF Accepts(c, f)
                              THEN [page[c] EXCEPT !.shown = f.content, !.loaded = TRUE] ELSE page[c]
        BY <1>b, <2>7 DEF Arrives
      <3>2. CASE Accepts(c, f)
        <4>1. page'[c].shown = f.content /\ f.latest
          BY <1>b, <3>1, <3>2 DEF Accepts, Pages
        <4>2. \A g \in fetches'[c] : ~g.latest
          BY <1>b, <3>1, <4>1 DEF OnlyLast
        <4> QED
          BY <2>2, <1>5, <1>6, <3>1, <4>1, <4>2
      <3>3. CASE ~Accepts(c, f)
        BY <2>2, <1>7, <3>1, <3>3
      <3> QED
        BY <3>2, <3>3
    <2> QED
      BY <1>8, <2>2, <2>3, <2>4, <2>5, <2>6, <2>7
  <1>9. ASSUME UNCHANGED <<page, fetches>>, NEW c \in Clients PROVE Ordered(c)'
    BY <1>7, <1>9
  <1> QED
    BY <1>1, <1>8, <1>9, <1>t, BrowserSteps DEF BrowserStep, PageInv

\* For any pages, requests and refreshes: a response that was overtaken never replaces
\* newer content (preview-app.js: contextFetchSeq), because only the request made last
\* counts, and the cache it is answered from is never behind the page.
THEOREM LiveViewNeverBack == Spec => NeverBack
  <1>1. PageInv /\ [Next]_vars =>
          [\A c \in Clients : page'[c].shown.version < page[c].shown.version => page'[c] = NewPage]_vars
    <2> SUFFICES ASSUME PageInv, [Next]_vars, NEW c \in Clients, page'[c].shown.version < page[c].shown.version
                 PROVE  page'[c] = NewPage
      OBVIOUS
    <2>1. page \in [Clients -> Pages] /\ page[c].shown.version \in Nat
      BY ConstantsAssumption DEF PageInv, TypeInv, Browsers, Pages, Contents
    <2>2. BrowserStep
      BY BrowserSteps DEF PageInv
    <2>3. page'[c].shown # page[c].shown /\ page' # page
      BY <2>1
    <2>4. PICK d \in Clients : Asks(d) \/ Stays(d) \/ Loads(d) \/ Answers(d) \/ Arrives(d)
      BY <2>2, <2>3 DEF BrowserStep
    <2>5. c = d
      BY <2>1, <2>3, <2>4 DEF Asks, Stays, Loads, Answers, Arrives
    <2>6. CASE Arrives(c)
      <3>1. PICK f \in fetches[c] : page' = IF Accepts(c, f)
              THEN [page EXCEPT ![c].shown = f.content, ![c].loaded = TRUE] ELSE page
        BY <2>6 DEF Arrives
      <3>2. page'[c].shown = f.content /\ f.latest /\ f.content # Nothing
        BY <2>1, <2>3, <3>1 DEF Accepts, Pages
      <3>3. page[c].shown.version <= f.content.version /\ f.content.version \in Nat
        BY <3>2, ConstantsAssumption DEF PageInv, Ordered, TypeInv, Browsers, Requests, Contents
      <3> QED
        BY <2>1, <3>2, <3>3
    <2> QED
      BY <2>1, <2>3, <2>4, <2>5, <2>6 DEF Asks, Stays, Loads, Answers
  <1> QED
    BY PageInvInit, PageInvNext, <1>1, PTL DEF Spec, NeverBack

-----------------------------------------------------------------------------
(* The data of what is cached.                                               *)

\* Every refresh gives data that no earlier one gave, and no unsaved buffer registers
\* its own: content that comes back keeps its old place in the store (datastore.go:
\* "if _, exists := versions.body[hash]; exists") and is dropped while a page needs it.
NewData == "revert" \notin Moves /\ "override" \notin Moves

Numbered == data = refreshes /\ \A e \in ToSet(contexts) : e.data = e.version

\* The store holds hashes in the order of their refreshes.
InOrder ==
    /\ \A i, j \in DOMAIN store : i <= j => store[j] - store[i] >= j - i
    /\ \A i \in DOMAIN store : store[i] <= refreshes

\* A render has registered its data before its content is stored.
Registered == job.pc = "store" => data \in ToSet(store)

DataInv == TypeInv /\ Rendered /\ Numbered /\ InOrder /\ Registered /\ DataKept

\* At most Keep refreshes are among the hashes that are not older than refreshes - Keep,
\* so that none of these is trimmed.
LEMMA PutInOrder ==
    ASSUME Store, InOrder, data = refreshes, refreshes \in Nat, Put(data)
    PROVE  /\ \A i, j \in DOMAIN store' : i <= j => store'[j] - store'[i] >= j - i
           /\ \A i \in DOMAIN store' : store'[i] <= refreshes
           /\ data \in ToSet(store)'
           /\ \A x \in ToSet(store) : x > refreshes - Keep => x \in ToSet(store)'
  <1>k. Keep \in Nat \ {0}
    BY ConstantsAssumption
  <1>1. CASE data \in ToSet(store)
    BY <1>1 DEF Put, InOrder
  <1>2. CASE data \notin ToSet(store)
    <2> DEFINE longer == Append(store, data)
               n == Len(store)
    <2>1. /\ longer \in Seq(Int) /\ Len(longer) = n + 1
          /\ \A i \in 1 .. n : longer[i] = store[i] /\ store[i] # data /\ store[i] \in Int
          /\ longer[n + 1] = data /\ n \in Nat /\ DOMAIN store = 1 .. n
      BY <1>2 DEF Store, ToSet
    <2>2. store' = IF Len(longer) > Keep THEN Tail(longer) ELSE longer
      BY <1>2 DEF Put, Trim
    <2>n. n <= Keep
      BY DEF Store
    <2> HIDE DEF longer, n
    <2>3. \A i, j \in 1 .. n : i <= j => store[j] - store[i] >= j - i
      BY <2>1 DEF InOrder
    <2>4. \A i \in 1 .. n : store[i] < refreshes
      BY <2>1 DEF InOrder
    <2>5. \A i, j \in 1 .. n + 1 : i <= j => longer[j] - longer[i] >= j - i
      <3> SUFFICES ASSUME NEW i \in 1 .. n + 1, NEW j \in 1 .. n + 1, i <= j
                   PROVE  longer[j] - longer[i] >= j - i
        OBVIOUS
      <3>1. CASE j <= n
        <4>1. i \in 1 .. n /\ j \in 1 .. n
          BY <2>1, <3>1
        <4> QED
          BY <2>1, <2>3, <4>1
      <3>2. CASE j = n + 1 /\ i = n + 1
        BY <2>1, <3>2
      <3>3. CASE j = n + 1 /\ i <= n
        <4>1. n \in 1 .. n /\ i \in 1 .. n
          BY <2>1, <3>3
        <4>2. store[n] - store[i] >= n - i /\ store[n] < refreshes
          BY <2>3, <2>4, <4>1, <3>3
        <4>3. longer[j] = refreshes /\ longer[i] = store[i]
          BY <2>1, <3>3, <4>1
        <4>4. store[n] \in Int /\ store[i] \in Int
          BY <2>1, <4>1
        <4> QED
          BY <2>1, <3>3, <4>2, <4>3, <4>4
      <3> QED
        BY <2>1, <3>1, <3>2, <3>3
    <2>6. \A i \in 1 .. n + 1 : longer[i] <= refreshes /\ longer[i] \in Int
      BY <2>1, <2>4
    <2>7. CASE Len(longer) <= Keep
      <3>1. store' = longer /\ DOMAIN longer = 1 .. n + 1
        BY <1>k, <2>1, <2>2, <2>7
      <3>2. \A x \in ToSet(store) : x \in ToSet(longer)
        BY <2>1, <3>1 DEF ToSet
      <3>3. data \in ToSet(longer)
        BY <2>1, <3>1 DEF ToSet
      <3> QED
        BY <2>5, <2>6, <3>1, <3>2, <3>3
    <2>8. CASE Len(longer) > Keep
      <3>1. /\ store' = Tail(longer) /\ DOMAIN Tail(longer) = 1 .. n
            /\ \A i \in 1 .. n : Tail(longer)[i] = longer[i + 1]
        BY <2>1, <2>2, <2>8
      <3>2. n = Keep
        BY <1>k, <2>1, <2>8, <2>n
      \* The one that is dropped is the data of a refresh that is Keep refreshes old.
      <3>3. longer[1] <= refreshes - Keep
        <4>1. longer[n + 1] - longer[1] >= n
          BY <2>1, <2>5
        <4>2. longer[1] \in Int /\ longer[n + 1] = refreshes
          BY <2>1, <2>6
        <4> QED
          BY <1>k, <3>2, <4>1, <4>2
      <3>4. ASSUME NEW x \in ToSet(store), x > refreshes - Keep PROVE x \in ToSet(store)'
        <4>1. PICK i \in 1 .. n : x = longer[i]
          BY <2>1 DEF ToSet
        <4>2. i # 1
          BY <1>k, <2>6, <3>3, <3>4, <4>1, <2>1
        <4>3. i - 1 \in 1 .. n /\ Tail(longer)[i - 1] = longer[i]
          BY <2>1, <3>1, <4>1, <4>2
        <4> QED
          BY <3>1, <4>1, <4>3 DEF ToSet
      <3>5. data \in ToSet(store)'
        <4>1. n \in 1 .. n /\ Tail(longer)[n] = data
          BY <1>k, <2>1, <3>1, <3>2
        <4> QED
          BY <3>1, <4>1 DEF ToSet
      <3>6. \A i, j \in 1 .. n : i <= j => Tail(longer)[j] - Tail(longer)[i] >= j - i
        <4> SUFFICES ASSUME NEW i \in 1 .. n, NEW j \in 1 .. n, i <= j
                     PROVE  Tail(longer)[j] - Tail(longer)[i] >= j - i
          OBVIOUS
        <4>1. i + 1 \in 1 .. n + 1 /\ j + 1 \in 1 .. n + 1 /\ i + 1 <= j + 1
          BY <2>1
        <4>2. longer[j + 1] - longer[i + 1] >= (j + 1) - (i + 1)
          BY <2>5, <4>1
        <4> QED
          BY <2>1, <2>6, <3>1, <4>1, <4>2
      <3>7. \A i \in 1 .. n : Tail(longer)[i] <= refreshes
        BY <2>1, <2>6, <3>1
      <3> QED
        BY <3>1, <3>4, <3>5, <3>6, <3>7
    <2> QED
      BY <1>k, <2>1, <2>7, <2>8
  <1> QED
    BY <1>1, <1>2

LEMMA DataInvInit == Init => DataInv
  <1> SUFFICES ASSUME Init PROVE DataInv
    OBVIOUS
  <1>1. Numbered /\ InOrder /\ Registered /\ DataKept /\ Rendered
    BY DEF Init, Numbered, InOrder, Registered, DataKept, Rendered, ToSet, NoJob
  <1> QED
    BY <1>1, TypeInvInit DEF DataInv

\* A refresh starts, or the data stays and the render that will store content has
\* registered it.
LEMMA DataSteps ==
    ASSUME TypeInv, [Next]_vars
    PROVE  \/ Start
           \/ /\ UNCHANGED <<refreshes, data>>
              /\ Put(data) \/ (job'.pc = "store" => job.pc = "store")
  <1>t. job \in Jobs
    BY DEF TypeInv, Server
  <1>1. Fail \/ Done \/ Reload \/ EmbedRegister \/ UNCHANGED vars =>
          UNCHANGED <<refreshes, data>> /\ (job'.pc = "store" => job.pc = "store")
    <2>1. CASE Fail
      BY <1>t, <2>1 DEF Fail, Jobs
    <2>2. CASE Done
      BY <1>t, <2>2 DEF Done, NoJob, Jobs
    <2>3. CASE Reload
      BY <2>3 DEF Reload, NoJob
    <2>4. CASE EmbedRegister \/ UNCHANGED vars
      BY <2>4 DEF EmbedRegister, vars
    <2> QED
      BY <2>1, <2>2, <2>3, <2>4
  <1>2. ASSUME NEW p \in Paths, StoreContent(p) \/ Announce(p)
        PROVE  UNCHANGED <<refreshes, data>> /\ (job'.pc = "store" => job.pc = "store")
    BY <1>2, <1>t DEF StoreContent, Announce, Jobs
  <1>3. ASSUME NEW p \in Paths, Render(p) PROVE UNCHANGED <<refreshes, data>> /\ Put(data)
    BY <1>3 DEF Render
  <1>4. ASSUME NEW c \in Clients, Subscribe(c) \/ Lose(c) \/ Runtime(c)
        PROVE  UNCHANGED <<refreshes, data, job>>
    BY <1>4 DEF Subscribe, Lose, Runtime, EngineReady, HandleReady, HandlePathChanged,
                HandleRefreshDone, HandleToolbar, HandlePluginsReloaded, NewLoad, Answer, Arrive,
                handledVars
  <1> QED
    BY <1>1, <1>2, <1>3, <1>4 DEF Next, Run

LEMMA DataInvNext == NewData /\ DataInv /\ [Next]_vars => DataInv'
  <1> SUFFICES ASSUME NewData, DataInv, [Next]_vars PROVE DataInv'
    OBVIOUS
  <1>t. /\ TypeInv /\ TypeInv' /\ Rendered /\ Numbered /\ InOrder /\ Registered /\ DataKept
        /\ Store /\ Keep \in Nat \ {0}
    BY TypeInvNext, ConstantsAssumption DEF DataInv, TypeInv
  <1>g. refreshes \in Nat /\ refreshes' \in Nat /\ refreshes' >= refreshes
    BY <1>t, ConstantsAssumption, RefreshesGrow DEF TypeInv, Server
  <1>v. /\ \A e \in ToSet(contexts) : e.version \in Nat
        /\ \A i \in DOMAIN store : store[i] \in Int
    <2>1. \A e \in ToSet(contexts) : e \in Entries
      BY <1>t DEF TypeInv, Contexts, ToSet
    <2> QED
      BY <1>t, <2>1, ConstantsAssumption DEF Entries, Store
  <1>1. CASE Start
    <2>1. /\ refreshes' = refreshes + 1 /\ data' = refreshes'
          /\ UNCHANGED <<contexts, store>> /\ job'.pc = "render"
      BY <1>1, <1>g DEF Start, Emits, NewData, serverVars, NoJob
    <2>2. Rendered' /\ Numbered'
      BY <1>t, <1>g, <1>v, <2>1 DEF Rendered, Numbered
    <2>3. InOrder' /\ Registered'
      BY <1>t, <1>g, <1>v, <2>1 DEF InOrder, Registered
    <2>4. DataKept'
      BY <1>t, <1>g, <1>v, <2>1 DEF DataKept
    <2> QED
      BY <1>t, <2>2, <2>3, <2>4 DEF DataInv
  <1>2. CASE UNCHANGED <<refreshes, data>> /\ (Put(data) \/ (job'.pc = "store" => job.pc = "store"))
    <2>1. UNCHANGED store \/ Put(data)
      BY StoreSteps DEF StoreStep, NewData
    <2>2. /\ \A i, j \in DOMAIN store' : i <= j => store'[j] - store'[i] >= j - i
          /\ \A i \in DOMAIN store' : store'[i] <= refreshes
          /\ Put(data) => data \in ToSet(store)'
          /\ \A x \in ToSet(store) : x > refreshes - Keep => x \in ToSet(store)'
      <3>1. CASE UNCHANGED store /\ ~Put(data)
        BY <1>t, <3>1 DEF InOrder
      <3>2. CASE Put(data)
        BY <1>t, <1>g, <3>2, PutInOrder DEF Numbered
      <3> QED
        BY <2>1, <3>1, <3>2
    <2>3. \A e \in ToSet(contexts)' :
            e \in ToSet(contexts) \/ (job.pc = "store" /\ e.version = refreshes /\ e.data = data)
      BY <1>t, ContextSteps, ContextsNext
    <2>4. Rendered' /\ Numbered'
      BY <1>2, <1>t, <1>g, <2>3 DEF Rendered, Numbered
    <2>5. InOrder'
      BY <1>2, <2>2 DEF InOrder
    <2>6. data \in ToSet(store) => data \in ToSet(store)'
      <3>1. data > refreshes - Keep
        BY <1>t, <1>g DEF Numbered
      <3> QED
        BY <2>2, <3>1
    <2>7. Registered'
      BY <1>2, <1>t, <2>2, <2>6 DEF Registered
    <2>8. DataKept'
      <3> SUFFICES ASSUME NEW e \in ToSet(contexts)', e.version > refreshes - Keep
                   PROVE  e.data \in ToSet(store)'
        BY <1>2 DEF DataKept
      <3>1. CASE e \in ToSet(contexts)
        <4>1. e.data \in ToSet(store) /\ e.data > refreshes - Keep
          BY <1>t, <3>1 DEF DataKept, Numbered
        <4> QED
          BY <2>2, <4>1
      <3>2. CASE job.pc = "store" /\ e.data = data
        BY <1>t, <2>6, <3>2 DEF Registered
      <3> QED
        BY <2>3, <3>1, <3>2
    <2> QED
      BY <1>t, <2>4, <2>5, <2>7, <2>8 DEF DataInv
  <1> QED
    BY <1>1, <1>2, <1>t, DataSteps

\* For any number of views and refreshes and any number of hashes the store keeps: the
\* data of what the last Keep refreshes rendered is there for the pages that fetch it,
\* when every refresh gives new data.
THEOREM LiveViewDataKept == NewData => (Spec => []DataKept)
  <1> SUFFICES ASSUME NewData PROVE Spec => []DataKept
    OBVIOUS
  <1>1. DataInv /\ [Next]_vars => DataInv'
    BY DataInvNext
  <1>2. DataInv => DataKept
    BY DEF DataInv
  <1> QED
    BY DataInvInit, <1>1, <1>2, PTL DEF Spec
=============================================================================
