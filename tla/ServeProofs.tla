----------------------------- MODULE ServeProofs -----------------------------
(* What `bino serve` promises its viewers, for every number of viewers,      *)
(* routes and parameters and every size of the page cache.                   *)
EXTENDS Serve, FiniteSetTheorems, TLAPS

\* What the request that works knows: its documents, that no other has stored
\* its page, and, once it has the page, that it is at the back of the list.
Turn ==
    \A c \in Clients :
        /\ req[c].at # "idle" => req[c].route \in Routes
        /\ req[c].at \in {"hook", "wait", "locked"} => req[c].docs = Nothing
        /\ req[c].at \in {"loaded", "registered", "queried"} =>
             /\ req[c].docs \in Docs
             /\ Reloads(c) => host = req[c].docs
        /\ req[c].docs # Nothing => req[c].docs \in Docs /\ req[c].docs.value = req[c].value
        /\ req[c].at \in {"registered", "queried"} => ~Hits(c)
        /\ req[c].at = "queried" => req[c].body \in Bodies
        /\ req[c].at = "page" =>
             /\ Hits(c)
             /\ cache[KeyOf(c)] = req[c].body
             /\ newer[KeyOf(c)] = {}

\* The list is in one order.
Order ==
    /\ IsFiniteSet(Cached)
    /\ \A k \in Cached : newer[k] \subseteq Cached \ {k}
    /\ \A j, k \in Cached : j # k => (j \in newer[k] <=> k \notin newer[j])
    /\ \A j, k \in Cached : j \in newer[k] => newer[j] \subseteq newer[k]

\* A page that was not lost is cached as it is shown, and all that are behind
\* it have been used since.
Reach ==
    \A c \in Clients :
        /\ IsFiniteSet(shown[c].since)
        /\ shown[c].key # Nothing /\ Within(shown[c]) =>
             /\ shown[c].key \in Cached
             /\ cache[shown[c].key] = shown[c].body
             /\ newer[shown[c].key] \subseteq shown[c].since

ServeInv == TypeOK /\ MutexHeld /\ Turn /\ Order /\ Reach

-----------------------------------------------------------------------------
(* The list.                                                                 *)

\* The front of the list exists: counting what is behind a key numbers the keys.
LEMMA FrontExists ==
    ASSUME Order, Cached # {}
    PROVE  \E k \in Cached : newer[k] = Cached \ {k}
  <1> DEFINE n == Cardinality(Cached)
             behind == [k \in Cached |-> Cardinality(newer[k])]
  <1>1. IsFiniteSet(Cached) /\ n \in Nat /\ n > 0
    <2>1. IsFiniteSet(Cached)
      BY DEF Order
    <2> QED
      BY <2>1, FS_CardinalityType, FS_EmptySet
  <1>2. \A k \in Cached : /\ IsFiniteSet(Cached \ {k})
                          /\ Cardinality(Cached \ {k}) = n - 1
    BY <1>1, FS_RemoveElement
  <1>3. \A k \in Cached : /\ IsFiniteSet(newer[k])
                          /\ Cardinality(newer[k]) \in 0 .. n - 1
                          /\ Cardinality(newer[k]) = n - 1 => newer[k] = Cached \ {k}
    <2> SUFFICES ASSUME NEW k \in Cached
                 PROVE  /\ IsFiniteSet(newer[k])
                        /\ Cardinality(newer[k]) \in 0 .. n - 1
                        /\ Cardinality(newer[k]) = n - 1 => newer[k] = Cached \ {k}
      OBVIOUS
    <2>1. newer[k] \in SUBSET (Cached \ {k})
      BY DEF Order
    <2>2. /\ IsFiniteSet(newer[k])
          /\ Cardinality(newer[k]) <= Cardinality(Cached \ {k})
          /\ Cardinality(Cached \ {k}) = Cardinality(newer[k]) => Cached \ {k} = newer[k]
      BY <2>1, <1>2, FS_Subset
    <2>3. Cardinality(newer[k]) \in Nat
      BY <2>2, FS_CardinalityType
    <2> QED
      BY <2>2, <2>3, <1>1, <1>2
  <1>4. behind \in [Cached -> 0 .. n - 1]
    BY <1>3
  <1>5. \A j, k \in Cached : behind[j] = behind[k] => j = k
    <2> SUFFICES ASSUME NEW j \in Cached, NEW k \in Cached, j # k, j \in newer[k]
                 PROVE  behind[j] # behind[k]
      BY DEF Order
    <2>1. newer[j] \in SUBSET newer[k]
      BY DEF Order
    <2>2. newer[j] # newer[k]
      BY DEF Order
    <2> QED
      BY <2>1, <2>2, <1>3, FS_Subset
  <1>6. behind \in Injection(Cached, 0 .. n - 1)
    BY <1>4, <1>5 DEF Injection, IsInjective
  <1>7. IsFiniteSet(0 .. n - 1) /\ Cardinality(0 .. n - 1) = n
    BY <1>1, FS_Interval
  <1>8. behind \in Surjection(Cached, 0 .. n - 1)
    BY <1>6, <1>7, FS_Injection
  <1>9. n - 1 \in 0 .. n - 1
    BY <1>1
  <1>10. \E k \in Cached : behind[k] = n - 1
    <2> HIDE DEF n, behind
    <2> QED
      BY <1>8, <1>9 DEF Surjection
  <1> QED
    BY <1>3, <1>10

\* What was used since, after one more use.
LEMMA UsedSince ==
    ASSUME TypeOK, Reach, NEW k \in Keys, shown' = Used(k), NEW c \in Clients
    PROVE  /\ shown'[c].key = shown[c].key
           /\ shown'[c].body = shown[c].body
           /\ IsFiniteSet(shown'[c].since)
           /\ shown'[c].key # Nothing =>
                \/ shown[c].key # k /\ shown'[c].since = shown[c].since \cup {k}
                \/ shown[c].key = k /\ Within(shown[c]) /\ shown'[c].since = {}
                \/ shown[c].key = k /\ ~Within(shown[c]) /\ shown'[c] = shown[c]
  <1>1. shown[c] \in Shown /\ IsFiniteSet(shown[c].since)
    BY DEF TypeOK, Reach
  <1>2. IsFiniteSet(shown[c].since \cup {k}) /\ IsFiniteSet({})
    BY <1>1, FS_AddElement, FS_EmptySet
  <1> QED
    BY <1>1, <1>2 DEF Used, Shown

\* More than a lost page's worth of uses does not bring it back.
LEMMA StillWithin ==
    ASSUME NEW S, IsFiniteSet(S), NEW k, Cardinality(S \cup {k}) < MaxEntries
    PROVE  Cardinality(S) < MaxEntries
  <1>1. /\ IsFiniteSet(S \cup {k})
        /\ Cardinality(S) \in Nat
        /\ Cardinality(S \cup {k}) = IF k \in S THEN Cardinality(S) ELSE Cardinality(S) + 1
    BY FS_AddElement, FS_CardinalityType
  <1> QED
    BY <1>1, ServeAssumption

LEMMA GetKeeps ==
    ASSUME TypeOK, Order, Reach, NEW k \in Cached, Get(k)
    PROVE  /\ newer' \in [Keys -> SUBSET Cached]
           /\ newer'[k] = {}
           /\ Cached' = Cached
           /\ Order'
           /\ Reach'
  <1>1. Cached' = Cached /\ k \in Keys /\ cache' = cache
    BY DEF Get, Cached
  <1>2. newer' = [j \in Keys |-> CASE j = k -> {}
                                  [] j \in Cached \ {k} -> (newer[j] \cap Cached) \cup {k}
                                  [] OTHER -> {}]
    BY DEF Get, ToBack
  <1>3. newer' \in [Keys -> SUBSET Cached]
    BY <1>2
  <1>4. newer'[k] = {} /\ \A j \in Cached \ {k} : newer'[j] = newer[j] \cup {k}
    BY <1>1, <1>2 DEF Order, Cached
  <1>5. Order'
    BY <1>1, <1>4 DEF Order
  <1>6. Reach'
    <2> SUFFICES ASSUME NEW c \in Clients
                 PROVE  /\ IsFiniteSet(shown'[c].since)
                        /\ shown'[c].key # Nothing /\ Within(shown'[c]) =>
                             /\ shown'[c].key \in Cached
                             /\ cache'[shown'[c].key] = shown'[c].body
                             /\ newer'[shown'[c].key] \subseteq shown'[c].since
      BY <1>1 DEF Reach, Within
    <2>1. IsFiniteSet(shown'[c].since) /\ IsFiniteSet(shown[c].since)
      BY <1>1, UsedSince DEF Get, Reach
    <2> SUFFICES ASSUME shown'[c].key # Nothing, Within(shown'[c])
                 PROVE  /\ shown'[c].key \in Cached
                        /\ cache'[shown'[c].key] = shown'[c].body
                        /\ newer'[shown'[c].key] \subseteq shown'[c].since
      BY <2>1
    <2>2. Within(shown[c])
      BY <1>1, <2>1, UsedSince, StillWithin DEF Get, Within
    <2>3. /\ shown[c].key \in Cached
          /\ cache[shown[c].key] = shown[c].body
          /\ newer[shown[c].key] \subseteq shown[c].since
      BY <1>1, <2>2, UsedSince DEF Get, Reach
    <2> QED
      BY <1>1, <1>4, <2>2, <2>3, UsedSince DEF Get
  <1> QED
    BY <1>1, <1>3, <1>4, <1>5, <1>6

LEMMA SetKeeps ==
    ASSUME TypeOK, Order, Reach, NEW k \in Keys, k \notin Cached,
           NEW body \in Bodies, Set(k, body)
    PROVE  /\ cache' \in [Keys -> Bodies \cup {Nothing}]
           /\ newer' \in [Keys -> SUBSET Cached']
           /\ k \in Cached'
           /\ cache'[k] = body
           /\ newer'[k] = {}
           /\ Cardinality(Cached') <= MaxEntries
           /\ Order'
           /\ Reach'
  <1> DEFINE kept == (Cached \cup {k}) \ Evicted(k)
  <1>1. /\ cache' = [j \in Keys |-> CASE j = k -> body
                                      [] j \in kept \ {k} -> cache[j]
                                      [] OTHER -> Nothing]
        /\ newer' = [j \in Keys |-> CASE j = k -> {}
                                      [] j \in kept \ {k} -> (newer[j] \cap kept) \cup {k}
                                      [] OTHER -> {}]
        /\ shown' = Used(k)
    BY DEF Set, ToBack
  <1>2. k \in kept /\ kept \subseteq Keys /\ kept \ {k} \subseteq Cached
    BY DEF Evicted, Cached
  <1>3. body # Nothing
    BY NothingAssumption
  <1>4. Cached' = kept
    BY <1>1, <1>2, <1>3 DEF Cached
  <1>5. cache' \in [Keys -> Bodies \cup {Nothing}]
    BY <1>1 DEF TypeOK
  <1>6. newer' \in [Keys -> SUBSET kept]
    BY <1>1, <1>2
  <1>7. newer'[k] = {} /\ \A j \in kept \ {k} :
           newer'[j] = (newer[j] \cap kept) \cup {k} /\ cache'[j] = cache[j]
    BY <1>1, <1>2
  <1>8. IsFiniteSet(Cached) /\ IsFiniteSet(Cached \cup {k}) /\ IsFiniteSet(kept)
    <2>1. IsFiniteSet(Cached)
      BY DEF Order
    <2>2. IsFiniteSet(Cached \cup {k})
      BY <2>1, FS_AddElement
    <2>3. kept \in SUBSET (Cached \cup {k})
      OBVIOUS
    <2> QED
      BY <2>1, <2>2, <2>3, FS_Subset
  <1>9. /\ Cardinality(Cached) \in Nat
        /\ Cardinality(Cached) <= MaxEntries
        /\ Cardinality(Cached \cup {k}) = Cardinality(Cached) + 1
    BY <1>8, FS_AddElement, FS_CardinalityType DEF TypeOK
  <1>10. Cardinality(kept) <= MaxEntries
    <2>1. CASE Cardinality(Cached \cup {k}) <= MaxEntries
      <3>1. Cardinality(kept) <= Cardinality(Cached \cup {k})
        BY <1>8, FS_Subset
      <3>2. Cardinality(kept) \in Nat
        BY <1>8, FS_CardinalityType
      <3> QED
        BY <2>1, <3>1, <3>2, <1>9, ServeAssumption
    <2>2. CASE Cardinality(Cached \cup {k}) > MaxEntries
      <3>1. Cached # {}
        BY <1>8, <1>9, <2>2, FS_EmptySet, ServeAssumption
      <3>2. PICK f \in Cached : newer[f] = Cached \ {f}
        BY <3>1, FrontExists
      <3>3. f \in Evicted(k)
        BY <2>2, <3>2 DEF Evicted
      <3>4. kept \in SUBSET ((Cached \cup {k}) \ {f})
        BY <3>3
      <3>5. /\ IsFiniteSet((Cached \cup {k}) \ {f})
            /\ Cardinality((Cached \cup {k}) \ {f}) = Cardinality(Cached \cup {k}) - 1
        BY <1>8, FS_RemoveElement
      <3>6. Cardinality(kept) <= Cardinality((Cached \cup {k}) \ {f})
        BY <3>4, <3>5, FS_Subset
      <3>7. Cardinality(kept) \in Nat
        BY <1>8, FS_CardinalityType
      <3> HIDE DEF kept
      <3> QED
        BY <3>5, <3>6, <3>7, <1>9, ServeAssumption
    <2> QED
      BY <2>1, <2>2, <1>9, ServeAssumption
  <1>11. Order'
    <2>1. \A j \in kept \ {k} : k \notin newer[j] /\ j \in Cached /\ newer[j] \subseteq Cached \ {j}
      BY <1>2 DEF Order
    <2>2. \A j \in kept : newer'[j] \subseteq kept \ {j}
      BY <1>2, <1>7, <2>1
    <2>3. \A i, j \in kept : i # j => (i \in newer'[j] <=> j \notin newer'[i])
      BY <1>2, <1>7, <2>1 DEF Order
    <2>4. \A i, j \in kept : i \in newer'[j] => newer'[i] \subseteq newer'[j]
      <3> SUFFICES ASSUME NEW i \in kept, NEW j \in kept, i \in newer'[j]
                   PROVE  newer'[i] \subseteq newer'[j]
        OBVIOUS
      <3>1. CASE i = k
        BY <3>1, <1>7
      <3>2. CASE i # k
        <4>1. j # k /\ i \in newer[j]
          BY <3>2, <1>7
        <4>2. newer[i] \subseteq newer[j]
          BY <4>1, <3>2, <2>1 DEF Order
        <4> QED
          BY <4>1, <4>2, <3>2, <1>7
      <3> QED
        BY <3>1, <3>2
    <2> QED
      BY <1>4, <1>8, <2>2, <2>3, <2>4 DEF Order
  <1>12. Reach'
    <2> SUFFICES ASSUME NEW c \in Clients
                 PROVE  /\ IsFiniteSet(shown'[c].since)
                        /\ shown'[c].key # Nothing /\ Within(shown'[c]) =>
                             /\ shown'[c].key \in kept
                             /\ cache'[shown'[c].key] = shown'[c].body
                             /\ newer'[shown'[c].key] \subseteq shown'[c].since
      BY <1>4 DEF Reach, Within
    <2>1. IsFiniteSet(shown'[c].since) /\ IsFiniteSet(shown[c].since)
      BY <1>1, UsedSince DEF Reach
    <2> SUFFICES ASSUME shown'[c].key # Nothing, Within(shown'[c])
                 PROVE  /\ shown'[c].key \in kept
                        /\ cache'[shown'[c].key] = shown'[c].body
                        /\ newer'[shown'[c].key] \subseteq shown'[c].since
      BY <2>1
    <2> DEFINE j == shown[c].key
    <2>2. Within(shown[c])
      BY <1>1, <2>1, UsedSince, StillWithin DEF Within
    <2>3. /\ j # Nothing /\ j \in Cached
          /\ cache[j] = shown[c].body
          /\ newer[j] \subseteq shown[c].since
      BY <1>1, <2>2, UsedSince DEF Reach
    <2>4. /\ shown'[c].key = j /\ shown'[c].body = shown[c].body
          /\ shown'[c].since = shown[c].since \cup {k}
      BY <1>1, <2>3, UsedSince
    <2>5. j \notin Evicted(k)
      <3> SUFFICES ASSUME j \in Evicted(k) PROVE FALSE
        OBVIOUS
      <3>1. newer[j] = Cached \ {j} /\ Cardinality(Cached \cup {k}) > MaxEntries
        BY DEF Evicted
      <3>2. (Cached \ {j}) \cup {k} \subseteq shown'[c].since
        BY <3>1, <2>3, <2>4
      <3>3. IsFiniteSet(Cached \ {j}) /\ Cardinality(Cached \ {j}) = Cardinality(Cached) - 1
        BY <1>8, <2>3, FS_RemoveElement
      <3>4. Cardinality((Cached \ {j}) \cup {k}) = Cardinality(Cached)
        <4> DEFINE rest == Cached \ {j}
        <4>1. k \notin rest /\ IsFiniteSet(rest)
          BY <3>3
        <4>2. Cardinality(rest \cup {k}) = Cardinality(rest) + 1
          BY <4>1, FS_AddElement
        <4> QED
          BY <4>2, <3>3, <1>9
      <3>5. Cardinality((Cached \ {j}) \cup {k}) <= Cardinality(shown'[c].since)
        BY <3>2, <2>1, FS_Subset
      <3>6. Cardinality(shown'[c].since) \in Nat
        BY <2>1, FS_CardinalityType
      <3> QED
        BY <3>1, <3>4, <3>5, <3>6, <1>9, ServeAssumption DEF Within
    <2>6. j \in kept \ {k}
      BY <2>3, <2>5
    <2> QED
      BY <2>3, <2>4, <2>6, <1>7
  <1> HIDE DEF kept
  <1> QED
    BY <1>2, <1>4, <1>5, <1>6, <1>7, <1>10, <1>11, <1>12, <1>1

-----------------------------------------------------------------------------
(* Each step keeps the invariant.                                            *)

\* A browser shows something else.
LEMMA ShowsKeeps ==
    ASSUME Reach, NEW c \in Clients, NEW page,
           shown' = [shown EXCEPT ![c] = page], shown = [b \in Clients |-> shown[b]],
           UNCHANGED pages, IsFiniteSet(page.since),
           page.key # Nothing => /\ page.key \in Cached
                                 /\ cache[page.key] = page.body
                                 /\ newer[page.key] = {}
    PROVE  Reach'
  <1>1. Cached' = Cached
    BY DEF Cached, pages
  <1>2. \A b \in Clients : shown'[b] = IF b = c THEN page ELSE shown[b]
    OBVIOUS
  <1> QED
    BY <1>1, <1>2 DEF Reach, Within, pages

LEMMA SamePages ==
    ASSUME Order, UNCHANGED pages
    PROVE  Order' /\ Cached' = Cached
  BY DEF Order, Cached, pages

LEMMA SameShown ==
    ASSUME Reach, UNCHANGED pages, UNCHANGED shown
    PROVE  Reach'
  BY SamePages DEF Reach, Within, Cached, pages

\* What the views of a request leave in the session has the right type.
LEMMA RegisterTypes ==
    ASSUME TypeOK, NEW d \in Docs, Registers(d)
    PROVE  views' \in Docs /\ attached' \in Docs \cup {Nothing} /\ mixed' \in BOOLEAN
  <1>1. views' \in Docs /\ attached' \in Docs \cup {Nothing}
    BY DEF Registers, TypeOK
  <1>2. mixed' \in BOOLEAN
    BY Zenon DEF Registers, TypeOK
  <1> QED
    BY <1>1, <1>2

LEMMA OptionTypes ==
    ASSUME TypeOK, NEW c \in Clients, NEW d \in Docs, Options(c, d)
    PROVE  views' \in Docs /\ attached' \in Docs \cup {Nothing} /\ mixed' \in BOOLEAN
  <1>1. CASE Registers(d)
    BY <1>1, RegisterTypes
  <1>2. CASE UNCHANGED session
    BY <1>2 DEF session, TypeOK
  <1> QED
    BY <1>1, <1>2 DEF Options

LEMMA InitInv == Init => ServeInv
  <1> SUFFICES ASSUME Init PROVE ServeInv
    OBVIOUS
  <1>1. Cached = {} /\ IsFiniteSet({}) /\ Cardinality({}) = 0
    BY FS_EmptySet DEF Init, Cached
  <1>0. mixed \in BOOLEAN
    BY Zenon DEF Init
  <1>2. TypeOK
    BY <1>0, <1>1, ServeAssumption DEF Init, TypeOK, Edits, Docs, Base, Asked, Requests,
       Idle, Shown, Blank
  <1>3. MutexHeld
    BY ServeAssumption DEF Init, MutexHeld, Working, Idle
  <1>4. Turn
    BY DEF Init, Turn, Idle
  <1>5. Order /\ Reach
    BY <1>1 DEF Init, Order, Reach, Blank
  <1> QED
    BY <1>2, <1>3, <1>4, <1>5 DEF ServeInv

LEMMA PageKeys ==
    ASSUME NEW r \in Routes, NEW v \in Asked
    PROVE  Key(r, v) \in Keys
  BY DEF Key, Keys, Names

LEMMA BlankPage == Blank.key = Nothing /\ IsFiniteSet(Blank.since)
  BY FS_EmptySet DEF Blank

LEMMA BlankShown == Blank \in Shown /\ Idle.at = "idle" /\ Idle \in Requests
  BY ServeAssumption DEF Blank, Shown, Idle, Requests, Asked

LEMMA HookReturnsInv ==
    ASSUME ServeInv, NEW c \in Clients, HookReturns(c)
    PROVE  ServeInv'
  <1> USE DEF ServeInv
  <1>1. Order' /\ Cached' = Cached /\ UNCHANGED pages
    BY SamePages DEF HookReturns, pages
  <1>2. TypeOK'
    BY <1>1, BlankShown, ServeAssumption DEF HookReturns, TypeOK, Requests, Shown, Blank, Idle, pages, project, session, Working, Asked, Edits
  <1>3. MutexHeld'
    BY ServeAssumption DEF HookReturns, MutexHeld, Working, Idle, TypeOK
  <1>4. Turn'
    BY <1>1 DEF HookReturns, Turn, Reloads, Hits, KeyOf, Key, Idle, pages, project, session, Working, MutexHeld, TypeOK
  <1>5. Reach'
    BY <1>1, SameShown DEF HookReturns, Reach
  <1> QED
    BY <1>1, <1>2, <1>3, <1>4, <1>5

LEMMA HookFailsInv ==
    ASSUME ServeInv, NEW c \in Clients, HookFails(c)
    PROVE  ServeInv'
  <1> USE DEF ServeInv
  <1>1. Order' /\ Cached' = Cached /\ UNCHANGED pages
    BY SamePages DEF HookFails, Answer, pages
  <1>2. TypeOK'
    BY <1>1, BlankShown, ServeAssumption DEF HookFails, Answer, TypeOK, Requests, Shown, Blank, Idle, pages, project, session, Working, Asked, Edits
  <1>3. MutexHeld'
    BY ServeAssumption DEF HookFails, Answer, MutexHeld, Working, Idle, TypeOK
  <1>4. Turn'
    BY <1>1 DEF HookFails, Answer, Turn, Reloads, Hits, KeyOf, Key, Idle, pages, project, session, Working, MutexHeld, TypeOK
  <1>5. Reach'
    BY <1>1, ShowsKeeps, BlankPage DEF HookFails, Answer, TypeOK
  <1> QED
    BY <1>1, <1>2, <1>3, <1>4, <1>5

LEMMA LockInv ==
    ASSUME ServeInv, NEW c \in Clients, Lock(c)
    PROVE  ServeInv'
  <1> USE DEF ServeInv
  <1>1. Order' /\ Cached' = Cached /\ UNCHANGED pages
    BY SamePages DEF Lock, Free, pages
  <1>2. TypeOK'
    BY <1>1, BlankShown, ServeAssumption DEF Lock, Free, TypeOK, Requests, Shown, Blank, Idle, pages, project, session, Working, Asked, Edits
  <1>3. MutexHeld'
    BY ServeAssumption DEF Lock, Free, MutexHeld, Working, Idle, TypeOK
  <1>4. Turn'
    BY <1>1 DEF Lock, Free, Turn, Reloads, Hits, KeyOf, Key, Idle, pages, project, session, Working, MutexHeld, TypeOK
  <1>5. Reach'
    BY <1>1, SameShown DEF Lock, Free, Reach
  <1> QED
    BY <1>1, <1>2, <1>3, <1>4, <1>5

LEMMA ShowFormInv ==
    ASSUME ServeInv, NEW c \in Clients, ShowForm(c)
    PROVE  ServeInv'
  <1> USE DEF ServeInv
  <1>1. Order' /\ Cached' = Cached /\ UNCHANGED pages
    BY SamePages DEF ShowForm, Is, Missing, Options, Registers, Answer, Unlock, pages
  <1>2. TypeOK'
    <2>1. Base \in Docs
      BY ServeAssumption DEF Base, Docs, Edits, Asked
    <2>2. views' \in Docs /\ attached' \in Docs \cup {Nothing} /\ mixed' \in BOOLEAN
      BY <2>1, OptionTypes DEF ShowForm
    <2> QED
      BY <1>1, <2>2, BlankShown, ServeAssumption DEF ShowForm, Answer, Unlock, TypeOK, pages, project
  <1>3. MutexHeld'
    BY ServeAssumption DEF ShowForm, Is, Missing, Options, Registers, Answer, Unlock, MutexHeld, Working, Idle, TypeOK
  <1>4. Turn'
    BY <1>1 DEF ShowForm, Is, Missing, Options, Registers, Answer, Unlock, Turn, Reloads, Hits, KeyOf, Key, Idle, pages, project, session, Working, MutexHeld, TypeOK, Base, Docs
  <1>5. Reach'
    BY <1>1, ShowsKeeps, BlankPage DEF ShowForm, Is, Missing, Options, Registers, Answer, Unlock, TypeOK
  <1> QED
    BY <1>1, <1>2, <1>3, <1>4, <1>5

LEMMA LoadInv ==
    ASSUME ServeInv, NEW c \in Clients, Load(c)
    PROVE  ServeInv'
  <1> USE DEF ServeInv
  <1>1. Order' /\ Cached' = Cached /\ UNCHANGED pages
    BY SamePages DEF Load, Is, NeedsDocs, Missing, Loaded, Reloads, pages
  <1>2. TypeOK'
    <2>1. req[c] \in Requests /\ Loaded(c) \in Docs
      BY ServeAssumption DEF TypeOK, Loaded, Base, Docs, Requests, Edits, Asked
    <2>2. [req[c] EXCEPT !.at = "loaded", !.docs = Loaded(c)] \in Requests
      BY <2>1 DEF Requests
    <2>3. req' = [req EXCEPT ![c] = [req[c] EXCEPT !.at = "loaded", !.docs = Loaded(c)]]
      BY DEF Load, TypeOK
    <2>4. req' \in [Clients -> Requests]
      BY <2>2, <2>3 DEF TypeOK
    <2> QED
      BY <1>1, <2>1, <2>4 DEF Load, TypeOK, pages, project, session
  <1>3. MutexHeld'
    BY ServeAssumption DEF Load, Is, NeedsDocs, Missing, Loaded, Reloads, MutexHeld, Working, Idle, TypeOK
  <1>4. Turn'
    <2>1. /\ req[c].at = "locked"
          /\ req' = [req EXCEPT ![c].at = "loaded", ![c].docs = Loaded(c)]
          /\ host' = IF Reloads(c) THEN Loaded(c) ELSE host
          /\ req[c] \in Requests /\ req[c].route \in Routes
      BY DEF Load, NeedsDocs, Is, TypeOK, Turn
    <2>2. Loaded(c) \in Docs /\ Loaded(c).value = req[c].value
      BY <2>1, ServeAssumption DEF Loaded, Reloads, Base, Docs, Requests, TypeOK, Edits, Asked
    <2>3. \A b \in Clients \ {c} : req'[b] = req[b] /\ req[b].at \notin Working
      BY <2>1 DEF MutexHeld, Working, TypeOK
    <2>4. /\ req'[c].at = "loaded" /\ req'[c].docs = Loaded(c)
          /\ req'[c].value = req[c].value /\ req'[c].route = req[c].route
      BY <2>1 DEF TypeOK, Requests
    <2>5. \A b \in Clients \ {c} : req[b].docs # Nothing =>
             req[b].docs \in Docs /\ req[b].docs.value = req[b].value
      BY DEF Turn
    <2>6. \A b \in Clients \ {c} : req[b].at # "idle" => req[b].route \in Routes
      BY DEF Turn
    <2>7. \A b \in Clients \ {c} : req[b].at \in {"hook", "wait", "locked"} => req[b].docs = Nothing
      BY DEF Turn
    <2> SUFFICES ASSUME NEW b \in Clients PROVE Turn!(b)'
      BY DEF Turn
    <2>8. CASE b = c
      BY <2>8, <2>1, <2>2, <2>4 DEF Reloads
    <2>9. CASE b # c
      BY <2>9, <2>3, <2>5, <2>6, <2>7 DEF Working
    <2> QED
      BY <2>8, <2>9
  <1>5. Reach'
    BY <1>1, SameShown DEF Load, Is, NeedsDocs, Missing, Loaded, Reloads, Reach
  <1> QED
    BY <1>1, <1>2, <1>3, <1>4, <1>5

LEMMA LoadFailsInv ==
    ASSUME ServeInv, NEW c \in Clients, LoadFails(c)
    PROVE  ServeInv'
  <1> USE DEF ServeInv
  <1>1. Order' /\ Cached' = Cached /\ UNCHANGED pages
    BY SamePages DEF LoadFails, NeedsDocs, NeedsOptions, Is, Fail, Answer, Unlock, pages
  <1>2. TypeOK'
    BY <1>1, BlankShown, ServeAssumption DEF LoadFails, NeedsDocs, NeedsOptions, Is, Fail, Answer, Unlock, TypeOK, Requests, Shown, Blank, Idle, pages, project, session, Working, Asked, Edits
  <1>3. MutexHeld'
    BY ServeAssumption DEF LoadFails, NeedsDocs, NeedsOptions, Is, Fail, Answer, Unlock, MutexHeld, Working, Idle, TypeOK
  <1>4. Turn'
    BY <1>1 DEF LoadFails, NeedsDocs, NeedsOptions, Is, Fail, Answer, Unlock, Turn, Reloads, Hits, KeyOf, Key, Idle, pages, project, session, Working, MutexHeld, TypeOK
  <1>5. Reach'
    BY <1>1, ShowsKeeps, BlankPage DEF LoadFails, NeedsDocs, NeedsOptions, Is, Fail, Answer, Unlock, TypeOK
  <1> QED
    BY <1>1, <1>2, <1>3, <1>4, <1>5

LEMMA RegisterInv ==
    ASSUME ServeInv, NEW c \in Clients, Register(c)
    PROVE  ServeInv'
  <1> USE DEF ServeInv
  <1>1. Order' /\ Cached' = Cached /\ UNCHANGED pages
    BY SamePages DEF Register, Is, Registers, pages
  <1>2. TypeOK'
    <2>1. req[c] \in Requests
      BY DEF TypeOK
    <2>2. [req[c] EXCEPT !.at = "registered"] \in Requests
      BY <2>1 DEF Requests
    <2>3. req' = [req EXCEPT ![c] = [req[c] EXCEPT !.at = "registered"]]
      BY DEF Register, TypeOK
    <2>4. req' \in [Clients -> Requests]
      BY <2>2, <2>3 DEF TypeOK
    <2>5. views' \in Docs /\ attached' \in Docs \cup {Nothing} /\ mixed' \in BOOLEAN
      BY RegisterTypes DEF Register, Is, Turn
    <2> QED
      BY <1>1, <2>1, <2>4, <2>5 DEF Register, TypeOK, pages, project
  <1>3. MutexHeld'
    BY ServeAssumption DEF Register, Is, Registers, MutexHeld, Working, Idle, TypeOK
  <1>4. Turn'
    BY <1>1 DEF Register, Is, Registers, Turn, Reloads, Hits, KeyOf, Key, Idle, pages, project, session, Working, MutexHeld, TypeOK
  <1>5. Reach'
    BY <1>1, SameShown DEF Register, Is, Registers, Reach
  <1> QED
    BY <1>1, <1>2, <1>3, <1>4, <1>5

LEMMA QueryInv ==
    ASSUME ServeInv, NEW c \in Clients, Query(c)
    PROVE  ServeInv'
  <1> USE DEF ServeInv
  <1>1. Order' /\ Cached' = Cached /\ UNCHANGED pages
    BY SamePages DEF Query, Is, pages
  <1>2. TypeOK'
    <2>1. req[c] \in Requests /\ [docs |-> views, data |-> edits] \in Bodies
      BY DEF TypeOK, Bodies, Rows
    <2>2. [req[c] EXCEPT !.at = "queried", !.body = [docs |-> views, data |-> edits]] \in Requests
      BY <2>1 DEF Requests
    <2>3. req' = [req EXCEPT ![c] = [req[c] EXCEPT !.at = "queried", !.body = [docs |-> views, data |-> edits]]]
      BY DEF Query, TypeOK
    <2>4. req' \in [Clients -> Requests]
      BY <2>2, <2>3 DEF TypeOK
    <2> QED
      BY <1>1, <2>1, <2>4 DEF Query, TypeOK, pages, project, session
  <1>3. MutexHeld'
    BY ServeAssumption DEF Query, Is, MutexHeld, Working, Idle, TypeOK
  <1>4. Turn'
    BY <1>1 DEF Query, Is, Turn, Reloads, Hits, KeyOf, Key, Idle, pages, project, session, Working, MutexHeld, TypeOK, Bodies, Rows
  <1>5. Reach'
    BY <1>1, SameShown DEF Query, Is, Reach
  <1> QED
    BY <1>1, <1>2, <1>3, <1>4, <1>5

LEMMA QueryCutInv ==
    ASSUME ServeInv, NEW c \in Clients, QueryCut(c)
    PROVE  ServeInv'
  <1> USE DEF ServeInv
  <1>1. Order' /\ Cached' = Cached /\ UNCHANGED pages
    BY SamePages DEF QueryCut, Is, pages
  <1>2. TypeOK'
    <2>1. req[c] \in Requests /\ NoRows \in Bodies
      BY DEF TypeOK, Bodies
    <2>2. [req[c] EXCEPT !.at = "queried", !.body = NoRows] \in Requests
      BY <2>1 DEF Requests
    <2>3. req' = [req EXCEPT ![c] = [req[c] EXCEPT !.at = "queried", !.body = NoRows]]
      BY DEF QueryCut, TypeOK
    <2>4. req' \in [Clients -> Requests]
      BY <2>2, <2>3 DEF TypeOK
    <2> QED
      BY <1>1, <2>1, <2>4 DEF QueryCut, TypeOK, pages, project, session
  <1>3. MutexHeld'
    BY ServeAssumption DEF QueryCut, Is, MutexHeld, Working, Idle, TypeOK
  <1>4. Turn'
    BY <1>1 DEF QueryCut, Is, Turn, Reloads, Hits, KeyOf, Key, Idle, pages, project, session, Working, MutexHeld, TypeOK, Bodies
  <1>5. Reach'
    BY <1>1, SameShown DEF QueryCut, Is, Reach
  <1> QED
    BY <1>1, <1>2, <1>3, <1>4, <1>5

LEMMA RenderFailsInv ==
    ASSUME ServeInv, NEW c \in Clients, RenderFails(c)
    PROVE  ServeInv'
  <1> USE DEF ServeInv
  <1>1. Order' /\ Cached' = Cached /\ UNCHANGED pages
    BY SamePages DEF RenderFails, Is, Fail, Answer, Unlock, pages
  <1>2. TypeOK'
    BY <1>1, BlankShown, ServeAssumption DEF RenderFails, Is, Fail, Answer, Unlock, TypeOK, Requests, Shown, Blank, Idle, pages, project, session, Working, Asked, Edits
  <1>3. MutexHeld'
    BY ServeAssumption DEF RenderFails, Is, Fail, Answer, Unlock, MutexHeld, Working, Idle, TypeOK
  <1>4. Turn'
    BY <1>1 DEF RenderFails, Is, Fail, Answer, Unlock, Turn, Reloads, Hits, KeyOf, Key, Idle, pages, project, session, Working, MutexHeld, TypeOK
  <1>5. Reach'
    BY <1>1, ShowsKeeps, BlankPage DEF RenderFails, Is, Fail, Answer, Unlock, TypeOK
  <1> QED
    BY <1>1, <1>2, <1>3, <1>4, <1>5

\* The page that is sent is cached, at the back of the list.
LEMMA SendInv ==
    ASSUME ServeInv, NEW c \in Clients, Send(c)
    PROVE  ServeInv'
  <1> USE DEF ServeInv
  <1> DEFINE page == [key |-> KeyOf(c), body |-> req[c].body, since |-> {},
                      options |-> IF req[c].route \in Offers THEN views' ELSE Nothing]
  <1>1. Order' /\ Cached' = Cached /\ UNCHANGED pages
    BY SamePages DEF Send, pages
  <1>2. /\ req[c] \in Requests /\ req[c].at = "page" /\ req[c].route \in Routes
        /\ KeyOf(c) \in Cached /\ KeyOf(c) \in Keys
        /\ cache[KeyOf(c)] = req[c].body /\ newer[KeyOf(c)] = {}
    BY DEF Send, Is, TypeOK, Turn, Hits, Cached
  <1>3. Loaded(c) \in Docs /\ Base \in Docs
    BY <1>2, ServeAssumption DEF Loaded, Base, Docs, Requests, TypeOK, Edits, Asked
  <1>4. OptionDocs(c) \in Docs
    BY <1>2, <1>3 DEF OptionDocs, Turn
  <1>5. views' \in Docs /\ attached' \in Docs \cup {Nothing} /\ mixed' \in BOOLEAN
    BY <1>4, OptionTypes DEF Send
  <1>6. req' = [req EXCEPT ![c] = Idle] /\ shown' = [shown EXCEPT ![c] = page]
    BY DEF Send, Answer
  <1>7. page \in Shown
    BY <1>2, <1>5 DEF Shown, Requests
  <1>8. TypeOK'
    BY <1>1, <1>5, <1>6, <1>7, BlankShown, ServeAssumption
       DEF Send, Unlock, TypeOK, pages, project
  <1>9. MutexHeld'
    BY ServeAssumption DEF Send, Is, Answer, Unlock, MutexHeld, Working, Idle, TypeOK
  <1>10. Turn'
    BY <1>1 DEF Send, Answer, Turn, Reloads, Hits, KeyOf, Key, Idle, pages, TypeOK
  <1>11. IsFiniteSet(page.since)
    BY FS_EmptySet
  <1>12. /\ page.key = KeyOf(c) /\ page.body = req[c].body
         /\ shown = [b \in Clients |-> shown[b]]
    BY DEF TypeOK
  <1>13. Reach'
    <2> HIDE DEF page
    <2> QED
      BY <1>1, <1>2, <1>6, <1>11, <1>12, ShowsKeeps
  <1> QED
    BY <1>1, <1>8, <1>9, <1>10, <1>13

LEMMA AskInv ==
    ASSUME ServeInv, NEW c \in Clients, NEW r \in Routes, NEW v \in Asked, Ask(c, r, v)
    PROVE  ServeInv'
  <1> USE DEF ServeInv
  <1>1. Order' /\ Cached' = Cached /\ UNCHANGED pages
    BY SamePages DEF Ask, pages
  <1>2. TypeOK'
    <2>1. [Idle EXCEPT !.at = "hook", !.route = r, !.value = v] \in Requests
      BY DEF Idle, Requests
    <2>2. asks' \in 0 .. MaxAsks
      BY ServeAssumption DEF Ask, TypeOK
    <2>3. req' \in [Clients -> Requests]
      BY <2>1 DEF Ask, TypeOK
    <2> QED
      BY <1>1, <2>2, <2>3 DEF Ask, TypeOK, pages, project, session
  <1>3. MutexHeld'
    BY ServeAssumption DEF Ask, MutexHeld, Working, Idle, TypeOK
  <1>4. Turn'
    BY <1>1 DEF Ask, Turn, Reloads, Hits, KeyOf, Key, Idle, pages, TypeOK
  <1>5. Reach'
    BY <1>1, SameShown DEF Ask
  <1> QED
    BY <1>1, <1>2, <1>3, <1>4, <1>5

LEMMA EditInv ==
    ASSUME ServeInv, Edit
    PROVE  ServeInv'
  <1> USE DEF ServeInv
  <1>1. Order' /\ Cached' = Cached /\ UNCHANGED pages
    BY SamePages DEF Edit, pages
  <1>2. TypeOK'
    BY <1>1, ServeAssumption DEF Edit, TypeOK, pages, session, Edits
  <1>3. MutexHeld' /\ Turn'
    BY <1>1 DEF Edit, MutexHeld, Turn, Reloads, Hits, KeyOf, Key, pages
  <1>4. Reach'
    BY <1>1, SameShown DEF Edit
  <1> QED
    BY <1>1, <1>2, <1>3, <1>4

LEMMA HitInv ==
    ASSUME ServeInv, NEW c \in Clients, Hit(c)
    PROVE  ServeInv'
  <1> USE DEF ServeInv
  <1> DEFINE k == KeyOf(c)
  <1>1. /\ req[c] \in Requests /\ req[c].at \in {"loaded", "locked"}
        /\ k \in Cached /\ k \in Keys /\ cache[k] # Nothing /\ cache[k] \in Bodies
        /\ req[c].route \in Routes
    BY DEF Hit, Is, Hits, TypeOK, Turn, Cached
  <1>2. /\ newer' \in [Keys -> SUBSET Cached] /\ newer'[k] = {}
        /\ Cached' = Cached /\ Order' /\ Reach' /\ cache' = cache
    BY <1>1, GetKeeps DEF Hit, Get
  <1>3. req' = [req EXCEPT ![c] = [req[c] EXCEPT !.at = "page", !.body = cache[k]]]
    BY DEF Hit, TypeOK
  <1>4. [req[c] EXCEPT !.at = "page", !.body = cache[k]] \in Requests
    BY <1>1 DEF Requests
  <1>5. shown' \in [Clients -> Shown]
    BY <1>1 DEF Hit, Get, Used, TypeOK, Shown
  <1>6. TypeOK'
    BY <1>2, <1>3, <1>4, <1>5 DEF Hit, TypeOK, project, session
  <1>7. MutexHeld'
    BY <1>1, <1>3 DEF Hit, MutexHeld, Working, TypeOK
  <1>8. \A b \in Clients \ {c} : req'[b] = req[b] /\ req[b].at \notin Working
    BY <1>1, <1>3 DEF MutexHeld, Working, TypeOK
  <1>9. /\ req'[c].at = "page" /\ req'[c].body = cache[k] /\ req'[c].docs = req[c].docs
        /\ req'[c].value = req[c].value /\ req'[c].route = req[c].route
    BY <1>1, <1>3 DEF TypeOK, Requests
  <1>10. KeyOf(c)' = k
    BY <1>9 DEF KeyOf, Key
  <1>11. Turn'
    <2>1. \A b \in Clients \ {c} : req[b].docs # Nothing =>
             req[b].docs \in Docs /\ req[b].docs.value = req[b].value
      BY DEF Turn
    <2>2. req[c].docs # Nothing =>
             req[c].docs \in Docs /\ req[c].docs.value = req[c].value
      BY DEF Turn
    <2>3. \A b \in Clients \ {c} : req[b].at # "idle" => req[b].route \in Routes
      BY DEF Turn
    <2>4. \A b \in Clients \ {c} : req[b].at \in {"hook", "wait", "locked"} => req[b].docs = Nothing
      BY DEF Turn
    <2> SUFFICES ASSUME NEW b \in Clients PROVE Turn!(b)'
      BY DEF Turn
    <2>5. CASE b = c
      BY <2>5, <2>2, <1>1, <1>2, <1>9, <1>10 DEF Hits
    <2>6. CASE b # c
      BY <2>6, <2>1, <2>3, <2>4, <1>8 DEF Working
    <2> QED
      BY <2>5, <2>6
  <1> QED
    BY <1>2, <1>6, <1>7, <1>11

LEMMA StoreInv ==
    ASSUME ServeInv, NEW c \in Clients, Store(c)
    PROVE  ServeInv'
  <1> USE DEF ServeInv
  <1> DEFINE k == KeyOf(c)
  <1>1. /\ req[c] \in Requests /\ req[c].at = "queried"
        /\ k \notin Cached /\ req[c].body \in Bodies
        /\ req[c].route \in Routes /\ req[c].value \in Asked
    BY DEF Store, Is, Hits, TypeOK, Turn, Requests
  <1>2. k \in Keys
    BY <1>1, PageKeys DEF KeyOf
  <1>3. /\ cache' \in [Keys -> Bodies \cup {Nothing}]
        /\ newer' \in [Keys -> SUBSET Cached'] /\ newer'[k] = {}
        /\ k \in Cached' /\ cache'[k] = req[c].body
        /\ Cardinality(Cached') <= MaxEntries /\ Order' /\ Reach'
    BY <1>1, <1>2, SetKeeps DEF Store
  <1>4. req' = [req EXCEPT ![c] = [req[c] EXCEPT !.at = "page"]]
    BY DEF Store, TypeOK
  <1>5. [req[c] EXCEPT !.at = "page"] \in Requests
    BY <1>1 DEF Requests
  <1>6. shown' \in [Clients -> Shown]
    BY <1>2 DEF Store, Set, Used, TypeOK, Shown
  <1>7. TypeOK'
    BY <1>3, <1>4, <1>5, <1>6 DEF Store, TypeOK, project, session
  <1>8. MutexHeld'
    BY <1>1, <1>4 DEF Store, MutexHeld, Working, TypeOK
  <1>9. \A b \in Clients \ {c} : req'[b] = req[b] /\ req[b].at \notin Working
    BY <1>1, <1>4 DEF MutexHeld, Working, TypeOK
  <1>10. /\ req'[c].at = "page" /\ req'[c].body = req[c].body /\ req'[c].docs = req[c].docs
         /\ req'[c].value = req[c].value /\ req'[c].route = req[c].route
    BY <1>1, <1>4 DEF TypeOK, Requests
  <1>11. KeyOf(c)' = k
    BY <1>10 DEF KeyOf, Key
  <1>12. Turn'
    BY <1>1, <1>3, <1>9, <1>10, <1>11 DEF Store, Turn, Reloads, Hits, Working
  <1> QED
    BY <1>3, <1>7, <1>8, <1>12

LEMMA StutterInv ==
    ASSUME ServeInv, UNCHANGED vars
    PROVE  ServeInv'
  <1>1. Order' /\ Cached' = Cached /\ Reach'
    BY SamePages, SameShown DEF vars, pages, ServeInv
  <1>2. TypeOK'
    BY <1>1 DEF vars, ServeInv, TypeOK
  <1>3. MutexHeld' /\ Turn'
    BY <1>1 DEF vars, ServeInv, MutexHeld, Turn, Reloads, Hits, KeyOf, Key
  <1> QED
    BY <1>1, <1>2, <1>3 DEF ServeInv

LEMMA NextInv ==
    ASSUME ServeInv, [Next]_vars
    PROVE  ServeInv'
  <1>1. ASSUME NEW c \in Clients, NEW r \in Routes, NEW v \in Asked, Ask(c, r, v)
        PROVE  ServeInv'
    BY <1>1, AskInv
  <1>2. ASSUME NEW c \in Clients, Hook(c) \/ Lock(c)
        PROVE  ServeInv'
    BY <1>2, HookReturnsInv, HookFailsInv, LockInv DEF Hook
  <1>3. ASSUME NEW c \in Clients, Work(c)
        PROVE  ServeInv'
    BY <1>3, ShowFormInv, LoadInv, LoadFailsInv, HitInv, RegisterInv, QueryInv,
       QueryCutInv, RenderFailsInv, StoreInv, SendInv DEF Work
  <1> QED
    BY <1>1, <1>2, <1>3, EditInv, StutterInv DEF Next

LEMMA ServeInvariant == Spec => []ServeInv
  <1>1. Init => ServeInv
    BY InitInv
  <1>2. ServeInv /\ [Next]_vars => ServeInv'
    BY NextInv
  <1> QED
    BY <1>1, <1>2, PTL DEF Spec

\* The types, the bound on the cache and the order of its list.
THEOREM ServeTypeOK == Spec => []TypeOK
  <1>1. ServeInv => TypeOK
    BY DEF ServeInv
  <1> QED
    BY <1>1, ServeInvariant, PTL

\* The mutex is held by who works, and by no other.
THEOREM ServeMutexHeld == Spec => []MutexHeld
  <1>1. ServeInv => MutexHeld
    BY DEF ServeInv
  <1> QED
    BY <1>1, ServeInvariant, PTL

\* While a plugin may call back, the host has the documents of the request.
THEOREM ServeHostOwn == Spec => []HostOwn
  <1>1. ServeInv => HostOwn
    BY DEF ServeInv, Turn, HostOwn
  <1> QED
    BY <1>1, ServeInvariant, PTL

\* The data of a page can be fetched until MaxEntries other pages were used.
THEOREM ServeDataReachable == Spec => []DataReachable
  <1>1. ServeInv => DataReachable
    BY DEF ServeInv, Reach, DataReachable, Data
  <1> QED
    BY <1>1, ServeInvariant, PTL

-----------------------------------------------------------------------------
(* Nobody sees the rows of another parameter.                                *)

\* The views and the rows of the request that works are its own.
Own ==
    \A c \in Clients :
        /\ req[c].at = "registered" => views.value = req[c].value
        /\ req[c].at \in {"queried", "page"} => BodyOf(req[c].value, req[c].body)

OwnInv == ServeInv /\ (~mixed => Own /\ EachOwn)

\* A step that shows no other page and leaves the views to who works.
LEMMA QuietKeeps ==
    ASSUME EachOwn, NEW c \in Clients, UNCHANGED pages,
           shown = [b \in Clients |-> shown[b]],
           shown' = shown \/ shown' = [shown EXCEPT ![c] = Blank]
    PROVE  EachOwn'
  <1>1. Cached' = Cached /\ cache' = cache
    BY DEF Cached, pages
  <1>2. \A b \in Clients : shown'[b] = shown[b] \/ shown'[b].key = Nothing
    BY DEF Blank
  <1> QED
    BY <1>1, <1>2 DEF EachOwn, BodyOf

LEMMA UsedKeeps ==
    ASSUME TypeOK, NEW k \in Keys, shown' = Used(k), NEW b \in Clients
    PROVE  /\ shown'[b].key = shown[b].key /\ shown'[b].body = shown[b].body
           /\ shown'[b].options = shown[b].options
  <1>1. shown[b] \in Shown
    BY DEF TypeOK
  <1> QED
    BY <1>1 DEF Used, Shown

LEMMA OwnStep ==
    ASSUME ServeInv, Own, EachOwn, [Next]_vars, ~mixed'
    PROVE  Own' /\ EachOwn'
  <1>0. /\ shown = [b \in Clients |-> shown[b]]
        /\ \A d \in Docs : Registers(d) => views' = d
    BY DEF Registers, ServeInv, TypeOK
  <1>1. ASSUME NEW c \in Clients, NEW r \in Routes, NEW v \in Asked, Ask(c, r, v)
        PROVE  Own' /\ EachOwn'
    <2>1. Own'
      BY <1>1 DEF Ask, Own, BodyOf, Idle, session, ServeInv, TypeOK
    <2>2. EachOwn'
      BY <1>0, <1>1, QuietKeeps DEF Ask
    <2> QED
      BY <2>1, <2>2
  <1>2. ASSUME NEW c \in Clients, Hook(c) \/ Lock(c)
        PROVE  Own' /\ EachOwn'
    <2> DEFINE at == req'[c].at
    <2>0. /\ at \in {"wait", "idle", "locked"} /\ views' = views
          /\ \A b \in Clients \ {c} : req'[b] = req[b]
      <3>1. req \in [Clients -> Requests] /\ req[c] \in Requests
        BY DEF ServeInv, TypeOK
      <3> QED
        BY <3>1, <1>2 DEF Hook, HookReturns, HookFails, Lock, Answer, Idle, session, Requests
    <2>1. Own'
      BY <2>0 DEF Own, BodyOf
    <2>2. EachOwn'
      BY <1>0, <1>2, QuietKeeps DEF Hook, HookReturns, HookFails, Lock, Answer
    <2> QED
      BY <2>1, <2>2
  <1>3. ASSUME NEW c \in Clients, Work(c)
        PROVE  Own' /\ EachOwn'
    <2> DEFINE others == \A b \in Clients \ {c} : req'[b] = req[b] /\ req[b].at \notin Working
    <2>1. req[c] \in Requests /\ req[c].at \in Working
      BY <1>3 DEF Work, ShowForm, Load, LoadFails, Hit, Register, Query, QueryCut, RenderFails,
         Store, Send, NeedsDocs, NeedsOptions, Is, Working, ServeInv, TypeOK
    <2>2. \A b \in Clients \ {c} : req[b].at \notin Working
      BY <2>1 DEF ServeInv, MutexHeld
    <2>3. \A b \in Clients \ {c} : req'[b] = req[b]
      BY <1>3 DEF Work, ShowForm, Load, LoadFails, Hit, Register, Query, QueryCut, RenderFails,
         Store, Send, Fail, Answer, ServeInv, TypeOK
    <2>4. \A b \in Clients \ {c} : ~(req'[b].at \in {"registered", "queried", "page"})
      BY <2>2, <2>3 DEF Working
    <2>5. CASE ShowForm(c) \/ LoadFails(c) \/ RenderFails(c)
      <3>1. req'[c] = Idle /\ shown' = [shown EXCEPT ![c] = Blank] /\ UNCHANGED pages
        BY <2>5 DEF ShowForm, LoadFails, RenderFails, Fail, Answer, ServeInv, TypeOK
      <3>2. Own'
        BY <3>1, <2>4 DEF Own, Idle
      <3> QED
        BY <3>1, <3>2, <1>0, QuietKeeps
    <2>6. CASE Load(c)
      <3>1. req'[c].at = "loaded" /\ UNCHANGED pages /\ UNCHANGED shown
        BY <2>6 DEF Load, ServeInv, TypeOK, Requests
      <3>2. Own'
        BY <3>1, <2>4 DEF Own
      <3> QED
        BY <3>1, <3>2, <1>0, QuietKeeps
    <2>7. CASE Register(c)
      <3>1. req[c].docs \in Docs /\ req[c].docs.value = req[c].value
        BY <2>7, NothingAssumption DEF Register, Is, ServeInv, Turn
      <3>2. views' = req[c].docs /\ UNCHANGED pages /\ UNCHANGED shown
        BY <2>7, <3>1, <1>0 DEF Register
      <3>3. req'[c].at = "registered" /\ req'[c].value = req[c].value
        BY <2>7 DEF Register, ServeInv, TypeOK, Requests
      <3>4. Own'
        BY <3>1, <3>2, <3>3, <2>4 DEF Own
      <3> QED
        BY <3>2, <3>4, <1>0, QuietKeeps
    <2>8. CASE Query(c)
      <3>1. views \in Docs /\ edits \in Edits /\ views.value = req[c].value
        BY <2>8 DEF Query, Is, ServeInv, TypeOK, Own
      <3>2. /\ req'[c].at = "queried" /\ req'[c].value = req[c].value
            /\ req'[c].body = [docs |-> views, data |-> edits]
        BY <2>8 DEF Query, ServeInv, TypeOK, Requests
      <3>3. BodyOf(req'[c].value, req'[c].body)
        BY <3>1, <3>2 DEF BodyOf, Rows
      <3>4. Own'
        BY <3>2, <3>3, <2>4 DEF Own, BodyOf
      <3>5. EachOwn'
        BY <2>8, <1>0, QuietKeeps DEF Query
      <3> QED
        BY <3>4, <3>5
    <2>9. CASE QueryCut(c)
      <3>1. BodyOf(req[c].value, NoRows)
        BY NothingAssumption DEF BodyOf, Rows, NoRows
      <3>2. req'[c].at = "queried" /\ req'[c].value = req[c].value /\ req'[c].body = NoRows
        BY <2>9 DEF QueryCut, ServeInv, TypeOK, Requests
      <3>3. Own'
        BY <3>1, <3>2, <2>4 DEF Own, BodyOf
      <3>4. EachOwn'
        BY <2>9, <1>0, QuietKeeps DEF QueryCut
      <3> QED
        BY <3>3, <3>4
    <2>10. CASE Hit(c)
      <3> DEFINE k == KeyOf(c)
      <3>1. k \in Cached /\ k \in Keys /\ k[2] = req[c].value
        BY <2>10 DEF Hit, Hits, Cached, KeyOf, Key
      <3>2. cache' = cache /\ shown' = Used(k) /\ Cached' = Cached
        BY <2>10 DEF Hit, Get, Cached
      <3>3. /\ req'[c].at = "page" /\ req'[c].body = cache[k] /\ req'[c].value = req[c].value
        BY <2>10 DEF Hit, ServeInv, TypeOK, Requests
      <3>4. Own'
        BY <3>1, <3>3, <2>4 DEF Own, EachOwn, BodyOf
      <3>5. EachOwn'
        BY <3>1, <3>2, UsedKeeps DEF EachOwn, BodyOf, ServeInv
      <3> QED
        BY <3>4, <3>5
    <2>11. CASE Store(c)
      <3> DEFINE k == KeyOf(c)
      <3>1. /\ req[c].at = "queried" /\ req[c].route \in Routes /\ req[c].value \in Asked
            /\ k[2] = req[c].value /\ BodyOf(req[c].value, req[c].body)
        BY <2>11 DEF Store, Is, ServeInv, Turn, TypeOK, Requests, KeyOf, Key, Own
      <3>2. k \in Keys
        BY <3>1, PageKeys DEF KeyOf
      <3>3. shown' = Used(k) /\ \A j \in Keys : j # k => cache'[j] \in {cache[j], Nothing}
        BY <2>11, <3>2 DEF Store, Set
      <3>4. cache'[k] = req[c].body
        BY <2>11, <3>2 DEF Store, Set
      <3>5. \A j \in Cached' : BodyOf(j[2], cache'[j])
        BY <3>1, <3>3, <3>4 DEF Cached, EachOwn
      <3>6. req'[c].at = "page" /\ req'[c].body = req[c].body /\ req'[c].value = req[c].value
        BY <2>11 DEF Store, ServeInv, TypeOK, Requests
      <3>7. Own'
        BY <3>1, <3>6, <2>4 DEF Own, BodyOf
      <3>8. EachOwn'
        BY <3>2, <3>3, <3>5, UsedKeeps DEF EachOwn, BodyOf, ServeInv
      <3> QED
        BY <3>7, <3>8
    <2>12. CASE Send(c)
      <3> DEFINE page == [key |-> KeyOf(c), body |-> req[c].body, since |-> {},
                          options |-> IF req[c].route \in Offers THEN views' ELSE Nothing]
      <3>1. /\ BodyOf(req[c].value, req[c].body) /\ KeyOf(c)[2] = req[c].value
        BY <2>12 DEF Send, Is, Own, KeyOf, Key
      <3>2. req[c].route \in Offers => OptionDocs(c) \in Docs /\ OptionDocs(c).value = req[c].value
        BY <2>12, ServeAssumption DEF OptionDocs, Loaded, Reloads, Base, Docs, Edits, Asked,
           Requests, ServeInv, Turn, TypeOK
      <3>3. req[c].route \in Offers => views'.value = req[c].value
        BY <2>12, <3>2, <1>0 DEF Send, Options
      <3>4. shown' = [shown EXCEPT ![c] = page] /\ UNCHANGED pages /\ req'[c] = Idle
        BY <2>12 DEF Send, Answer, ServeInv, TypeOK
      <3>5. Own'
        BY <3>4, <2>4 DEF Own, Idle
      <3>6. /\ BodyOf(page.key[2], page.body)
            /\ page.options # Nothing => page.options.value = page.key[2]
        BY <3>1, <3>3
      <3>7. \A b \in Clients : shown'[b] = IF b = c THEN page ELSE shown[b]
        BY <3>4, <1>0
      <3>8. Cached' = Cached /\ cache' = cache
        BY <3>4 DEF pages, Cached
      <3> HIDE DEF page
      <3>9. EachOwn'
        BY <3>6, <3>7, <3>8 DEF EachOwn, BodyOf
      <3> QED
        BY <3>5, <3>9
    <2> QED
      BY <1>3, <2>5, <2>6, <2>7, <2>8, <2>9, <2>10, <2>11, <2>12 DEF Work
  <1>4. CASE Edit
    BY <1>4 DEF Edit, Own, EachOwn, BodyOf, Cached, pages, session
  <1>5. CASE UNCHANGED vars
    BY <1>5 DEF vars, Own, EachOwn, BodyOf, Cached
  <1> QED
    BY <1>1, <1>2, <1>3, <1>4, <1>5 DEF Next

\* A view that was not the wanted one is not forgotten.
LEMMA MixedStays ==
    ASSUME TypeOK, [Next]_vars, mixed
    PROVE  mixed'
  BY DEF vars, session, Next, Ask, Hook, HookReturns, HookFails, Lock, Work, ShowForm, Load,
     LoadFails, Hit, Register, Query, QueryCut, RenderFails, Store, Send, Options, Registers, Edit

\* Every viewer sees the rows of the parameter it asked with.
THEOREM ServeRowsOwn == Spec => []RowsOwn
  <1>1. Init => OwnInv
    <2> SUFFICES ASSUME Init PROVE OwnInv
      OBVIOUS
    <2>1. Cached = {}
      BY DEF Init, Cached
    <2> QED
      BY <2>1, InitInv DEF Init, OwnInv, Own, EachOwn, Idle, Blank
  <1>2. OwnInv /\ [Next]_vars => OwnInv'
    <2> SUFFICES ASSUME OwnInv, [Next]_vars PROVE OwnInv'
      OBVIOUS
    <2>1. ServeInv /\ ServeInv'
      BY NextInv DEF OwnInv
    <2>2. ASSUME ~mixed' PROVE Own' /\ EachOwn'
      <3>1. ~mixed
        BY <2>1, <2>2, MixedStays DEF ServeInv
      <3> QED
        BY <2>1, <2>2, <3>1, OwnStep DEF OwnInv
    <2> QED
      BY <2>1, <2>2 DEF OwnInv
  <1>3. OwnInv => RowsOwn
    BY DEF OwnInv, RowsOwn
  <1> QED
    BY <1>1, <1>2, <1>3, PTL DEF Spec

\* Neither rows nor documents of one request get into another.
THEOREM ServeNothingMixed == Spec => []NothingMixed
  <1>1. RowsOwn /\ HostOwn => NothingMixed
    BY DEF NothingMixed
  <1> QED
    BY <1>1, ServeRowsOwn, ServeHostOwn, PTL
=============================================================================
