----------------------------- MODULE PluginHost -----------------------------
(***************************************************************************)
(* The host service that plugins call back into                            *)
(* (internal/plugin/hostservice.go).  The program gives it the results of  *)
(* the datasets of what it renders; a plugin's QueryDuckDB reads them from *)
(* files, which the first query after a SetDatasets writes to a temporary  *)
(* directory.  Queries run concurrently with each other and with the       *)
(* render that replaces the datasets, so a directory that was dropped may  *)
(* still be read: the last query that uses it removes it.                  *)
(***************************************************************************)
EXTENDS Naturals, FiniteSets

CONSTANTS
  Owners,    \* whose dataset results the host may be given
  NoOwner,   \* no results, and the content of a directory that is not there
  Queries    \* the calls of QueryDuckDB that may run at once

ASSUME HostAssumption == NoOwner \notin Owners /\ IsFiniteSet(Queries)

(* One directory can be current while each query reads another.            *)
Dirs == 1 .. Cardinality(Queries) + 1
NoDir == 0

VARIABLES
  datasets,   \* whose results the host holds
  viewDir,    \* the directory written for them, NoDir before the first query
  viewUsers,  \* Dirs -> how many running queries the host counts
  tmp,        \* Dirs -> whose results the directory on the disk holds
  query       \* Queries -> where the call is, its directory and its results

hostVars == <<datasets, viewDir, viewUsers, tmp, query>>

Idle == [at |-> "idle", dir |-> NoDir, of |-> NoOwner]

HostTypeOK ==
  /\ datasets \in Owners \cup {NoOwner}
  /\ viewDir \in Dirs \cup {NoDir}
  /\ viewUsers \in [Dirs -> 0 .. Cardinality(Queries)]
  /\ tmp \in [Dirs -> Owners \cup {NoOwner}]
  /\ query \in [Queries -> [at : {"idle", "opened", "reading"},
                            dir : Dirs \cup {NoDir},
                            of : Owners \cup {NoOwner}]]

HostInit ==
  /\ datasets = NoOwner
  /\ viewDir = NoDir
  /\ viewUsers = [d \in Dirs |-> 0]
  /\ tmp = [d \in Dirs |-> NoOwner]
  /\ query = [q \in Queries |-> Idle]

-----------------------------------------------------------------------------
(* The directory in use is forgotten, and removed unless a query reads it. *)

DropViews ==
  /\ tmp' = [d \in Dirs |-> IF d = viewDir /\ viewUsers[d] = 0
                              THEN NoOwner ELSE tmp[d]]
  /\ viewDir' = NoDir

SetDatasets(owner) ==
  /\ datasets' = owner
  /\ DropViews
  /\ UNCHANGED <<viewUsers, query>>

Close ==
  /\ DropViews
  /\ UNCHANGED <<datasets, viewUsers, query>>

-----------------------------------------------------------------------------
(* QueryDuckDB: a session is opened without the lock, then the views are   *)
(* taken, the query reads them, and they are released.                     *)

OpenSession(q) ==
  /\ query[q].at = "idle"
  /\ query' = [query EXCEPT ![q].at = "opened"]
  /\ UNCHANGED <<datasets, viewDir, viewUsers, tmp>>

Reads(q, dir) ==
  /\ query' = [query EXCEPT ![q] = [at |-> "reading", dir |-> dir, of |-> datasets]]
  /\ viewUsers' = IF dir = NoDir THEN viewUsers
                                 ELSE [viewUsers EXCEPT ![dir] = @ + 1]

(* The first query after SetDatasets writes the files, under the lock.     *)
TakeViews(q) ==
  /\ query[q].at = "opened"
  /\ UNCHANGED datasets
  /\ \/ /\ viewDir = NoDir
        /\ datasets # NoOwner
        /\ \E d \in {e \in Dirs : tmp[e] = NoOwner} :
             /\ viewDir' = d
             /\ tmp' = [tmp EXCEPT ![d] = datasets]
             /\ Reads(q, d)
     \/ /\ viewDir # NoDir \/ datasets = NoOwner
        /\ Reads(q, viewDir)
        /\ UNCHANGED <<viewDir, tmp>>

(* The files could not be written: what was written of them is removed.    *)
WriteFails(q) ==
  /\ query[q].at = "opened"
  /\ viewDir = NoDir
  /\ datasets # NoOwner
  /\ query' = [query EXCEPT ![q] = Idle]
  /\ UNCHANGED <<datasets, viewDir, viewUsers, tmp>>

BugOrphaned(d) == FALSE

(* A directory its last reader removes: nobody else would.                 *)
Orphaned(d) == viewUsers[d] = 1 /\ d # viewDir

Release(q) ==
  /\ query[q].at = "reading"
  /\ LET d == query[q].dir IN
       IF d = NoDir
         THEN UNCHANGED <<viewUsers, tmp>>
         ELSE /\ viewUsers' = [viewUsers EXCEPT ![d] = @ - 1]
              /\ tmp' = IF Orphaned(d) THEN [tmp EXCEPT ![d] = NoOwner] ELSE tmp
  /\ query' = [query EXCEPT ![q] = Idle]
  /\ UNCHANGED <<datasets, viewDir>>

HostCall(q) == OpenSession(q) \/ TakeViews(q) \/ WriteFails(q) \/ Release(q)

HostNext ==
  \/ \E owner \in Owners \cup {NoOwner} : SetDatasets(owner)
  \/ Close
  \/ \E q \in Queries : HostCall(q)

HostSpec == HostInit /\ [][HostNext]_hostVars

-----------------------------------------------------------------------------
(* The dataset files live exactly as long as somebody may read them: a     *)
(* running query finds the files of the results it was given, however      *)
(* often the render replaced them since, and a directory that is neither   *)
(* current nor read by a query is gone.                                    *)
DirsLive ==
  \A q \in Queries : query[q].dir # NoDir => tmp[query[q].dir] = query[q].of

DirsOwned ==
  \A d \in Dirs :
    tmp[d] # NoOwner => d = viewDir \/ \E q \in Queries : query[q].dir = d

HostDirs == DirsLive /\ DirsOwned
=============================================================================
