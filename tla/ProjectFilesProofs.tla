-------------------------- MODULE ProjectFilesProofs --------------------------
(***************************************************************************)
(* What processes share through the files of a project.                    *)
(*                                                                         *)
(* The port file (PortFile), for every number of daemons and tools: a      *)
(* daemon owns the file, and two serve only behind a theft.                *)
(*                                                                         *)
(* The registry (Packages), for all packages, versions, dependencies and   *)
(* files: the lock is closed, the store follows the lock, and install      *)
(* accepts the lock that add and update write.                             *)
(***************************************************************************)
EXTENDS PortFile, Packages, TLAPS

(***************************************************************************)
(* The port file.                                                          *)
(***************************************************************************)

\* A daemon owns the file from the moment it truncates it until it removes it.
Owning(d) == phase[d] \in {"write", "up", "drain"}

\* Who is named by the file, or by what somebody has read of it, has served;
\* and a daemon does not start when the one it has read of is alive.
Served(c) == c \in Daemons => phase[c] \in {"up", "drain", "gone"}

Named ==
    /\ Served(file)
    /\ \A r \in Daemons \cup Tools : Served(read[r])
    /\ \A d \in Daemons : phase[d] = "start" => ~Found(read[d])

\* As long as nothing was stolen the file belongs to the one that owns it.
Single ==
    \A d \in Daemons :
        /\ phase[d] = "write" => file = Torn /\ \A e \in Daemons \ {d} : phase[e] # "write"
        /\ phase[d] \in {"up", "drain"} => file = d

IInv == TypeOK /\ Named /\ (~stolen => Single)

-----------------------------------------------------------------------------
LEMMA InitInv == Init => IInv
  <1> SUFFICES ASSUME Init PROVE IInv
    OBVIOUS
  <1> USE NamesAssumption, FailuresAssumption DEF Init
  <1>1. TypeOK
    <2>1. editor \in [status : EditorStatus, at : Daemons \cup {None}]
      BY DEF EditorStatus
    <2>2. tool \in [Tools -> {"look", "judge", "probe", "proxy", "standalone"}] /\ failures \in 0..MaxFailures
      OBVIOUS
    <2>3. phase \in [Daemons -> Phases]
      BY DEF Phases
    <2>4. file \in Content /\ read \in [Daemons \cup Tools -> Content]
      BY DEF Content
    <2> QED
      BY <2>1, <2>2, <2>3, <2>4 DEF TypeOK
  <1>2. Named
    BY DEF Named, Served
  <1>3. Single
    BY DEF Single
  <1> QED
    BY <1>1, <1>2, <1>3 DEF IInv

LEMMA JudgeType == ASSUME TypeOK, NEW c, Judge(c) PROVE file' \in Content /\ stolen' \in BOOLEAN
  BY DEF TypeOK, Judge, Content

LEMMA DaemonTypeStep ==
    ASSUME TypeOK, NEW d \in Daemons,
           \/ DaemonCheck(d) \/ DaemonJudge(d) \/ Truncate(d) \/ WritePortFile(d)
           \/ FailStart(d) \/ Drain(d) \/ RemovePortFile(d)
           \/ Crash(d) \/ Launch(d) \/ Spawn(d) \/ SpawnedExits(d)
    PROVE  TypeOK'
  <1> USE FailuresAssumption DEF TypeOK, Go, End, Editor, Content, Phases, EditorStatus
  <1>1. CASE DaemonCheck(d)
    BY <1>1 DEF DaemonCheck
  <1>2. CASE DaemonJudge(d)
    BY <1>2, JudgeType DEF DaemonJudge
  <1>3. CASE Truncate(d)
    BY <1>3 DEF Truncate
  <1>4. CASE WritePortFile(d)
    BY <1>4 DEF WritePortFile
  <1>5. CASE FailStart(d) \/ Crash(d)
    BY <1>5 DEF FailStart, Crash
  <1>6. CASE Drain(d)
    BY <1>6 DEF Drain
  <1>7. CASE RemovePortFile(d)
    BY <1>7 DEF RemovePortFile
  <1>8. CASE Launch(d) \/ Spawn(d)
    BY <1>8 DEF Launch, Spawn
  <1>9. CASE SpawnedExits(d)
    BY <1>9 DEF SpawnedExits
  <1> QED
    BY <1>1, <1>2, <1>3, <1>4, <1>5, <1>6, <1>7, <1>8, <1>9

LEMMA ClientTypeStep ==
    ASSUME TypeOK,
           \/ \E t \in Tools : ToolRead(t) \/ ToolJudge(t) \/ ToolConnect(t) \/ ToolRestart(t)
           \/ Connect \/ EditorRead \/ EditorProbe \/ PollTimeout \/ StreamEnds \/ Reconnect \/ Restart
    PROVE  TypeOK'
  <1> USE DEF TypeOK, Editor, Content, Phases, EditorStatus
  <1>1. ASSUME NEW t \in Tools, ToolRead(t) \/ ToolConnect(t) \/ ToolRestart(t) PROVE TypeOK'
    BY <1>1 DEF ToolRead, ToolConnect, ToolRestart
  <1>2. ASSUME NEW t \in Tools, ToolJudge(t) PROVE TypeOK'
    BY <1>2, JudgeType DEF ToolJudge
  <1>3. CASE Connect \/ EditorRead \/ EditorProbe \/ PollTimeout \/ StreamEnds \/ Reconnect
    BY <1>3
    DEF Connect, EditorRead, EditorProbe, Stale, PollTimeout, StreamEnds, Reconnect
  <1>4. CASE Restart
    BY <1>4 DEF Restart
  <1> QED
    BY <1>1, <1>2, <1>3, <1>4

LEMMA TypeStep == TypeOK /\ [Next]_vars => TypeOK'
  <1>1. TypeOK /\ UNCHANGED vars => TypeOK'
    BY DEF TypeOK, vars
  <1> QED
    BY <1>1, DaemonTypeStep, ClientTypeStep DEF Next

-----------------------------------------------------------------------------
(* What is judged: a content that names nobody alive.                        *)

\* Nobody owns the file when it is taken away and nothing is stolen.
LEMMA JudgeSingle ==
    ASSUME IInv, NEW c, Judge(c), ~stolen'
    PROVE  /\ ~stolen /\ Single
           /\ file' # file => \A d \in Daemons : ~Owning(d)
  <1> USE DEF IInv, Judge
  <1>1. ~stolen /\ Single
    BY DEF TypeOK
  <1>2. ASSUME file' # file, NEW d \in Daemons PROVE ~Owning(d)
    BY <1>1, <1>2 DEF Single, Owned, Owning, Alive
  <1> QED
    BY <1>1, <1>2

LEMMA JudgeServed == ASSUME IInv, NEW c, Judge(c) PROVE Served(file')
  BY NamesAssumption DEF IInv, Named, Judge, Served

\* A step that changes neither the file nor who owns it.
LEMMA Quiet ==
    ASSUME IInv, file' = file, stolen' = stolen,
           \A d \in Daemons : phase'[d] \in {phase[d], "check", "judge", "start", "gone"},
           \A d \in Daemons : phase[d] \in {"up", "drain", "gone"} => phase'[d] \in {phase[d], "gone"},
           \A d \in Daemons : phase[d] # "start" => phase'[d] # "start",
           \A r \in Daemons \cup Tools : read'[r] \in {read[r], file, None},
           \A d \in Daemons : phase'[d] = "start" => read'[d] = read[d]
    PROVE  Named' /\ (~stolen' => Single')
  <1>1. Served(file)'
    BY DEF IInv, Named, Served
  <1>2. \A r \in Daemons \cup Tools : Served(read[r])'
    BY NamesAssumption DEF IInv, Named, Served
  <1>3. \A d \in Daemons : phase'[d] = "start" => ~Found(read[d])'
    BY DEF IInv, Named, Served, Found, Alive
  <1>4. ~stolen' => Single'
    BY DEF IInv, Single
  <1> QED
    BY <1>1, <1>2, <1>3, <1>4 DEF Named

LEMMA DaemonStep ==
    ASSUME IInv, NEW d \in Daemons,
           \/ DaemonCheck(d) \/ DaemonJudge(d) \/ Truncate(d) \/ WritePortFile(d)
           \/ FailStart(d) \/ Drain(d) \/ RemovePortFile(d)
           \/ Crash(d) \/ Launch(d) \/ Spawn(d) \/ SpawnedExits(d)
    PROVE  Named' /\ (~stolen' => Single')
  <1> USE NamesAssumption DEF Go, End
  <1>1. CASE DaemonCheck(d)
    BY <1>1, Quiet DEF DaemonCheck, IInv, TypeOK
  <1>2. CASE DaemonJudge(d)
    <2> USE DEF TypeOK
    <2>1. /\ Judge(read[d]) /\ phase[d] = "judge"
          /\ \/ Refuses(read[d]) /\ End(d)
             \/ ~Refuses(read[d]) /\ Go(d, "start") /\ UNCHANGED read
      BY <1>2 DEF DaemonJudge
    <2>2. \A e \in Daemons : e # d => phase'[e] = phase[e]
      BY <2>1 DEF IInv
    <2>3. phase'[d] \in {"start", "gone"} /\ (phase'[d] = "start" => ~Found(read[d]) /\ UNCHANGED read)
      BY <2>1 DEF IInv, Refuses
    <2>4. \A r \in Daemons \cup Tools : read'[r] \in {read[r], None}
      BY <2>1 DEF IInv
    <2>5. Named'
      <3>1. Served(file)'
        BY <2>1, <2>2, JudgeServed DEF Served
      <3>2. \A r \in Daemons \cup Tools : Served(read[r])'
        BY <2>1, <2>2, <2>4 DEF IInv, Named, Served
      <3>3. \A e \in Daemons : phase'[e] = "start" => ~Found(read[e])'
        <4>1. \A e \in Daemons : e # d => read'[e] = read[e]
          BY <2>1 DEF IInv
        <4>2. \A r \in Daemons : Served(read[r]) /\ read[r] # d
          BY <2>1 DEF IInv, Named, Served
        <4>3. \A r \in Daemons : Found(read[r])' /\ read'[r] = read[r] => Found(read[r])
          BY <2>2, <4>2 DEF Found, Alive
        <4> QED
          BY <2>2, <2>3, <4>1, <4>3 DEF IInv, Named
      <3> QED
        BY <3>1, <3>2, <3>3 DEF Named
    <2>6. ~stolen' => Single'
      <3> SUFFICES ASSUME ~stolen' PROVE Single'
        OBVIOUS
      <3>1. ~stolen /\ Single /\ (file' # file => \A e \in Daemons : ~Owning(e))
        BY <2>1, JudgeSingle
      <3> QED
        BY <2>2, <2>3, <3>1 DEF Single, Owning
    <2> QED
      BY <2>5, <2>6
  <1>3. CASE Truncate(d)
    <2> USE DEF IInv, TypeOK
    <2>1. /\ phase[d] = "start" /\ file' = Torn /\ UNCHANGED read
          /\ phase' = [phase EXCEPT ![d] = "write"]
      BY <1>3 DEF Truncate
    <2>2. Named'
      BY <2>1 DEF Named, Served, Found, Alive
    <2>3. ASSUME ~stolen', NEW e \in Daemons \ {d} PROVE ~Owning(e)
      <3>1. ~stolen /\ Single
        BY <1>3, <2>3 DEF Truncate
      <3>2. Owning(e) => e \in Rivals(d) /\ Owned(Rivals(d))
        BY <3>1 DEF Owning, Rivals, Alive, Owned, Single
      <3>3. Owning(e) => file = Torn \/ (file = e /\ Alive(e))
        BY <3>1 DEF Owning, Alive, Single
      <3>4. read[d] # e \/ ~Alive(e)
        BY <2>1 DEF Named, Found
      <3> QED
        BY <1>3, <2>3, <3>2, <3>3, <3>4 DEF Truncate, Content
    <2>4. ~stolen' => Single'
      BY <2>1, <2>3 DEF Single, Owning
    <2> QED
      BY <2>2, <2>4
  <1>4. CASE WritePortFile(d)
    <2> USE DEF IInv, TypeOK
    <2>1. /\ phase[d] = "write" /\ file' \in {None, d} /\ (file # None => file' = d)
          /\ read' = [read EXCEPT ![d] = None] /\ UNCHANGED stolen
          /\ phase' = [phase EXCEPT ![d] = "up"]
      BY <1>4 DEF WritePortFile
    <2>2. Named'
      BY <2>1 DEF Named, Served, Found, Alive
    <2>3. ~stolen' => Single'
      BY <2>1 DEF Single
    <2> QED
      BY <2>2, <2>3
  <1>5. CASE FailStart(d) \/ Crash(d)
    BY <1>5, Quiet DEF FailStart, Crash, IInv, TypeOK
  <1>6. CASE Drain(d)
    <2>1. /\ phase[d] = "up" /\ UNCHANGED <<file, read, stolen>>
          /\ phase' = [phase EXCEPT ![d] = "drain"]
      BY <1>6 DEF Drain
    <2> QED
      BY <2>1 DEF IInv, TypeOK, Named, Served, Found, Alive, Single
  <1>7. CASE RemovePortFile(d)
    <2> USE DEF IInv, TypeOK
    <2>1. /\ phase[d] = "drain" /\ file' = None /\ UNCHANGED read
          /\ phase' = [phase EXCEPT ![d] = "gone"]
      BY <1>7 DEF RemovePortFile
    <2>2. Named'
      BY <2>1 DEF Named, Served, Found, Alive
    <2>3. ASSUME ~stolen', NEW e \in Daemons \ {d} PROVE ~Owning(e)
      <3>1. ~stolen /\ Single /\ ~Owned(Rivals(d))
        BY <1>7, <2>3 DEF RemovePortFile
      <3> QED
        BY <3>1 DEF Owning, Rivals, Alive, Owned, Single
    <2>4. ~stolen' => Single'
      BY <2>1, <2>3 DEF Single, Owning
    <2> QED
      BY <2>2, <2>4
  <1>8. CASE Launch(d)
    BY <1>8, Quiet DEF Launch, Unstarted, IInv, TypeOK
  <1>9. CASE Spawn(d)
    BY <1>9, Quiet DEF Spawn, Unstarted, IInv, TypeOK
  <1>10. CASE SpawnedExits(d)
    BY <1>10, Quiet DEF SpawnedExits, IInv, TypeOK
  <1> QED
    BY <1>1, <1>2, <1>3, <1>4, <1>5, <1>6, <1>7, <1>8, <1>9, <1>10

LEMMA ClientStep ==
    ASSUME IInv,
           \/ \E t \in Tools : ToolRead(t) \/ ToolJudge(t) \/ ToolConnect(t) \/ ToolRestart(t)
           \/ Connect \/ EditorRead \/ EditorProbe \/ PollTimeout \/ StreamEnds \/ Reconnect \/ Restart
    PROVE  Named' /\ (~stolen' => Single')
  <1> USE NamesAssumption
  <1>1. ASSUME NEW t \in Tools, ToolRead(t) \/ ToolConnect(t)
        PROVE  Named' /\ (~stolen' => Single')
    BY <1>1, Quiet DEF ToolRead, ToolConnect, IInv, TypeOK
  <1>2. ASSUME NEW t \in Tools, ToolRestart(t) PROVE Named' /\ (~stolen' => Single')
    BY <1>2, Quiet DEF ToolRestart, IInv, TypeOK
  <1>3. ASSUME NEW t \in Tools, ToolJudge(t) PROVE Named' /\ (~stolen' => Single')
    <2>1. Judge(read[t]) /\ UNCHANGED <<phase, read>>
      BY <1>3 DEF ToolJudge
    <2>2. Named'
      BY <2>1, JudgeServed DEF IInv, Named, Served, Found, Alive
    <2>3. ~stolen' => Single'
      BY <2>1, JudgeSingle DEF Single, Owning
    <2> QED
      BY <2>2, <2>3
  <1>4. CASE Connect \/ EditorRead \/ EditorProbe \/ PollTimeout \/ StreamEnds \/ Reconnect
    BY <1>4, Quiet
    DEF Connect, EditorRead, EditorProbe, PollTimeout, StreamEnds, Reconnect, IInv, TypeOK
  <1>5. CASE Restart
    <2>1. UNCHANGED <<file, read, stolen>>
      BY <1>5 DEF Restart
    <2>2. \A d \in Daemons : phase'[d] = phase[d] \/ (phase[d] = "up" /\ phase'[d] = "drain")
      BY <1>5 DEF Restart, Healthy, IInv, TypeOK
    <2> QED
      BY <2>1, <2>2 DEF IInv, Named, Served, Found, Alive, Single
  <1> QED
    BY <1>1, <1>2, <1>3, <1>4, <1>5

LEMMA IInvStep == IInv /\ [Next]_vars => IInv'
  <1>1. IInv /\ UNCHANGED vars => IInv'
    BY DEF vars, IInv, TypeOK, Named, Served, Found, Alive, Single
  <1> QED
    BY <1>1, TypeStep, DaemonStep, ClientStep DEF IInv, Next

-----------------------------------------------------------------------------
\* Two daemons serve one project only behind a theft: somebody judged an older
\* content of the port file, or a half-written one, and took a live daemon's
\* file (ReadPortFile, WritePortFile, RemovePortFile).
THEOREM PortFileSecondDaemon == Spec => []SecondDaemon
  <1>1. IInv => SecondDaemon
    BY DEF IInv, Single, SecondDaemon, OneDaemon, Serving, Healthy
  <1> QED
    BY InitInv, IInvStep, <1>1, PTL DEF Spec

-----------------------------------------------------------------------------
(***************************************************************************)
(* The registry.                                                           *)
(***************************************************************************)

(* Types.                                                                   *)

Kinds == {"none", "add", "update", "hold", "install", "remove"}
Demands == [name : Names, ref : Refs]
Entries == [version : Versions, tag : Tags \cup {Untagged}, direct : BOOLEAN, needs : SUBSET Names]
Closures == UNION {[S -> Entries] : S \in SUBSET Names}
Frames == [above : SUBSET Names, direct : BOOLEAN, demands : SUBSET Demands]
Paths == UNION {DOMAIN Files(n, v) : n \in Names, v \in Versions}
Changes == [sweep : SUBSET Names, prune : SUBSET (Names \X Paths), write : SUBSET (Names \X Paths),
            save : BOOLEAN, declare : BOOLEAN]

ProjectTypes ==
    /\ published \in [Names -> Versions]
    /\ tagged \in [Names -> [Tags -> Versions]]
    /\ declared \in UNION {[S -> Refs] : S \in SUBSET Names}
    /\ lock \in Closures
    /\ DOMAIN disk = Names
    /\ torn \subseteq Closures

CommandTypes ==
    /\ command \in [kind : Kinds, name : Names \cup {""}, ref : Refs, plan : Closures, fetched : BOOLEAN]
    /\ stack \in Seq(Frames)
    /\ todo \in Changes
    /\ last \in [kind : Kinds, ok : BOOLEAN, whole : BOOLEAN]

\* An entry records the dependencies of its version.
Recording(p) == \A n \in DOMAIN p : p[n].needs = {d.name : d \in Needs(n, p[n].version)}

\* What runs, and when it may resolve or change files.
Course ==
    /\ command.kind = "none" => command = Idle
    /\ command.kind \in {"add", "remove"} => command.name \in Names
    /\ command.kind # "none" => ~last.ok /\ last.kind = command.kind
    /\ stack # <<>> => Syncing /\ ~command.fetched
    /\ ~Working => todo = Nothing

RegistryTypes ==
    /\ ProjectTypes
    /\ CommandTypes
    /\ Recording(lock) /\ Recording(command.plan)
    /\ Course

-----------------------------------------------------------------------------
(* The operators.                                                           *)

LEMMA ClosureIs ==
    ASSUME NEW p PROVE p \in Closures <=> DOMAIN p \subseteq Names /\ p \in [DOMAIN p -> Entries]
  <1>1. ASSUME p \in Closures PROVE DOMAIN p \subseteq Names /\ p \in [DOMAIN p -> Entries]
    BY <1>1 DEF Closures
  <1>2. ASSUME DOMAIN p \subseteq Names, p \in [DOMAIN p -> Entries] PROVE p \in Closures
    BY <1>2 DEF Closures
  <1> QED
    BY <1>1, <1>2

LEMMA EmptyIs == DOMAIN Empty = {} /\ Empty \in Closures /\ Empty \in UNION {[S -> Refs] : S \in SUBSET Names}
  <1>1. DOMAIN Empty = {}
    BY DEF Empty
  <1>2. \A T : Empty \in [{} -> T]
    BY <1>1 DEF Empty
  <1> QED
    BY <1>1, <1>2, ClosureIs

LEMMA WithIs ==
    ASSUME NEW f, NEW x, NEW y
    PROVE  /\ DOMAIN With(f, x, y) = DOMAIN f \cup {x}
           /\ With(f, x, y)[x] = y
           /\ \A z \in DOMAIN f \ {x} : With(f, x, y)[z] = f[z]
  BY DEF With

LEMMA WithoutIs ==
    ASSUME NEW f, NEW S
    PROVE  DOMAIN Without(f, S) = DOMAIN f \ S /\ \A z \in DOMAIN f \ S : Without(f, S)[z] = f[z]
  BY DEF Without

LEMMA WithClosure ==
    ASSUME NEW p \in Closures, NEW n \in Names, NEW e \in Entries PROVE With(p, n, e) \in Closures
  BY ClosureIs DEF With

LEMMA WithoutClosure ==
    ASSUME NEW p \in Closures, NEW S PROVE Without(p, S) \in Closures
  BY ClosureIs DEF Without

LEMMA NeedsType ==
    ASSUME NEW n \in Names, NEW v \in Versions
    PROVE  Needs(n, v) \subseteq Demands /\ {d.name : d \in Needs(n, v)} \subseteq Names
  BY NeedsAssumption DEF Demands

LEMMA VersionsAre ==
    /\ Versions \subseteq Refs /\ Tags \subseteq Refs /\ Latest \in Refs /\ 1 \in Versions
    /\ \A ref \in Refs : IF IsPin(ref) THEN ref \in Versions ELSE ref \in Tags
  BY BoundAssumption, TagsAssumption DEF Versions, Refs, IsPin

LEMMA NothingType == Nothing \in Changes
  BY DEF Nothing, Changes

LEMMA IdleType ==
    /\ Idle \in [kind : Kinds, name : Names \cup {""}, ref : Refs, plan : Closures, fetched : BOOLEAN]
    /\ Idle.kind = "none" /\ Idle.plan = Empty /\ ~Idle.fetched
  BY EmptyIs, VersionsAre DEF Idle, Kinds

LEMMA EntryType ==
    ASSUME NEW d \in Demands, NEW direct \in BOOLEAN, Version(d.name, d.ref) \in Versions
    PROVE  /\ Entry(d, direct) \in Entries
           /\ Entry(d, direct).version = Version(d.name, d.ref)
           /\ Entry(d, direct).tag = IF IsPin(d.ref) THEN Untagged ELSE d.ref
           /\ Entry(d, direct).direct = direct
           /\ Entry(d, direct).needs = {e.name : e \in Needs(d.name, Entry(d, direct).version)}
  BY NeedsType, VersionsAre DEF Entry, Entries, Demands

LEMMA VersionType ==
    ASSUME tagged \in [Names -> [Tags -> Versions]], NEW d \in Demands
    PROVE  /\ Version(d.name, d.ref) \in Versions
           /\ IsPin(d.ref) => Version(d.name, d.ref) = d.ref
  BY VersionsAre DEF Version, Demands

\* A closure keeps its types when one of its entries becomes direct.
LEMMA AlsoDirectType ==
    ASSUME NEW e \in Entries, NEW direct \in BOOLEAN
    PROVE  /\ AlsoDirect(e, direct) \in Entries
           /\ AlsoDirect(e, direct).version = e.version
           /\ AlsoDirect(e, direct).tag = e.tag
           /\ AlsoDirect(e, direct).needs = e.needs
           /\ AlsoDirect(e, direct).direct = (e.direct \/ direct)
  BY DEF AlsoDirect, Entries

-----------------------------------------------------------------------------
(* The stack of visits.                                                     *)

LEMMA TopIs ==
    ASSUME stack \in Seq(Frames), stack # <<>>
    PROVE  Len(stack) \in DOMAIN stack /\ Len(stack) \in Nat \ {0} /\ Top \in Frames /\ Top = stack[Len(stack)]
  BY DEF Top

LEMMA VisitedIs ==
    ASSUME stack \in Seq(Frames), stack # <<>>, NEW d
    PROVE  /\ Visited(d) \in Seq(Frames)
           /\ DOMAIN Visited(d) = DOMAIN stack
           /\ Len(Visited(d)) = Len(stack)
           /\ Visited(d) # <<>>
           /\ \A i \in DOMAIN stack :
                 /\ Visited(d)[i].direct = stack[i].direct
                 /\ Visited(d)[i].demands \subseteq stack[i].demands
                 /\ \A e \in stack[i].demands : e # d => e \in Visited(d)[i].demands
                 /\ i # Len(stack) => Visited(d)[i] = stack[i]
  <1> DEFINE n == Len(stack)
             frame == [stack[n] EXCEPT !.demands = @ \ {d}]
             rest == [stack EXCEPT ![n] = frame]
  <1>1. n \in DOMAIN stack /\ n \in Nat \ {0} /\ stack[n] \in Frames
    BY TopIs DEF Top
  <1>2. Visited(d) = rest
    BY DEF Visited
  <1>3. /\ frame \in Frames
        /\ frame.direct = stack[n].direct
        /\ frame.demands = stack[n].demands \ {d}
    BY <1>1 DEF Frames
  <1> HIDE DEF frame
  <1>4. rest \in Seq(Frames) /\ DOMAIN rest = DOMAIN stack /\ Len(rest) = Len(stack)
    BY <1>1, <1>3
  <1>5. \A i \in DOMAIN stack : rest[i] = IF i = n THEN frame ELSE stack[i]
    BY <1>1
  <1>6. rest # <<>>
    BY <1>1, <1>4
  <1> QED
    BY <1>2, <1>3, <1>4, <1>5, <1>6

LEMMA DeeperIs ==
    ASSUME NEW s \in Seq(Frames), NEW f \in Frames
    PROVE  /\ Append(s, f) \in Seq(Frames)
           /\ Append(s, f) # <<>>
           /\ DOMAIN Append(s, f) = DOMAIN s \cup {Len(s) + 1}
           /\ Append(s, f)[Len(s) + 1] = f
           /\ \A i \in DOMAIN s : Append(s, f)[i] = s[i]
  OBVIOUS

LEMMA ReturnedIs ==
    ASSUME stack \in Seq(Frames), stack # <<>>, Top.demands = {},
           NEW s, s = SubSeq(stack, 1, Len(stack) - 1)
    PROVE  /\ s \in Seq(Frames)
           /\ \A i \in DOMAIN s : i \in DOMAIN stack /\ s[i] = stack[i]
           /\ \A i \in DOMAIN stack : stack[i].demands # {} => i \in DOMAIN s
  <1>1. Len(stack) \in Nat \ {0} /\ DOMAIN stack = 1..Len(stack) /\ stack[Len(stack)].demands = {}
    BY TopIs
  <1>2. s \in Seq(Frames) /\ DOMAIN s = 1..(Len(stack) - 1)
    BY <1>1
  <1>3. \A i \in 1..(Len(stack) - 1) : s[i] = stack[i]
    BY <1>1
  <1> QED
    BY <1>1, <1>2, <1>3

-----------------------------------------------------------------------------
(* Types: the steps of a command that resolves.                             *)

LEMMA RefuseTypes == ASSUME RegistryTypes, ~Working, Refuse PROVE RegistryTypes'
  <1>1. ProjectTypes' /\ Recording(lock)'
    BY DEF RegistryTypes, Refuse, ProjectTypes, Recording, external, project, store
  <1> USE DEF RegistryTypes, Refuse
  <1>2. command' = Idle /\ stack' = <<>> /\ todo' = todo /\ last' = last
    OBVIOUS
  <1>3. CommandTypes' /\ Recording(command.plan)'
    <2>1. command'.plan = Empty
      BY <1>2, IdleType
    <2>2. <<>> \in Seq(Frames)
      OBVIOUS
    <2> QED
      BY <1>2, <2>1, <2>2, IdleType, EmptyIs DEF CommandTypes, Recording
  <1>4. Course'
    <2>1. command'.kind = "none" /\ ~command'.fetched /\ todo' = Nothing
      BY <1>2, IdleType DEF Course
    <2> QED
      BY <1>2, <2>1 DEF Course, Working
  <1> QED
    BY <1>1, <1>3, <1>4

\* What a visit that goes on leaves of the types.
LEMMA VisitTypes ==
    ASSUME RegistryTypes, stack # <<>>, NEW p \in Closures, Recording(p),
           command' = [command EXCEPT !.plan = p], stack' \in Seq(Frames),
           UNCHANGED <<external, project, todo, last, torn>>
    PROVE  RegistryTypes'
  <1>1. ProjectTypes' /\ Recording(lock)'
    BY DEF RegistryTypes, ProjectTypes, Recording, external, project, store
  <1> USE DEF RegistryTypes
  <1>2. command' \in [kind : Kinds, name : Names \cup {""}, ref : Refs, plan : Closures, fetched : BOOLEAN]
    BY DEF CommandTypes
  <1>3. /\ command'.plan = p /\ command'.kind = command.kind /\ command'.name = command.name
        /\ command'.fetched = command.fetched /\ command'.ref = command.ref
    BY DEF CommandTypes
  <1>4. CommandTypes' /\ Recording(command.plan)'
    BY <1>2, <1>3 DEF CommandTypes, Recording
  <1>5. Course'
    BY <1>3 DEF Course, Working, CommandTypes, Syncing
  <1> QED
    BY <1>1, <1>4, <1>5

LEMMA AgainIs ==
    ASSUME RegistryTypes, stack # <<>>, NEW d \in Top.demands, VisitAgain(d)
    PROVE  LET e == AlsoDirect(command.plan[d.name], Top.direct)
               p == [command.plan EXCEPT ![d.name] = e]
           IN  /\ command' = [command EXCEPT !.plan = p]
               /\ d \in Demands /\ command.plan[d.name] \in Entries
               /\ DOMAIN p = Resolved /\ p[d.name] = e
               /\ \A n \in Resolved \ {d.name} : p[n] = command.plan[n]
               /\ p \in Closures /\ Recording(p)
  <1> DEFINE e == AlsoDirect(command.plan[d.name], Top.direct)
             p == [command.plan EXCEPT ![d.name] = e]
  <1> USE DEF RegistryTypes
  <1>1. Top \in Frames /\ d \in Demands
    BY TopIs DEF CommandTypes, Frames
  <1>2. d.name \in Resolved /\ command.plan \in Closures
    BY DEF VisitAgain, CommandTypes
  <1>3. command.plan[d.name] \in Entries
    BY <1>2, ClosureIs DEF Resolved
  <1>4. e \in Entries /\ e.version = command.plan[d.name].version /\ e.needs = command.plan[d.name].needs
    BY <1>1, <1>3, AlsoDirectType DEF Frames
  <1>5. command' = [command EXCEPT !.plan = p]
    BY DEF VisitAgain
  <1> HIDE DEF e
  <1>6. DOMAIN p = Resolved /\ p[d.name] = e /\ \A n \in Resolved \ {d.name} : p[n] = command.plan[n]
    BY <1>2 DEF Resolved
  <1>7. p \in Closures
    BY <1>2, <1>4, ClosureIs DEF Resolved
  <1>8. Recording(p)
    BY <1>2, <1>4, <1>6 DEF Recording, Resolved
  <1> QED
    BY <1>1, <1>3, <1>5, <1>6, <1>7, <1>8 DEF e

LEMMA NewIs ==
    ASSUME RegistryTypes, stack # <<>>, NEW d \in Top.demands, VisitNew(d)
    PROVE  LET e == Entry(d, Top.direct)
               p == With(command.plan, d.name, e)
               f == [above |-> Top.above \cup {d.name}, direct |-> FALSE, demands |-> Needs(d.name, e.version)]
           IN  /\ command' = [command EXCEPT !.plan = p]
               /\ stack' = Append(Visited(d), f)
               /\ d \in Demands /\ d.name \notin Resolved /\ Top.direct \in BOOLEAN
               /\ f \in Frames /\ e \in Entries
               /\ e.version = Version(d.name, d.ref)
               /\ DOMAIN p = Resolved \cup {d.name} /\ p[d.name] = e
               /\ \A n \in Resolved : p[n] = command.plan[n]
               /\ p \in Closures /\ Recording(p)
  <1> DEFINE e == Entry(d, Top.direct)
             p == With(command.plan, d.name, e)
             f == [above |-> Top.above \cup {d.name}, direct |-> FALSE, demands |-> Needs(d.name, e.version)]
  <1> USE DEF RegistryTypes
  <1>1. Top \in Frames /\ d \in Demands /\ d.name \in Names
    BY TopIs DEF CommandTypes, Frames, Demands
  <1>2. d.name \notin Resolved /\ command.plan \in Closures
    BY DEF VisitNew, CommandTypes
  <1>3. tagged \in [Names -> [Tags -> Versions]]
    BY DEF ProjectTypes
  <1>4. /\ e \in Entries /\ e.version = Version(d.name, d.ref) /\ e.version \in Versions
        /\ e.needs = {x.name : x \in Needs(d.name, e.version)}
    BY <1>1, <1>3, VersionType, EntryType DEF Frames
  <1> HIDE DEF e
  <1>5. DOMAIN p = Resolved \cup {d.name} /\ p[d.name] = e /\ \A n \in Resolved : p[n] = command.plan[n]
    <2>1. /\ DOMAIN p = DOMAIN command.plan \cup {d.name} /\ p[d.name] = e
          /\ \A n \in DOMAIN command.plan \ {d.name} : p[n] = command.plan[n]
      BY WithIs DEF With
    <2> QED
      BY <1>2, <2>1 DEF Resolved
  <1>6. p \in Closures
    BY <1>1, <1>2, <1>4, WithClosure
  <1>7. Recording(p)
    BY <1>4, <1>5 DEF Recording, Resolved
  <1>8. f \in Frames
    BY <1>1, <1>4, NeedsType DEF Frames
  <1>9. command' = [command EXCEPT !.plan = p] /\ stack' = Append(Visited(d), f)
    BY <1>4 DEF VisitNew, e
  <1> QED
    BY <1>1, <1>2, <1>4, <1>5, <1>6, <1>7, <1>8, <1>9 DEF e, Frames

LEMMA VisitStepTypes == ASSUME RegistryTypes, Visit PROVE RegistryTypes'
  <1>1. stack # <<>> /\ stack \in Seq(Frames)
    BY DEF Visit, RegistryTypes, CommandTypes
  <1>2. PICK d \in Top.demands : VisitFails(d) \/ VisitAgain(d) \/ VisitNew(d)
    BY DEF Visit
  <1>3. CASE VisitFails(d)
    BY <1>1, <1>3, RefuseTypes DEF VisitFails, RegistryTypes, Course, Working, Syncing
  <1>4. CASE VisitAgain(d)
    <2>1. stack' \in Seq(Frames) /\ UNCHANGED <<external, project, todo, last, torn>>
      BY <1>1, <1>4, VisitedIs DEF VisitAgain
    <2> QED
      BY <1>1, <1>4, <2>1, AgainIs, VisitTypes
  <1>5. CASE VisitNew(d)
    <2>1. UNCHANGED <<external, project, todo, last, torn>>
      BY <1>5 DEF VisitNew
    <2>2. stack' \in Seq(Frames)
      <3> DEFINE e == Entry(d, Top.direct)
                 f == [above |-> Top.above \cup {d.name}, direct |-> FALSE, demands |-> Needs(d.name, e.version)]
      <3>1. f \in Frames /\ stack' = Append(Visited(d), f)
        BY <1>1, <1>5, NewIs
      <3>2. Visited(d) \in Seq(Frames)
        BY <1>1, VisitedIs
      <3> QED
        BY <3>1, <3>2, DeeperIs
    <2> QED
      BY <1>1, <1>5, <2>1, <2>2, NewIs, VisitTypes
  <1> QED
    BY <1>2, <1>3, <1>4, <1>5

LEMMA ReturnTypes == ASSUME RegistryTypes, Return PROVE RegistryTypes'
  <1>1. stack # <<>> /\ stack \in Seq(Frames) /\ stack' \in Seq(Frames)
    BY ReturnedIs DEF Return, RegistryTypes, CommandTypes
  <1> QED
    BY <1>1 DEF Return, RegistryTypes, ProjectTypes, CommandTypes, Recording, Course, Working, Syncing, external, project, store

-----------------------------------------------------------------------------
(* Types: the start of a command.                                           *)

LEMMA WholeIsBoolean == Whole \in BOOLEAN
  BY DEF Whole

\* What Run leaves of the types when its closure is one.
LEMMA RunTypes ==
    ASSUME RegistryTypes, NEW kind \in Kinds \ {"none"}, NEW name \in Names \cup {""}, NEW ref \in Refs,
           NEW p \in Closures, Run(kind, name, ref, p)
    PROVE  /\ command = Idle /\ stack = <<>> /\ todo = Nothing
           /\ command' \in [kind : Kinds, name : Names \cup {""}, ref : Refs, plan : Closures, fetched : BOOLEAN]
           /\ command'.kind = kind /\ command'.name = name /\ command'.ref = ref /\ command'.plan = p
           /\ ~command'.fetched
           /\ last' \in [kind : Kinds, ok : BOOLEAN, whole : BOOLEAN]
           /\ ~last'.ok /\ last'.kind = kind /\ last'.whole = Whole
  <1>1. command = Idle /\ command.kind = "none" /\ ~command.fetched
    BY IdleType DEF Run
  <1>2. stack = <<>> /\ todo = Nothing
    BY <1>1 DEF RegistryTypes, Course, Working, Syncing
  <1>3. /\ command' = [kind |-> kind, name |-> name, ref |-> ref, plan |-> p, fetched |-> FALSE]
        /\ last' = [kind |-> kind, ok |-> FALSE, whole |-> Whole]
    BY DEF Run
  <1> QED
    BY <1>1, <1>2, <1>3, WholeIsBoolean

LEMMA StartTypes ==
    ASSUME RegistryTypes, NEW kind \in Kinds \ {"none"}, NEW name \in Names \cup {""}, NEW ref \in Refs,
           NEW p \in Closures, Run(kind, name, ref, p), Recording(p),
           kind \in {"add", "remove"} => name \in Names,
           stack' \in Seq(Frames), todo' \in Changes,
           stack' # <<>> => kind \in {"add", "update", "hold"},
           kind # "remove" => todo' = Nothing,
           UNCHANGED <<published, tagged, project, torn>>
    PROVE  RegistryTypes'
  <1>1. ProjectTypes' /\ Recording(lock)'
    BY DEF RegistryTypes, ProjectTypes, Recording, project, store
  <1>2. CommandTypes' /\ Recording(command.plan)'
    <2>1. /\ command' \in [kind : Kinds, name : Names \cup {""}, ref : Refs, plan : Closures, fetched : BOOLEAN]
          /\ command'.plan = p /\ last' \in [kind : Kinds, ok : BOOLEAN, whole : BOOLEAN]
      BY RunTypes
    <2> QED
      BY <2>1 DEF CommandTypes, Recording
  <1>3. Course'
    BY RunTypes DEF Course, Working, Syncing
  <1> QED
    BY <1>1, <1>2, <1>3 DEF RegistryTypes

LEMMA OneFrame ==
    ASSUME NEW f \in Frames
    PROVE  <<f>> \in Seq(Frames) /\ <<f>> # <<>> /\ DOMAIN <<f>> = {1} /\ <<f>>[1] = f
  OBVIOUS

LEMMA SyncTypes ==
    ASSUME RegistryTypes, NEW kind \in {"add", "update", "hold"}, NEW name \in Names \cup {""}, NEW ref \in Refs,
           NEW roots, DOMAIN roots \subseteq Names, \A n \in DOMAIN roots : roots[n] \in Refs,
           kind = "add" => name \in Names, Sync(kind, name, ref, roots)
    PROVE  RegistryTypes'
  <1> DEFINE f == [above |-> {}, direct |-> TRUE,
                   demands |-> {[name |-> n, ref |-> roots[n]] : n \in DOMAIN roots}]
  <1>1. f \in Frames
    <2>1. \A n \in DOMAIN roots : [name |-> n, ref |-> roots[n]] \in Demands
      BY DEF Demands
    <2>2. {[name |-> n, ref |-> roots[n]] : n \in DOMAIN roots} \subseteq Demands
      BY <2>1
    <2> QED
      BY <2>2 DEF Frames
  <1>2. stack' \in Seq(Frames)
    BY <1>1, OneFrame DEF Sync
  <1>3. Run(kind, name, ref, Empty) /\ todo' = todo /\ UNCHANGED <<published, tagged, project, torn>>
    BY DEF Sync, project, store
  <1>4. Recording(Empty) /\ Empty \in Closures /\ kind \in Kinds \ {"none"}
    BY EmptyIs DEF Recording, Kinds
  <1>5. todo' = Nothing
    BY <1>3, <1>4, RunTypes
  <1> QED
    BY <1>2, <1>3, <1>4, <1>5, NothingType, StartTypes

LEMMA DeclaredIs ==
    ASSUME ProjectTypes
    PROVE  DOMAIN declared \subseteq Names /\ \A n \in DOMAIN declared : declared[n] \in Refs
  BY DEF ProjectTypes

LEMMA LockIs ==
    ASSUME ProjectTypes
    PROVE  DOMAIN lock \subseteq Names /\ \A n \in DOMAIN lock : lock[n] \in Entries
  BY ClosureIs DEF ProjectTypes

\* remove keeps what the other declarations reach: a part of the lock.
LEMMA RemainingIs ==
    ASSUME ProjectTypes, Recording(lock), NEW n
    PROVE  /\ Remaining(n) \in Closures
           /\ Recording(Remaining(n))
           /\ DOMAIN Remaining(n) = DOMAIN lock \cap Reachable(DOMAIN declared \ {n})
           /\ \A m \in DOMAIN Remaining(n) : Remaining(n)[m].version = lock[m].version
  <1> DEFINE S == Reachable(DOMAIN declared \ {n})
             kept == Without(lock, DOMAIN lock \ S)
             less == [kept EXCEPT ![n].direct = FALSE]
  <1>1. DOMAIN kept = DOMAIN lock \cap S /\ \A m \in DOMAIN kept : kept[m] = lock[m]
    BY DEF Without
  <1>2. kept \in Closures
    BY WithoutClosure DEF ProjectTypes
  <1>3. Remaining(n) = IF n \in DOMAIN kept THEN less ELSE kept
    BY DEF Remaining
  <1> HIDE DEF kept, S
  <1>4. Recording(kept)
    BY <1>1 DEF Recording
  <1>5. CASE n \in DOMAIN kept
    <2> DEFINE e == [kept[n] EXCEPT !.direct = FALSE]
    <2>1. kept[n] \in Entries /\ DOMAIN kept \subseteq Names /\ kept \in [DOMAIN kept -> Entries]
      BY <1>2, <1>5, ClosureIs
    <2>2. e \in Entries /\ e.version = kept[n].version /\ e.needs = kept[n].needs
      BY <2>1 DEF Entries
    <2>3. less = [kept EXCEPT ![n] = e]
      OBVIOUS
    <2> HIDE DEF e, less
    <2>4. DOMAIN less = DOMAIN kept /\ less[n] = e /\ \A m \in DOMAIN kept \ {n} : less[m] = kept[m]
      BY <2>3, <1>5
    <2>5. less \in Closures
      BY <2>1, <2>2, <2>4, <2>3, ClosureIs
    <2>6. Recording(less)
      BY <1>4, <1>5, <2>2, <2>4 DEF Recording
    <2> QED
      BY <1>1, <1>3, <1>5, <2>2, <2>4, <2>5, <2>6 DEF S
  <1>6. CASE n \notin DOMAIN kept
    BY <1>1, <1>2, <1>3, <1>4, <1>6 DEF S
  <1> QED
    BY <1>5, <1>6

\* The starts of the commands, all at once.
Starts ==
    \/ \E n \in Names : \E ref \in Tags \cup {published[n]} : RegistryAdd(n, ref)
    \/ RegistryUpdate
    \/ \E n \in Names : UpdateOne(n)
    \/ RegistryInstall
    \/ \E n \in Names : RegistryRemove(n)

LEMMA StartStepTypes == ASSUME RegistryTypes, Starts PROVE RegistryTypes'
  <1> USE DEF RegistryTypes
  <1>1. ASSUME NEW n \in Names, NEW ref \in Tags \cup {published[n]}, RegistryAdd(n, ref) PROVE RegistryTypes'
    <2> DEFINE roots == With(declared, n, ref)
    <2>1. ref \in Refs
      BY VersionsAre DEF ProjectTypes
    <2>2. DOMAIN roots \subseteq Names /\ \A m \in DOMAIN roots : roots[m] \in Refs
      BY <2>1, DeclaredIs DEF With
    <2>3. Sync("add", n, ref, roots)
      BY <1>1 DEF RegistryAdd
    <2> HIDE DEF roots
    <2> QED
      BY <2>1, <2>2, <2>3, SyncTypes
  <1>2. ASSUME RegistryUpdate PROVE RegistryTypes'
    BY <1>2, DeclaredIs, VersionsAre, SyncTypes DEF RegistryUpdate
  <1>3. ASSUME NEW n \in Names, UpdateOne(n) PROVE RegistryTypes'
    <2>1. DOMAIN Held(n) \subseteq Names /\ \A m \in DOMAIN Held(n) : Held(n)[m] \in Refs
      BY DeclaredIs, LockIs, VersionsAre DEF Held, Entries
    <2> QED
      BY <1>3, <2>1, VersionsAre, SyncTypes DEF UpdateOne
  <1>4. ASSUME RegistryInstall PROVE RegistryTypes'
    <2>1. /\ Run("install", "", Latest, lock)
          /\ UNCHANGED <<published, tagged, project, torn>> /\ stack' = stack /\ todo' = todo
      BY <1>4 DEF RegistryInstall, project, store
    <2>2. lock \in Closures /\ Recording(lock) /\ Latest \in Refs /\ "install" \in Kinds \ {"none"}
      BY VersionsAre DEF ProjectTypes, Kinds
    <2>3. stack' = <<>> /\ todo' = Nothing
      BY <2>1, <2>2, RunTypes
    <2>4. stack' \in Seq(Frames)
      BY <2>3
    <2> QED
      BY <2>1, <2>2, <2>3, <2>4, NothingType, StartTypes
  <1>5. ASSUME NEW n \in Names, RegistryRemove(n) PROVE RegistryTypes'
    <2>1. /\ Run("remove", n, Latest, Remaining(n))
          /\ UNCHANGED <<published, tagged, project, torn>> /\ stack' = stack
          /\ todo' = [Nothing EXCEPT !.sweep = DOMAIN lock \ DOMAIN Remaining(n),
                                     !.save = TRUE, !.declare = TRUE]
      BY <1>5 DEF RegistryRemove, project, store
    <2>2. /\ Remaining(n) \in Closures /\ Recording(Remaining(n))
          /\ Latest \in Refs /\ "remove" \in Kinds \ {"none"}
      BY RemainingIs, VersionsAre DEF Kinds
    <2>3. stack' = <<>>
      BY <2>1, <2>2, RunTypes
    <2>4. stack' \in Seq(Frames)
      BY <2>3
    <2>5. todo' \in Changes
      BY <2>1, LockIs DEF Nothing, Changes
    <2> QED
      BY <2>1, <2>2, <2>3, <2>4, <2>5, StartTypes
  <1> QED
    BY <1>1, <1>2, <1>3, <1>4, <1>5 DEF Starts

-----------------------------------------------------------------------------
(* Types: the files, the lock, the declarations.                            *)

LEMMA RecordedIs ==
    ASSUME NEW p \in Closures, NEW n
    PROVE  /\ n \in DOMAIN p => Recorded(p, n) = Files(n, p[n].version)
           /\ n \notin DOMAIN p => DOMAIN Recorded(p, n) = {}
           /\ DOMAIN Recorded(p, n) \subseteq Paths
  <1>1. CASE n \in DOMAIN p
    <2>1. n \in Names /\ p[n].version \in Versions
      BY <1>1, ClosureIs DEF Entries
    <2> QED
      BY <1>1, <2>1 DEF Recorded, Paths
  <1>2. CASE n \notin DOMAIN p
    BY <1>2, EmptyIs DEF Recorded
  <1> QED
    BY <1>1, <1>2

LEMMA MaterializeIs ==
    ASSUME RegistryTypes
    PROVE  /\ Materialize \in Changes
           /\ Materialize.sweep = DOMAIN lock \ Resolved
           /\ \A n, f : <<n, f>> \in Materialize.prune <=>
                 n \in Resolved /\ f \in DOMAIN Recorded(lock, n) \ DOMAIN Recorded(command.plan, n)
           /\ \A n, f : <<n, f>> \in Materialize.write <=>
                 n \in Resolved /\ f \in DOMAIN Recorded(command.plan, n) /\ ~Reused(n, f)
           /\ Materialize.save = Syncing
           /\ Materialize.declare = (command.kind = "add")
  <1> DEFINE prunes == UNION {{n} \X Departed(n) : n \in Resolved}
             files == UNION {{n} \X DOMAIN Recorded(command.plan, n) : n \in Resolved}
             writes == {p \in files : ~Reused(p[1], p[2])}
  <1>1. lock \in Closures /\ command.plan \in Closures /\ Resolved \subseteq Names /\ DOMAIN lock \subseteq Names
    BY ClosureIs, LockIs DEF RegistryTypes, ProjectTypes, CommandTypes, Resolved
  <1>2. Materialize = [sweep |-> DOMAIN lock \ Resolved, prune |-> prunes, write |-> writes,
                       save |-> Syncing, declare |-> command.kind = "add"]
    BY DEF Materialize
  <1>3. \A n, f : <<n, f>> \in prunes <=>
           n \in Resolved /\ f \in DOMAIN Recorded(lock, n) \ DOMAIN Recorded(command.plan, n)
    BY DEF Departed
  <1>4. \A n, f : <<n, f>> \in files <=> n \in Resolved /\ f \in DOMAIN Recorded(command.plan, n)
    OBVIOUS
  <1>5. prunes \subseteq Names \X Paths
    BY <1>1, RecordedIs DEF Departed
  <1>6. files \subseteq Names \X Paths
    BY <1>1, RecordedIs
  <1>7. Syncing \in BOOLEAN /\ (command.kind = "add") \in BOOLEAN
    BY DEF Syncing
  <1>8. \A n, f : <<n, f>> \in writes <=>
           n \in Resolved /\ f \in DOMAIN Recorded(command.plan, n) /\ ~Reused(n, f)
    BY <1>4
  <1> HIDE DEF prunes, files
  <1>9. Materialize \in Changes
    BY <1>1, <1>2, <1>5, <1>6, <1>7 DEF Changes
  <1> HIDE DEF writes
  <1> QED
    BY <1>2, <1>3, <1>8, <1>9

LEMMA FetchTypes == ASSUME RegistryTypes, Fetch PROVE RegistryTypes'
  <1>1. ProjectTypes' /\ Recording(lock)'
    BY DEF RegistryTypes, Fetch, ProjectTypes, Recording, external, project, store
  <1> USE DEF RegistryTypes, Fetch
  <1>2. /\ command' \in [kind : Kinds, name : Names \cup {""}, ref : Refs, plan : Closures, fetched : BOOLEAN]
        /\ command'.plan = command.plan /\ command'.kind = command.kind /\ command'.name = command.name
        /\ command'.fetched = TRUE
    BY DEF CommandTypes
  <1>3. CommandTypes' /\ Recording(command.plan)'
    BY <1>2, MaterializeIs DEF CommandTypes, Recording
  <1>4. Course'
    BY <1>2 DEF Course, Working, Fetching, Syncing
  <1> QED
    BY <1>1, <1>3, <1>4

\* What a change of files leaves of the types.
LEMMA FileTypes ==
    ASSUME RegistryTypes, Working, DOMAIN disk' = Names, todo' \in Changes,
           UNCHANGED <<external, declared, lock, command, stack, last, torn>>
    PROVE  RegistryTypes'
  BY DEF RegistryTypes, ProjectTypes, CommandTypes, Recording, Course, Working, Syncing, external

LEMMA TodoIs ==
    ASSUME RegistryTypes
    PROVE  todo \in Changes /\ (todo # Nothing => Working)
  BY DEF RegistryTypes, CommandTypes, Course

\* A step of a command that works finds something to do.
LEMMA StepWorks == ASSUME RegistryTypes, Step PROVE Working /\ stack = <<>>
  <1>1. todo # Nothing
    <2> SUFFICES ASSUME todo = Nothing PROVE FALSE
      OBVIOUS
    <2>1. todo.sweep = {} /\ todo.prune = {} /\ todo.write = {} /\ ~todo.save /\ ~todo.declare
      BY DEF Nothing
    <2> QED
      BY <2>1 DEF Step, SaveLockfile, Declare
  <1> QED
    BY <1>1, TodoIs DEF RegistryTypes, Course, Working, Syncing

LEMMA ChangingIs ==
    ASSUME RegistryTypes, NEW n, NEW files, Changing(n, files)
    PROVE  /\ DOMAIN disk' = Names
           /\ n \in Names => disk'[n] = files
           /\ \A m \in Names \ {n} : disk'[m] = disk[m]
           /\ UNCHANGED <<external, declared, lock, command, stack, last, torn>>
  BY DEF Changing, RegistryTypes, ProjectTypes

LEMMA StepTypes == ASSUME RegistryTypes, Step PROVE RegistryTypes'
  <1>1. Working /\ todo \in Changes
    BY StepWorks, TodoIs
  <1>2. ASSUME NEW n \in todo.sweep, SweepPackage(n) PROVE RegistryTypes'
    <2>1. todo' \in Changes
      BY <1>1, <1>2 DEF SweepPackage, Changes
    <2> QED
      BY <1>1, <1>2, <2>1, ChangingIs, FileTypes DEF SweepPackage
  <1>3. ASSUME NEW n, NEW f, RemoveTreeFile(n, f) PROVE RegistryTypes'
    <2>1. todo' \in Changes
      BY <1>1, <1>3 DEF RemoveTreeFile, Changes
    <2> QED
      BY <1>1, <1>3, <2>1, ChangingIs, FileTypes DEF RemoveTreeFile
  <1>4. ASSUME NEW n, NEW f, WriteTreeFile(n, f) PROVE RegistryTypes'
    <2>1. todo' \in Changes
      BY <1>1, <1>4 DEF WriteTreeFile, Changes
    <2> QED
      BY <1>1, <1>4, <2>1, ChangingIs, FileTypes DEF WriteTreeFile
  <1>5. CASE SaveLockfile
    <2>1. todo' \in Changes
      BY <1>1, <1>5 DEF SaveLockfile, Changes
    <2>2. command.plan \in Closures /\ Recording(command.plan)
      BY DEF RegistryTypes, CommandTypes
    <2>3. ProjectTypes' /\ Recording(lock)' /\ Recording(command.plan)'
      BY <1>5, <2>2 DEF SaveLockfile, RegistryTypes, ProjectTypes, Recording, external, store
    <2>4. CommandTypes' /\ Course'
      BY <1>1, <1>5, <2>1 DEF SaveLockfile, RegistryTypes, CommandTypes, Course, Working, Syncing
    <2> QED
      BY <2>3, <2>4 DEF RegistryTypes
  <1>6. CASE Declare
    <2>1. todo' \in Changes
      BY <1>1, <1>6 DEF Declare, Changes
    <2>2. command.kind = "add" => command.name \in Names /\ command.ref \in Refs
      BY DEF RegistryTypes, Course, CommandTypes
    <2>3. declared' \in UNION {[S -> Refs] : S \in SUBSET Names}
      <3>1. CASE command.kind = "add"
        BY <1>6, <2>2, <3>1, DeclaredIs DEF Declare, With, RegistryTypes
      <3>2. CASE command.kind # "add"
        BY <1>6, <3>2, DeclaredIs DEF Declare, Without, RegistryTypes
      <3> QED
        BY <3>1, <3>2
    <2>4. ProjectTypes' /\ Recording(lock)' /\ Recording(command.plan)'
      BY <1>6, <2>3 DEF Declare, RegistryTypes, ProjectTypes, Recording, external, store
    <2>5. CommandTypes' /\ Course'
      BY <1>1, <1>6, <2>1 DEF Declare, RegistryTypes, CommandTypes, Course, Working, Syncing
    <2> QED
      BY <2>4, <2>5 DEF RegistryTypes
  <1> QED
    BY <1>2, <1>3, <1>4, <1>5, <1>6 DEF Step

LEMMA FinishTypes == ASSUME RegistryTypes, Finish PROVE RegistryTypes'
  <1> USE DEF RegistryTypes, Finish
  <1>1. ProjectTypes' /\ Recording(lock)'
    BY DEF ProjectTypes, Recording, external, project, store
  <1>2. command' = Idle /\ command'.kind = "none" /\ command'.plan = Empty /\ ~command'.fetched
    BY IdleType
  <1>3. CommandTypes' /\ Recording(command.plan)'
    BY <1>2, IdleType, EmptyIs DEF CommandTypes, Recording
  <1>4. Course'
    BY <1>2 DEF Course, Working, Syncing
  <1> QED
    BY <1>1, <1>3, <1>4

LEMMA InterruptTypes == ASSUME RegistryTypes, Interrupt PROVE RegistryTypes'
  <1> USE DEF RegistryTypes, Interrupt
  <1>1. DOMAIN disk' = Names
    BY DEF ProjectTypes, HalfSwept, HalfWritten, store
  <1>2. torn' \subseteq Closures
    BY DEF ProjectTypes, CommandTypes
  <1>3. ProjectTypes' /\ Recording(lock)'
    BY <1>1, <1>2 DEF ProjectTypes, Recording, external
  <1>4. command' = Idle /\ command'.kind = "none" /\ command'.plan = Empty /\ ~command'.fetched
    BY IdleType
  <1>5. CommandTypes' /\ Recording(command.plan)'
    BY <1>4, IdleType, EmptyIs, NothingType DEF CommandTypes, Recording
  <1>6. stack = <<>>
    BY DEF Course, Working, Syncing
  <1>7. Course'
    BY <1>4, <1>6 DEF Course, Working, Syncing
  <1> QED
    BY <1>3, <1>5, <1>7

LEMMA AroundTypes ==
    ASSUME RegistryTypes, (\E n \in Names : \E tags \in Moved(n) : Publish(n, tags)) \/ Tamper PROVE RegistryTypes'
  <1> USE DEF RegistryTypes
  <1>1. ASSUME NEW n \in Names, NEW tags, Publish(n, tags) PROVE RegistryTypes'
    <2>1. published' \in [Names -> Versions] /\ tagged' \in [Names -> [Tags -> Versions]]
      BY <1>1, BoundAssumption DEF Publish, ProjectTypes, Versions
    <2> QED
      BY <1>1, <2>1 DEF Publish, ProjectTypes, CommandTypes, Recording, Course, Working, Syncing, project, store
  <1>2. CASE Tamper
    <2>1. DOMAIN disk' = Names
      BY <1>2 DEF Tamper, ProjectTypes
    <2>2. /\ last' \in [kind : Kinds, ok : BOOLEAN, whole : BOOLEAN]
          /\ ~last'.ok /\ last'.kind = last.kind
      BY <1>2 DEF Tamper, CommandTypes
    <2> QED
      BY <1>2, <2>1, <2>2 DEF Tamper, ProjectTypes, CommandTypes, Recording, Course, Working, Syncing
  <1> QED
    BY <1>1, <1>2

LEMMA InitTypes == RegistryInit => RegistryTypes
  <1> SUFFICES ASSUME RegistryInit PROVE RegistryTypes
    OBVIOUS
  <1> USE DEF RegistryInit
  <1>1. ProjectTypes
    BY EmptyIs, VersionsAre DEF ProjectTypes
  <1>2. CommandTypes
    <2>1. <<>> \in Seq(Frames)
      OBVIOUS
    <2> QED
      BY <2>1, IdleType, NothingType DEF CommandTypes, Kinds
  <1>3. Recording(lock) /\ Recording(command.plan)
    BY EmptyIs, IdleType DEF Recording
  <1>4. Course
    BY IdleType DEF Course
  <1> QED
    BY <1>1, <1>2, <1>3, <1>4 DEF RegistryTypes

LEMMA NextTypes == ASSUME RegistryTypes, [RegistryNext]_registryVars PROVE RegistryTypes'
  <1>1. CASE FetchFails
    BY <1>1, RefuseTypes DEF FetchFails, Fetching, Working
  <1>2. CASE UNCHANGED registryVars
    BY <1>2 DEF registryVars, external, project, store, RegistryTypes, ProjectTypes, CommandTypes, Recording, Course, Working, Syncing
  <1> QED
    BY <1>1, <1>2, StartStepTypes, VisitStepTypes, ReturnTypes, FetchTypes, StepTypes, FinishTypes,
       InterruptTypes, AroundTypes DEF RegistryNext, Starts

\* The registry's commands keep to their types: closures with the dependencies
\* of their versions, and nothing left to change while no command works.
THEOREM PackagesTypes == RegistrySpec => []RegistryTypes
  BY InitTypes, NextTypes, PTL DEF RegistrySpec

-----------------------------------------------------------------------------
(* The lock is closed.                                                      *)

Met(p, d) == d.name \in DOMAIN p /\ (IsPin(d.ref) => p[d.name].version = d.ref)
Waits(d) == \E i \in DOMAIN stack : d \in stack[i].demands

\* Every demand of what is resolved is met, or is still to be visited.
PlanCloses ==
    \A n \in Resolved : \A d \in Needs(n, command.plan[n].version) : Met(command.plan, d) \/ Waits(d)

\* install brings what is locked, and remove keeps the versions.
PlanFollows ==
    /\ command.kind = "install" => command.plan = lock
    /\ command.kind = "remove" =>
          \A n \in Resolved : n \in DOMAIN lock /\ command.plan[n].version = lock[n].version

LockInv == LockIsClosed /\ PlanCloses /\ PlanFollows

LEMMA ClosedIs == LockIsClosed <=> \A n \in DOMAIN lock : \A d \in Needs(n, lock[n].version) : Met(lock, d)
  BY DEF LockIsClosed, Met

\* What is met stays met when packages are added or become direct.
LEMMA MetStays ==
    ASSUME NEW p, NEW q, DOMAIN p \subseteq DOMAIN q,
           \A n \in DOMAIN p : q[n].version = p[n].version, NEW d, Met(p, d)
    PROVE  Met(q, d)
  BY DEF Met

\* A plan that is closed when no visit is open.
LEMMA PlanClosed ==
    ASSUME PlanCloses, stack = <<>>
    PROVE  \A n \in Resolved : \A d \in Needs(n, command.plan[n].version) : Met(command.plan, d)
  BY DEF PlanCloses, Waits

\* What an idle command has resolved.
LEMMA IdleCloses == ASSUME command' = Idle PROVE PlanCloses' /\ PlanFollows'
  BY IdleType, EmptyIs DEF PlanCloses, PlanFollows, Resolved

LEMMA InitLock == RegistryInit => LockInv
  <1> SUFFICES ASSUME RegistryInit PROVE LockInv
    OBVIOUS
  <1> QED
    BY EmptyIs, IdleType DEF RegistryInit, LockInv, LockIsClosed, PlanCloses, PlanFollows, Resolved

LEMMA RefuseLock == ASSUME LockInv, Refuse PROVE LockInv'
  <1>1. lock' = lock /\ command' = Idle
    BY DEF Refuse, project, store
  <1> QED
    BY <1>1, IdleCloses DEF LockInv, LockIsClosed

\* A visit keeps the demands that wait, but for the one it answers.
LEMMA VisitedWaits ==
    ASSUME stack \in Seq(Frames), stack # <<>>, NEW d, NEW e, Waits(e), e # d
    PROVE  \E i \in DOMAIN Visited(d) : e \in Visited(d)[i].demands
  BY VisitedIs DEF Waits

LEMMA VisitLock == ASSUME RegistryTypes, LockInv, Visit PROVE LockInv'
  <1>1. stack # <<>> /\ stack \in Seq(Frames) /\ command.kind \in {"add", "update", "hold"}
    BY DEF Visit, RegistryTypes, CommandTypes, Course, Syncing
  <1>2. PICK d \in Top.demands : VisitFails(d) \/ VisitAgain(d) \/ VisitNew(d)
    BY DEF Visit
  <1>3. CASE VisitFails(d)
    BY <1>3, RefuseLock DEF VisitFails
  <1>4. CASE VisitAgain(d)
    <2> DEFINE e == AlsoDirect(command.plan[d.name], Top.direct)
               p == [command.plan EXCEPT ![d.name] = e]
    <2>1. /\ command' = [command EXCEPT !.plan = p]
          /\ DOMAIN p = Resolved /\ p[d.name] = e
          /\ \A n \in Resolved \ {d.name} : p[n] = command.plan[n]
          /\ command.plan[d.name] \in Entries
      BY <1>1, <1>4, AgainIs
    <2>2. e.version = command.plan[d.name].version
      BY <1>1, <2>1, TopIs, AlsoDirectType DEF Frames
    <2>3. d.name \in Resolved /\ (IsPin(d.ref) => d.ref = command.plan[d.name].version)
          /\ stack' = Visited(d) /\ lock' = lock
      BY <1>4 DEF VisitAgain, Conflicts, project, store
    <2> HIDE DEF e, p
    <2>4. command'.plan = p /\ command'.kind = command.kind
      BY <2>1 DEF RegistryTypes, CommandTypes
    <2>5. \A n \in Resolved : p[n].version = command.plan[n].version
      BY <2>1, <2>2
    <2>6. Met(p, d)
      BY <2>1, <2>3, <2>5 DEF Met
    <2>7. \A x : Met(command.plan, x) => Met(p, x)
      BY <2>1, <2>5, MetStays DEF Resolved
    <2>8. \A x : Waits(x) => x = d \/ Waits(x)'
      BY <1>1, <2>3, VisitedWaits DEF Waits
    <2>9. PlanCloses'
      <3> SUFFICES ASSUME NEW n \in Resolved', NEW x \in Needs(n, command.plan[n].version)'
                   PROVE  Met(p, x) \/ Waits(x)'
        BY <2>4 DEF PlanCloses
      <3>1. n \in Resolved /\ x \in Needs(n, command.plan[n].version)
        BY <2>1, <2>4, <2>5 DEF Resolved
      <3> QED
        BY <2>6, <2>7, <2>8, <3>1 DEF LockInv, PlanCloses
    <2> QED
      BY <1>1, <2>3, <2>4, <2>9 DEF LockInv, LockIsClosed, PlanFollows
  <1>5. CASE VisitNew(d)
    <2> DEFINE e == Entry(d, Top.direct)
               p == With(command.plan, d.name, e)
               f == [above |-> Top.above \cup {d.name}, direct |-> FALSE, demands |-> Needs(d.name, e.version)]
    <2>1. /\ command' = [command EXCEPT !.plan = p]
          /\ stack' = Append(Visited(d), f)
          /\ d \in Demands /\ d.name \notin Resolved
          /\ f \in Frames
          /\ e.version = Version(d.name, d.ref)
          /\ DOMAIN p = Resolved \cup {d.name} /\ p[d.name] = e
          /\ \A n \in Resolved : p[n] = command.plan[n]
      BY <1>1, <1>5, NewIs
    <2>2. IsPin(d.ref) => e.version = d.ref
      BY <2>1, VersionType DEF RegistryTypes, ProjectTypes
    <2>3. f.demands = Needs(d.name, e.version)
      OBVIOUS
    <2> HIDE DEF e, f, p
    <2>4. command'.plan = p /\ command'.kind = command.kind /\ lock' = lock
      BY <1>5, <2>1 DEF VisitNew, project, store, RegistryTypes, CommandTypes
    <2>5. Met(p, d)
      BY <2>1, <2>2 DEF Met
    <2>6. \A x : Met(command.plan, x) => Met(p, x)
      BY <2>1, MetStays DEF Resolved
    <2>7. /\ Visited(d) \in Seq(Frames)
          /\ DOMAIN Append(Visited(d), f) = DOMAIN Visited(d) \cup {Len(Visited(d)) + 1}
          /\ Append(Visited(d), f)[Len(Visited(d)) + 1] = f
          /\ \A i \in DOMAIN Visited(d) : Append(Visited(d), f)[i] = Visited(d)[i]
      BY <1>1, <2>1, VisitedIs, DeeperIs
    <2>8. \A x : Waits(x) => x = d \/ Waits(x)'
      BY <1>1, <2>1, <2>7, VisitedWaits DEF Waits
    <2>9. \A x \in Needs(d.name, e.version) : Waits(x)'
      BY <2>1, <2>3, <2>7 DEF Waits
    <2>10. PlanCloses'
      <3> SUFFICES ASSUME NEW n \in Resolved', NEW x \in Needs(n, command.plan[n].version)'
                   PROVE  Met(p, x) \/ Waits(x)'
        BY <2>4 DEF PlanCloses
      <3>1. n \in Resolved \cup {d.name} /\ x \in Needs(n, p[n].version)
        BY <2>1, <2>4 DEF Resolved
      <3>2. CASE n \in Resolved
        BY <2>1, <2>5, <2>6, <2>8, <3>1, <3>2 DEF LockInv, PlanCloses
      <3>3. CASE n = d.name
        BY <2>1, <2>9, <3>1, <3>3
      <3> QED
        BY <3>1, <3>2, <3>3
    <2> QED
      BY <1>1, <2>4, <2>10 DEF LockInv, LockIsClosed, PlanFollows
  <1> QED
    BY <1>2, <1>3, <1>4, <1>5

LEMMA ReturnLock == ASSUME RegistryTypes, LockInv, Return PROVE LockInv'
  <1>1. /\ stack # <<>> /\ stack \in Seq(Frames) /\ Top.demands = {}
        /\ stack' = SubSeq(stack, 1, Len(stack) - 1) /\ lock' = lock /\ command' = command
    BY DEF Return, RegistryTypes, CommandTypes, project, store
  <1>2. \A d : Waits(d) => Waits(d)'
    BY <1>1, ReturnedIs DEF Waits
  <1> QED
    BY <1>1, <1>2 DEF LockInv, LockIsClosed, PlanCloses, PlanFollows, Resolved, Met

\* The packages that remain need only each other.
LEMMA RemainingCloses ==
    ASSUME RegistryTypes, LockIsClosed, NEW r
    PROVE  \A n \in DOMAIN Remaining(r) : \A d \in Needs(n, Remaining(r)[n].version) : Met(Remaining(r), d)
  <1> DEFINE roots == DOMAIN declared \ {r}
  <1> SUFFICES ASSUME NEW n \in DOMAIN Remaining(r), NEW d \in Needs(n, Remaining(r)[n].version)
               PROVE  Met(Remaining(r), d)
    OBVIOUS
  <1>1. /\ DOMAIN Remaining(r) = DOMAIN lock \cap Reachable(roots)
        /\ \A m \in DOMAIN Remaining(r) : Remaining(r)[m].version = lock[m].version
    BY RemainingIs DEF RegistryTypes
  <1> HIDE DEF roots
  <1>2. n \in DOMAIN lock /\ n \in Reachable(roots) /\ d \in Needs(n, lock[n].version)
    BY <1>1
  <1>3. d.name \in DOMAIN lock /\ (IsPin(d.ref) => lock[d.name].version = d.ref)
    BY <1>2 DEF LockIsClosed
  <1>4. d.name \in lock[n].needs
    BY <1>2 DEF RegistryTypes, Recording
  <1>5. d.name \in Names
    BY <1>3, LockIs DEF RegistryTypes
  <1>6. ASSUME NEW S \in SUBSET Names, roots \subseteq S, Closed(S) PROVE d.name \in S
    <2>1. n \in S
      BY <1>2, <1>6 DEF Reachable
    <2> QED
      BY <1>2, <1>4, <1>6, <2>1 DEF Closed
  <1>7. d.name \in Reachable(roots)
    BY <1>5, <1>6 DEF Reachable
  <1> QED
    BY <1>1, <1>3, <1>7 DEF Met

LEMMA StartLock == ASSUME RegistryTypes, LockInv, Starts PROVE LockInv'
  <1> USE DEF RegistryTypes
  <1>1. lock' = lock
    BY DEF Starts, RegistryAdd, RegistryUpdate, UpdateOne, Sync, RegistryInstall, RegistryRemove, project, store
  <1>2. ASSUME NEW kind \in {"add", "update", "hold"}, NEW name, NEW ref, Run(kind, name, ref, Empty)
        PROVE  PlanCloses' /\ PlanFollows'
    BY <1>2, EmptyIs DEF Run, PlanCloses, PlanFollows, Resolved
  <1>3. ASSUME RegistryInstall PROVE PlanCloses' /\ PlanFollows'
    <2>1. command'.kind = "install" /\ command'.plan = lock
      BY <1>3 DEF RegistryInstall, Run
    <2> QED
      BY <1>1, <2>1, ClosedIs DEF LockInv, PlanCloses, PlanFollows, Resolved
  <1>4. ASSUME NEW n \in Names, RegistryRemove(n) PROVE PlanCloses' /\ PlanFollows'
    <2>1. command'.kind = "remove" /\ command'.plan = Remaining(n)
      BY <1>4 DEF RegistryRemove, Run
    <2>2. PlanCloses'
      BY <2>1, RemainingCloses DEF LockInv, PlanCloses, Resolved
    <2>3. PlanFollows'
      BY <1>1, <2>1, RemainingIs DEF PlanFollows, Resolved
    <2> QED
      BY <2>2, <2>3
  <1>5. PlanCloses' /\ PlanFollows'
    BY <1>2, <1>3, <1>4 DEF Starts, RegistryAdd, RegistryUpdate, UpdateOne, Sync
  <1> QED
    BY <1>1, <1>5 DEF LockInv, LockIsClosed

\* Steps that keep the lock, the plan and the open visits.
LEMMA SameLock ==
    ASSUME LockInv, UNCHANGED <<lock, stack>>, command'.kind = command.kind, command'.plan = command.plan
    PROVE  LockInv'
  BY DEF LockInv, LockIsClosed, PlanCloses, PlanFollows, Waits, Resolved, Met

LEMMA StepLock == ASSUME RegistryTypes, LockInv, Step PROVE LockInv'
  <1>1. ASSUME NEW n, NEW files, Changing(n, files) PROVE LockInv'
    BY <1>1, SameLock DEF Changing
  <1>2. CASE SaveLockfile
    <2>1. lock' = command.plan /\ command' = command /\ stack' = stack /\ stack = <<>>
      BY <1>2, StepWorks DEF SaveLockfile
    <2>2. LockIsClosed'
      BY <2>1, PlanClosed DEF LockInv, LockIsClosed, Met, Resolved
    <2>3. PlanCloses'
      BY <2>1 DEF LockInv, PlanCloses, Waits, Resolved, Met
    <2> QED
      BY <2>1, <2>2, <2>3 DEF LockInv, PlanFollows, Resolved
  <1>3. CASE Declare
    BY <1>3, SameLock DEF Declare
  <1> QED
    BY <1>1, <1>2, <1>3 DEF Step, SweepPackage, RemoveTreeFile, WriteTreeFile

LEMMA NextLock == ASSUME RegistryTypes, LockInv, [RegistryNext]_registryVars PROVE LockInv'
  <1>1. CASE Fetch
    <2>1. /\ command'.plan = command.plan /\ command'.kind = command.kind
          /\ lock' = lock /\ stack' = stack
      BY <1>1 DEF Fetch, RegistryTypes, CommandTypes, project, store
    <2> QED
      BY <2>1, SameLock
  <1>2. CASE FetchFails
    BY <1>2, RefuseLock DEF FetchFails
  <1>3. CASE Finish \/ Interrupt
    BY <1>3, IdleCloses DEF Finish, Interrupt, project, store, LockInv, LockIsClosed
  <1>4. CASE (\E n \in Names : \E tags \in Moved(n) : Publish(n, tags)) \/ Tamper
    BY <1>4, SameLock DEF Publish, Tamper, project, store
  <1>5. CASE UNCHANGED registryVars
    BY <1>5, SameLock DEF registryVars, project, store
  <1> QED
    BY <1>1, <1>2, <1>3, <1>4, <1>5, StartLock, VisitLock, ReturnLock, StepLock DEF RegistryNext, Starts

\* bino.lock holds every dependency of what it holds, in one version that every
\* pin agrees with: for any packages, versions and dependencies, also when a
\* command dies, when versions are published while one resolves, and behind remove.
THEOREM PackagesLockIsClosed == RegistrySpec => []LockIsClosed
  <1>1. RegistrySpec => [](RegistryTypes /\ LockInv)
    BY InitTypes, NextTypes, InitLock, NextLock, PTL DEF RegistrySpec
  <1>2. LockInv => LockIsClosed
    BY DEF LockInv
  <1> QED
    BY <1>1, <1>2, PTL

-----------------------------------------------------------------------------
(* The store follows the lock.                                              *)

Left(n, f) == \E p \in torn : f \in DOMAIN Recorded(p, n)
Right(n, f) == f \in DOMAIN disk[n] /\ disk[n][f] = Recorded(command.plan, n)[f]

\* Every file of the store is recorded, by the lock, by what was interrupted, or
\* by the command that works.
Known ==
    \A n \in Names : \A f \in DOMAIN disk[n] :
        \/ f \in DOMAIN Recorded(lock, n)
        \/ Left(n, f)
        \/ Working /\ f \in DOMAIN Recorded(command.plan, n)

\* What a command that works still has to do is what the store lacks, and what
\* the store has too much.
Lacks ==
    command.kind # "remove" \/ last.whole =>
        \A n \in Resolved : \A f \in DOMAIN Recorded(command.plan, n) : <<n, f>> \in todo.write \/ Right(n, f)

Surplus ==
    \A n \in Names : \A f \in DOMAIN disk[n] :
        \/ f \in DOMAIN Recorded(command.plan, n)
        \/ Left(n, f)
        \/ <<n, f>> \in todo.prune
        \/ n \in todo.sweep

Disjoint ==
    /\ \A n, f : <<n, f>> \in todo.prune => f \notin DOMAIN Recorded(command.plan, n)
    /\ \A n, f : <<n, f>> \in todo.write => n \in Names /\ f \in DOMAIN Recorded(command.plan, n)
    /\ todo.sweep \cap Resolved = {}

Saved == command.kind = "install" \/ todo.save \/ lock = command.plan

Works == Working => Lacks /\ Surplus /\ Disjoint /\ Saved

StoreInv == Known /\ Works /\ SuccessIsWhole

LEMMA InitStore == RegistryInit => StoreInv
  <1> SUFFICES ASSUME RegistryInit PROVE StoreInv
    OBVIOUS
  <1>1. \A n \in Names : DOMAIN disk[n] = {}
    BY EmptyIs DEF RegistryInit
  <1>2. ~Working /\ ~Done
    BY IdleType DEF RegistryInit, Working, Done
  <1> QED
    BY <1>1, <1>2 DEF StoreInv, Known, Works, SuccessIsWhole

\* Steps that leave the project alone, before and after which no command works.
LEMMA ApartStore ==
    ASSUME StoreInv, ~Working, ~Working', UNCHANGED <<project, torn>>,
           last' = last \/ ~last'.ok, Done' => Done
    PROVE  StoreInv'
  <1>1. Known'
    BY DEF StoreInv, Known, project, store, Left, Recorded
  <1>2. Works'
    BY DEF Works
  <1>3. SuccessIsWhole'
    BY DEF StoreInv, SuccessIsWhole, Whole, Recorded, project, store, Done
  <1> QED
    BY <1>1, <1>2, <1>3 DEF StoreInv

LEMMA BusyIs == ASSUME RegistryTypes, command.kind # "none" PROVE ~Done
  BY DEF RegistryTypes, Course, Done

\* A command that resolves, and one that is refused, does not work yet.
LEMMA ResolvingStops ==
    ASSUME RegistryTypes, Visit \/ Return \/ FetchFails
    PROVE  ~Working /\ ~Working' /\ command.kind # "none"
  <1> USE DEF RegistryTypes
  <1>1. ~Working /\ command.kind # "none"
    BY DEF Visit, Return, FetchFails, Fetching, Working, Course, Syncing
  <1>2. CASE Refuse
    BY <1>1, <1>2, IdleType DEF Refuse, Working
  <1>3. ASSUME NEW p, command' = [command EXCEPT !.plan = p] PROVE ~Working'
    BY <1>1, <1>3 DEF CommandTypes, Working
  <1>4. CASE command' = command
    BY <1>1, <1>4 DEF Working
  <1>5. CASE Visit
    <2>1. PICK d \in Top.demands : VisitFails(d) \/ VisitAgain(d) \/ VisitNew(d)
      BY <1>5 DEF Visit
    <2>2. stack # <<>>
      BY <1>5 DEF Visit
    <2> QED
      BY <1>1, <1>2, <1>3, <2>1, <2>2, AgainIs, NewIs DEF VisitFails
  <1> QED
    BY <1>1, <1>2, <1>4, <1>5 DEF Return, FetchFails

LEMMA ResolveStore ==
    ASSUME RegistryTypes, StoreInv, Visit \/ Return \/ FetchFails
    PROVE  StoreInv'
  <1>1. ~Working /\ ~Working' /\ command.kind # "none"
    BY ResolvingStops
  <1>2. ~last.ok /\ last' = last /\ UNCHANGED <<project, torn>>
    BY <1>1 DEF RegistryTypes, Course, Visit, VisitFails, VisitAgain, VisitNew, Return, FetchFails, Refuse
  <1> QED
    BY <1>1, <1>2, ApartStore DEF Done

LEMMA RunIs ==
    ASSUME NEW kind, NEW name, NEW ref, NEW p, Run(kind, name, ref, p)
    PROVE  /\ command = Idle /\ ~last'.ok
           /\ command'.kind = kind /\ ~command'.fetched
  BY DEF Run

LEMMA StartsRun ==
    ASSUME Starts
    PROVE  /\ command = Idle /\ ~last'.ok /\ UNCHANGED <<project, torn>>
           /\ ~command'.fetched
           /\ command'.kind = "remove" => \E r \in Names : RegistryRemove(r)
  <1>1. ASSUME NEW kind \in {"add", "update", "hold"}, NEW name, NEW ref, NEW roots, Sync(kind, name, ref, roots)
        PROVE  /\ command = Idle /\ ~last'.ok /\ UNCHANGED <<project, torn>>
               /\ ~command'.fetched /\ command'.kind # "remove"
    BY <1>1, RunIs DEF Sync
  <1>2. CASE RegistryInstall
    <2>1. Run("install", "", Latest, lock) /\ UNCHANGED <<project, torn>>
      BY <1>2 DEF RegistryInstall
    <2>2. command = Idle /\ ~last'.ok /\ command'.kind = "install" /\ ~command'.fetched
      BY <2>1, RunIs
    <2> QED
      BY <2>1, <2>2
  <1>3. ASSUME NEW r \in Names, RegistryRemove(r)
        PROVE  command = Idle /\ ~last'.ok /\ UNCHANGED <<project, torn>> /\ ~command'.fetched
    BY <1>3, RunIs DEF RegistryRemove
  <1> QED
    BY <1>1, <1>2, <1>3 DEF Starts, RegistryAdd, RegistryUpdate, UpdateOne

LEMMA StartStore == ASSUME RegistryTypes, StoreInv, Starts PROVE StoreInv'
  <1> USE DEF RegistryTypes
  <1>1. command = Idle /\ ~Working /\ UNCHANGED <<project, torn>> /\ ~last'.ok
    BY StartsRun, IdleType DEF Working
  <1>2. ~Done'
    BY <1>1 DEF Done
  <1>3. CASE ~Working'
    BY <1>1, <1>2, <1>3, ApartStore
  <1>4. ASSUME NEW r \in Names, RegistryRemove(r) PROVE StoreInv'
    <2> DEFINE p == Remaining(r)
    <2>1. /\ command' = [kind |-> "remove", name |-> r, ref |-> Latest, plan |-> p, fetched |-> FALSE]
          /\ last' = [kind |-> "remove", ok |-> FALSE, whole |-> Whole]
          /\ todo' = [Nothing EXCEPT !.sweep = DOMAIN lock \ DOMAIN p, !.save = TRUE, !.declare = TRUE]
          /\ lock' = lock /\ disk' = disk /\ torn' = torn
      BY <1>4 DEF RegistryRemove, Run, project, store
    <2>2. DOMAIN p \subseteq DOMAIN lock /\ \A m \in DOMAIN p : p[m].version = lock[m].version
      BY RemainingIs
    <2>3. DOMAIN lock \subseteq Names
      BY LockIs
    <2> HIDE DEF p
    <2>4. /\ command'.plan = p /\ command'.kind = "remove" /\ last'.whole = Whole
          /\ todo'.sweep = DOMAIN lock \ DOMAIN p /\ todo'.prune = {} /\ todo'.write = {} /\ todo'.save
      BY <2>1 DEF Nothing
    <2>5. \A m \in DOMAIN p : Recorded(p, m) = Recorded(lock, m)
      BY <2>2 DEF Recorded
    <2>6. Known'
      BY <1>1, <2>1 DEF StoreInv, Known, Left, Recorded
    <2>7. Lacks'
      BY <2>1, <2>2, <2>3, <2>4, <2>5 DEF Lacks, Whole, Right, Resolved
    <2>8. Surplus'
      <3> SUFFICES ASSUME NEW n \in Names, NEW f \in DOMAIN disk[n]
                   PROVE  f \in DOMAIN Recorded(p, n) \/ Left(n, f) \/ n \in DOMAIN lock \ DOMAIN p
        BY <2>1, <2>4 DEF Surplus, Left
      <3>1. f \in DOMAIN Recorded(lock, n) \/ Left(n, f)
        BY <1>1 DEF StoreInv, Known
      <3>2. n \notin DOMAIN lock => DOMAIN Recorded(lock, n) = {}
        BY EmptyIs DEF Recorded
      <3> QED
        BY <2>5, <3>1, <3>2
    <2>9. Disjoint' /\ Saved'
      BY <2>4 DEF Disjoint, Saved, Resolved
    <2> QED
      BY <1>2, <2>6, <2>7, <2>8, <2>9 DEF StoreInv, Works, SuccessIsWhole
  <1>5. (\A r \in Names : ~RegistryRemove(r)) => ~Working'
    BY StartsRun DEF Working
  <1> QED
    BY <1>3, <1>4, <1>5

LEMMA FetchStore == ASSUME RegistryTypes, LockInv, StoreInv, Fetch PROVE StoreInv'
  <1> USE DEF RegistryTypes
  <1>1. ~Working /\ command.kind # "none" /\ command.kind # "remove"
    BY DEF Fetch, Fetching, Working
  <1>2. /\ command'.plan = command.plan /\ command'.kind = command.kind
        /\ UNCHANGED <<lock, disk, last, torn>> /\ todo' = Materialize
    BY DEF Fetch, CommandTypes, project, store
  <1>3. lock \in Closures /\ command.plan \in Closures /\ DOMAIN command.plan \subseteq Names
    BY ClosureIs DEF ProjectTypes, CommandTypes
  <1>4. Known'
    BY <1>1, <1>2 DEF StoreInv, Known, Left, Recorded
  <1>5. Lacks'
    <2> SUFFICES ASSUME NEW n \in Resolved, NEW f \in DOMAIN Recorded(command.plan, n),
                        <<n, f>> \notin Materialize.write
                 PROVE  Right(n, f)
      BY <1>2 DEF Lacks, Right, Resolved, Recorded
    <2>1. Reused(n, f)
      BY MaterializeIs
    <2> QED
      BY <2>1 DEF Reused, Right, Recorded, Resolved
  <1>6. Surplus'
    <2> SUFFICES ASSUME NEW n \in Names, NEW f \in DOMAIN disk[n]
                 PROVE  \/ f \in DOMAIN Recorded(command.plan, n) \/ Left(n, f)
                        \/ <<n, f>> \in Materialize.prune \/ n \in Materialize.sweep
      BY <1>2 DEF Surplus, Left, Recorded
    <2>1. f \in DOMAIN Recorded(lock, n) \/ Left(n, f)
      BY <1>1 DEF StoreInv, Known
    <2>2. n \notin DOMAIN lock => DOMAIN Recorded(lock, n) = {}
      BY <1>3, RecordedIs
    <2> QED
      BY <2>1, <2>2, MaterializeIs
  <1>7. Disjoint'
    BY <1>2, <1>3, MaterializeIs DEF Disjoint, Resolved, Recorded
  <1>8. Saved'
    <2>1. Syncing \/ command.kind = "install"
      BY <1>1 DEF CommandTypes, Kinds, Syncing
    <2> QED
      BY <1>2, <2>1, MaterializeIs DEF Saved
  <1>9. ~Done'
    BY <1>1, <1>2 DEF Done, Course
  <1> QED
    BY <1>4, <1>5, <1>6, <1>7, <1>8, <1>9 DEF StoreInv, Works, SuccessIsWhole

LEMMA WorkingIs ==
    ASSUME RegistryTypes, Working
    PROVE  command.kind # "none" /\ command # Idle /\ ~last.ok /\ last.kind = command.kind
  <1>1. command # Idle
    BY IdleType DEF Working
  <1> QED
    BY <1>1 DEF RegistryTypes, Course

\* A file changes under a command that works.
LEMMA FileStore ==
    ASSUME RegistryTypes, StoreInv, Working, NEW n \in Names, NEW files, Changing(n, files),
           \A f \in DOMAIN files : f \in DOMAIN disk[n] \cup DOMAIN Recorded(command.plan, n),
           Lacks', Surplus', Disjoint', todo'.save = todo.save
    PROVE  StoreInv'
  <1>1. /\ lock' = lock /\ command' = command /\ last' = last /\ torn' = torn
        /\ disk'[n] = files /\ \A m \in Names \ {n} : disk'[m] = disk[m]
    BY ChangingIs
  <1>2. Known'
    BY <1>1 DEF StoreInv, Known, Left, Recorded, Working
  <1>3. Saved'
    BY <1>1 DEF StoreInv, Works, Saved
  <1>4. ~Done'
    BY <1>1, WorkingIs DEF Done
  <1> QED
    BY <1>2, <1>3, <1>4 DEF StoreInv, Works, SuccessIsWhole

LEMMA SweepStore ==
    ASSUME RegistryTypes, StoreInv, Working, NEW n \in todo.sweep, SweepPackage(n) PROVE StoreInv'
  <1>1. n \in Names /\ todo \in Changes
    BY TodoIs DEF Changes
  <1>2. /\ Changing(n, Empty)
        /\ todo'.sweep = todo.sweep \ {n} /\ todo'.prune = todo.prune /\ todo'.write = todo.write
        /\ todo'.save = todo.save
    BY <1>1 DEF SweepPackage, Changes
  <1>3. /\ disk'[n] = Empty /\ \A m \in Names \ {n} : disk'[m] = disk[m]
        /\ command' = command /\ last' = last /\ torn' = torn
    BY <1>1, <1>2, ChangingIs
  <1>4. Lacks /\ Surplus /\ Disjoint /\ Resolved \subseteq Names
    BY ClosureIs DEF StoreInv, Works, RegistryTypes, CommandTypes, Resolved
  <1>5. \A m \in Resolved : m # n
    BY <1>4 DEF Disjoint
  <1>6. Lacks'
    <2> SUFFICES ASSUME command.kind # "remove" \/ last.whole,
                        NEW m \in Resolved, NEW g \in DOMAIN Recorded(command.plan, m),
                        <<m, g>> \notin todo.write
                 PROVE  g \in DOMAIN disk'[m] /\ disk'[m][g] = Recorded(command.plan, m)[g]
      BY <1>2, <1>3 DEF Lacks, Right, Resolved, Recorded
    <2> QED
      BY <1>3, <1>4, <1>5 DEF Lacks, Right
  <1>7. Surplus'
    BY <1>1, <1>2, <1>3, <1>4, EmptyIs DEF Surplus, Left, Recorded
  <1>8. Disjoint'
    BY <1>2, <1>3, <1>4 DEF Disjoint, Resolved, Recorded
  <1> QED
    BY <1>1, <1>2, <1>6, <1>7, <1>8, EmptyIs, FileStore

LEMMA RemoveStore ==
    ASSUME RegistryTypes, StoreInv, Working, NEW n, NEW f, RemoveTreeFile(n, f) PROVE StoreInv'
  <1> DEFINE files == Without(disk[n], {f})
  <1>1. n \in Names /\ todo \in Changes /\ <<n, f>> \in todo.prune
    BY TodoIs DEF Changes, RemoveTreeFile
  <1>2. /\ Changing(n, files)
        /\ todo'.sweep = todo.sweep /\ todo'.prune = todo.prune \ {<<n, f>>} /\ todo'.write = todo.write
        /\ todo'.save = todo.save
    BY <1>1 DEF RemoveTreeFile, Changes
  <1>3. DOMAIN files = DOMAIN disk[n] \ {f} /\ \A g \in DOMAIN files : files[g] = disk[n][g]
    BY DEF Without
  <1> HIDE DEF files
  <1>4. /\ disk'[n] = files /\ \A m \in Names \ {n} : disk'[m] = disk[m]
        /\ command' = command /\ last' = last /\ torn' = torn
    BY <1>1, <1>2, ChangingIs
  <1>5. Lacks /\ Surplus /\ Disjoint /\ Resolved \subseteq Names
    BY ClosureIs DEF StoreInv, Works, RegistryTypes, CommandTypes, Resolved
  <1>6. f \notin DOMAIN Recorded(command.plan, n)
    BY <1>1, <1>5 DEF Disjoint
  <1>7. Lacks'
    <2> SUFFICES ASSUME command.kind # "remove" \/ last.whole,
                        NEW m \in Resolved, NEW g \in DOMAIN Recorded(command.plan, m),
                        <<m, g>> \notin todo.write
                 PROVE  g \in DOMAIN disk'[m] /\ disk'[m][g] = Recorded(command.plan, m)[g]
      BY <1>2, <1>4 DEF Lacks, Right, Resolved, Recorded
    <2>1. g \in DOMAIN disk[m] /\ disk[m][g] = Recorded(command.plan, m)[g]
      BY <1>5 DEF Lacks, Right
    <2> QED
      BY <1>3, <1>4, <1>5, <1>6, <2>1
  <1>8. Surplus'
    <2> SUFFICES ASSUME NEW m \in Names, NEW g \in DOMAIN disk'[m]
                 PROVE  \/ g \in DOMAIN Recorded(command.plan, m) \/ Left(m, g)
                        \/ <<m, g>> \in todo'.prune \/ m \in todo.sweep
      BY <1>2, <1>4 DEF Surplus, Left, Recorded
    <2>1. g \in DOMAIN disk[m] /\ <<m, g>> # <<n, f>>
      BY <1>3, <1>4
    <2> QED
      BY <1>2, <1>5, <2>1 DEF Surplus
  <1>9. Disjoint'
    BY <1>2, <1>4, <1>5 DEF Disjoint, Resolved, Recorded
  <1> QED
    BY <1>1, <1>2, <1>3, <1>7, <1>8, <1>9, FileStore

LEMMA WriteStore ==
    ASSUME RegistryTypes, StoreInv, Working, NEW n, NEW f, WriteTreeFile(n, f) PROVE StoreInv'
  <1> DEFINE body == Files(n, command.plan[n].version)[f]
             files == With(disk[n], f, body)
  <1>1. n \in Names /\ todo \in Changes /\ <<n, f>> \in todo.write
    BY TodoIs DEF Changes, WriteTreeFile, Writable
  <1>2. /\ Changing(n, files)
        /\ todo'.sweep = todo.sweep /\ todo'.prune = todo.prune /\ todo'.write = todo.write \ {<<n, f>>}
        /\ todo'.save = todo.save
    BY <1>1 DEF WriteTreeFile, Changes
  <1>3. /\ DOMAIN files = DOMAIN disk[n] \cup {f} /\ files[f] = body
        /\ \A g \in DOMAIN disk[n] \ {f} : files[g] = disk[n][g]
    BY DEF With
  <1>4. Lacks /\ Surplus /\ Disjoint /\ command.plan \in Closures /\ Resolved \subseteq Names
    BY ClosureIs DEF StoreInv, Works, RegistryTypes, CommandTypes, Resolved
  <1>5. f \in DOMAIN Recorded(command.plan, n) /\ body = Recorded(command.plan, n)[f]
    <2>1. f \in DOMAIN Recorded(command.plan, n)
      BY <1>1, <1>4 DEF Disjoint
    <2>2. n \in DOMAIN command.plan
      BY <1>4, <2>1, RecordedIs
    <2> QED
      BY <2>1, <2>2 DEF Recorded
  <1> HIDE DEF files, body
  <1>6. /\ disk'[n] = files /\ \A m \in Names \ {n} : disk'[m] = disk[m]
        /\ command' = command /\ last' = last /\ torn' = torn
    BY <1>1, <1>2, ChangingIs
  <1>7. Lacks'
    <2> SUFFICES ASSUME command.kind # "remove" \/ last.whole,
                        NEW m \in Resolved, NEW g \in DOMAIN Recorded(command.plan, m),
                        <<m, g>> \notin todo'.write
                 PROVE  g \in DOMAIN disk'[m] /\ disk'[m][g] = Recorded(command.plan, m)[g]
      BY <1>2, <1>6 DEF Lacks, Right, Resolved, Recorded
    <2>1. CASE m = n /\ g = f
      BY <1>3, <1>5, <1>6, <2>1
    <2>2. CASE ~(m = n /\ g = f)
      <3>1. <<m, g>> # <<n, f>>
        BY <2>2
      <3>2. g \in DOMAIN disk[m] /\ disk[m][g] = Recorded(command.plan, m)[g]
        BY <1>2, <1>4, <3>1 DEF Lacks, Right
      <3> QED
        BY <1>3, <1>4, <1>6, <2>2, <3>2
    <2> QED
      BY <2>1, <2>2
  <1>8. Surplus'
    <2> SUFFICES ASSUME NEW m \in Names, NEW g \in DOMAIN disk'[m]
                 PROVE  \/ g \in DOMAIN Recorded(command.plan, m) \/ Left(m, g)
                        \/ <<m, g>> \in todo.prune \/ m \in todo.sweep
      BY <1>2, <1>6 DEF Surplus, Left, Recorded
    <2>1. g \in DOMAIN disk[m] \/ (m = n /\ g = f)
      BY <1>3, <1>6
    <2> QED
      BY <1>4, <1>5, <2>1 DEF Surplus
  <1>9. Disjoint'
    BY <1>2, <1>4, <1>6 DEF Disjoint, Resolved, Recorded
  <1> QED
    BY <1>1, <1>2, <1>3, <1>5, <1>7, <1>8, <1>9, FileStore

LEMMA RestStore == ASSUME RegistryTypes, StoreInv, Working, SaveLockfile \/ Declare PROVE StoreInv'
  <1>1. todo \in Changes /\ Lacks /\ Surplus /\ Disjoint /\ Saved
    BY TodoIs DEF StoreInv, Works
  <1>2. /\ UNCHANGED <<disk, command, last, torn>>
        /\ todo.sweep = {} /\ todo.prune = {} /\ todo.write = {}
        /\ todo'.sweep = {} /\ todo'.prune = {} /\ todo'.write = {} /\ ~todo'.save
    BY <1>1 DEF SaveLockfile, Declare, Swept, Changes, store
  <1>3. lock' = command.plan \/ (lock' = lock /\ ~todo.save)
    BY DEF SaveLockfile, Declare
  <1>4. Lacks' /\ Surplus' /\ Disjoint'
    BY <1>1, <1>2 DEF Lacks, Surplus, Disjoint, Right, Left, Resolved, Recorded
  <1>5. Saved'
    BY <1>1, <1>2, <1>3 DEF Saved
  <1>6. Known'
    <2> SUFFICES ASSUME NEW n \in Names, NEW f \in DOMAIN disk[n]
                 PROVE  f \in DOMAIN Recorded(command.plan, n) \/ Left(n, f)
      BY <1>2 DEF Known, Left, Recorded, Working
    <2> QED
      BY <1>1, <1>2 DEF Surplus
  <1>7. ~Done'
    BY <1>2, WorkingIs DEF Done
  <1> QED
    BY <1>4, <1>5, <1>6, <1>7 DEF StoreInv, Works, SuccessIsWhole

LEMMA StepStore == ASSUME RegistryTypes, StoreInv, Step PROVE StoreInv'
  <1>1. Working
    BY StepWorks
  <1> QED
    BY <1>1, SweepStore, RemoveStore, WriteStore, RestStore DEF Step

LEMMA FinishStore == ASSUME RegistryTypes, LockInv, StoreInv, Finish PROVE StoreInv'
  <1>1. /\ Working /\ todo = Nothing /\ command' = Idle /\ UNCHANGED <<lock, disk>>
        /\ torn' = IF torn \subseteq {lock} THEN {} ELSE torn
        /\ last' = [last EXCEPT !.ok = TRUE]
    BY DEF Finish, project, store
  <1>2. Lacks /\ Surplus /\ Saved
    BY <1>1 DEF StoreInv, Works
  <1>3. todo.sweep = {} /\ todo.prune = {} /\ todo.write = {} /\ ~todo.save
    BY <1>1 DEF Nothing
  <1>4. lock = command.plan
    BY <1>2, <1>3 DEF Saved, LockInv, PlanFollows
  <1>5. last'.kind = command.kind /\ last'.whole = last.whole
    BY <1>1, WorkingIs DEF RegistryTypes, CommandTypes
  <1>6. ~Working'
    BY <1>1, IdleType DEF Working
  <1>7. Known'
    <2> SUFFICES ASSUME NEW n \in Names, NEW f \in DOMAIN disk[n], f \notin DOMAIN Recorded(lock, n)
                 PROVE  \E p \in torn' : f \in DOMAIN Recorded(p, n)
      BY <1>1 DEF Known, Left, Recorded
    <2>1. PICK p \in torn : f \in DOMAIN Recorded(p, n)
      BY <1>2, <1>3, <1>4 DEF Surplus, Left
    <2> QED
      BY <1>1, <2>1
  <1>8. SuccessIsWhole'
    <2> SUFFICES ASSUME command.kind # "remove" \/ last.whole,
                        NEW n \in Names, NEW f \in DOMAIN Recorded(lock, n)
                 PROVE  f \in DOMAIN disk[n] /\ disk[n][f] = Recorded(lock, n)[f]
      BY <1>1, <1>5 DEF SuccessIsWhole, Whole, Recorded
    <2>1. n \in DOMAIN lock
      BY RecordedIs DEF RegistryTypes, ProjectTypes
    <2> QED
      BY <1>2, <1>3, <1>4, <2>1 DEF Lacks, Right, Resolved
  <1> QED
    BY <1>6, <1>7, <1>8 DEF StoreInv, Works

LEMMA InterruptStore == ASSUME RegistryTypes, LockInv, StoreInv, Interrupt PROVE StoreInv'
  <1>1. /\ todo # Nothing /\ command' = Idle /\ last' = last /\ lock' = lock
        /\ torn' = IF Unsaved THEN torn \cup {command.plan} ELSE torn
    BY DEF Interrupt
  <1>2. Working /\ command.kind # "none" /\ ~last.ok
    BY <1>1, TodoIs, WorkingIs
  <1>3. ~Working' /\ ~Done'
    BY <1>1, <1>2, IdleType DEF Working, Done
  <1>4. \A n \in Names : DOMAIN disk'[n] \subseteq DOMAIN disk[n]
    <2>1. CASE disk' = disk
      BY <2>1
    <2>2. ASSUME NEW n \in First(todo.sweep), NEW gone, disk' = [disk EXCEPT ![n] = Without(@, gone)]
          PROVE  \A m \in Names : DOMAIN disk'[m] \subseteq DOMAIN disk[m]
      <3> DEFINE rest == Without(disk[n], gone)
      <3>1. DOMAIN rest \subseteq DOMAIN disk[n]
        BY DEF Without
      <3>2. \A m \in Names : disk'[m] = IF m = n THEN rest ELSE disk[m]
        BY <2>2 DEF RegistryTypes, ProjectTypes
      <3> QED
        BY <3>1, <3>2
    <2> QED
      BY <2>1, <2>2 DEF Interrupt, HalfSwept, HalfWritten, store
  <1>5. \A n \in Names : \A f \in DOMAIN Recorded(command.plan, n) :
           f \in DOMAIN Recorded(lock, n) \/ command.plan \in torn'
    <2> SUFFICES ASSUME ~Unsaved, NEW n \in Names, NEW f \in DOMAIN Recorded(command.plan, n)
                 PROVE  f \in DOMAIN Recorded(lock, n)
      BY <1>1
    <2>1. CASE command.kind = "remove"
      <3>1. n \in Resolved
        BY RecordedIs DEF RegistryTypes, CommandTypes, Resolved
      <3>2. n \in DOMAIN lock /\ command.plan[n].version = lock[n].version
        BY <2>1, <3>1 DEF LockInv, PlanFollows
      <3> QED
        BY <3>1, <3>2 DEF Recorded, Resolved
    <2>2. CASE command.kind # "remove"
      <3>1. command.kind = "install" \/ Syncing
        BY <1>2, <2>2 DEF RegistryTypes, CommandTypes, Kinds, Syncing
      <3>2. lock = command.plan
        BY <1>2, <3>1 DEF StoreInv, Works, Saved, LockInv, PlanFollows, Unsaved
      <3> QED
        BY <3>2
    <2> QED
      BY <2>1, <2>2
  <1>6. Known'
    <2> SUFFICES ASSUME NEW n \in Names, NEW f \in DOMAIN disk'[n]
                 PROVE  f \in DOMAIN Recorded(lock, n) \/ \E p \in torn' : f \in DOMAIN Recorded(p, n)
      BY <1>1 DEF Known, Left, Recorded
    <2>1. f \in DOMAIN Recorded(lock, n) \/ Left(n, f) \/ f \in DOMAIN Recorded(command.plan, n)
      BY <1>4 DEF StoreInv, Known
    <2> QED
      BY <1>1, <1>5, <2>1 DEF Left
  <1> QED
    BY <1>3, <1>6 DEF StoreInv, Works, SuccessIsWhole

LEMMA AroundStore == ASSUME RegistryTypes, StoreInv, (\E n \in Names : \E tags \in Moved(n) : Publish(n, tags)) \/ Tamper PROVE StoreInv'
  <1>1. ASSUME NEW n \in Names, NEW tags, Publish(n, tags) PROVE StoreInv'
    BY <1>1 DEF Publish, project, store, StoreInv, Known, Works, Lacks, Surplus, Disjoint, Saved, SuccessIsWhole,
                Whole, Done, Working, Resolved, Left, Right, Recorded
  <1>2. CASE Tamper
    <2>1. /\ command = Idle /\ command' = command /\ lock' = lock /\ torn' = torn /\ ~last'.ok
      BY <1>2 DEF Tamper, RegistryTypes, CommandTypes
    <2>2. ~Working /\ ~Working' /\ ~Done'
      BY <2>1, IdleType DEF Working, Done
    <2>3. \A n \in Names : DOMAIN disk'[n] \subseteq DOMAIN disk[n]
      <3>1. CASE disk' = [n \in Names |-> Empty]
        BY <3>1, EmptyIs
      <3>2. ASSUME NEW m \in Names, NEW f \in DOMAIN disk[m], disk' = [disk EXCEPT ![m][f] = 0]
            PROVE  \A n \in Names : DOMAIN disk'[n] \subseteq DOMAIN disk[n]
        BY <3>2 DEF RegistryTypes, ProjectTypes
      <3> QED
        BY <1>2, <3>1, <3>2 DEF Tamper
    <2>4. Known'
      BY <2>1, <2>2, <2>3 DEF StoreInv, Known, Left, Recorded
    <2> QED
      BY <2>2, <2>4 DEF StoreInv, Works, SuccessIsWhole
  <1> QED
    BY <1>1, <1>2

LEMMA NextStore ==
    ASSUME RegistryTypes, LockInv, StoreInv, [RegistryNext]_registryVars PROVE StoreInv'
  <1>1. CASE UNCHANGED registryVars
    BY <1>1 DEF registryVars, external, project, store, StoreInv, Known, Works, Lacks, Surplus, Disjoint, Saved, SuccessIsWhole,
                Whole, Done, Working, Resolved, Left, Right, Recorded
  <1> QED
    BY <1>1, StartStore, ResolveStore, FetchStore, StepStore, FinishStore, InterruptStore, AroundStore
       DEF RegistryNext, Starts

\* The temporary file of a killed write lies in a package that the lock or an
\* interrupted command knows, and that a command which works keeps or sweeps.
Remembered(n) == \E p \in torn : n \in DOMAIN p

ResidueInv == \A n \in residue :
    /\ n \in DOMAIN lock \/ Remembered(n)
    /\ Working => n \in Resolved \/ n \in todo.sweep \/ Remembered(n)

LEMMA StepResidue == ASSUME RegistryTypes, ResidueInv, Step PROVE ResidueInv'
  <1>1. Working /\ todo \in Changes
    BY StepWorks, TodoIs
  <1>2. ASSUME NEW n \in todo.sweep, SweepPackage(n) PROVE ResidueInv'
    BY <1>1, <1>2 DEF SweepPackage, Changing, Changes, ResidueInv, Remembered, Working, Resolved
  <1>3. ASSUME NEW n, NEW f, RemoveTreeFile(n, f) \/ WriteTreeFile(n, f) PROVE ResidueInv'
    BY <1>1, <1>3 DEF RemoveTreeFile, WriteTreeFile, Changing, Changes, ResidueInv, Remembered, Working, Resolved
  <1>4. CASE SaveLockfile \/ Declare
    BY <1>1, <1>4 DEF SaveLockfile, Declare, Swept, Changes, store, ResidueInv, Remembered, Working, Resolved
  <1> QED
    BY <1>2, <1>3, <1>4 DEF Step

LEMMA FinishResidue == ASSUME RegistryTypes, LockInv, StoreInv, ResidueInv, Finish PROVE ResidueInv'
  <1>1. Working /\ todo = Nothing /\ todo.sweep = {} /\ ~todo.save /\ ~Working'
    BY IdleType DEF Finish, Nothing, Working
  <1>2. lock = command.plan
    BY <1>1 DEF StoreInv, Works, Saved, LockInv, PlanFollows
  <1>3. UNCHANGED <<lock, residue>> /\ torn' = IF torn \subseteq {lock} THEN {} ELSE torn
    BY DEF Finish, project, store
  <1> QED
    BY <1>1, <1>2, <1>3 DEF ResidueInv, Remembered, Resolved

LEMMA InterruptResidue == ASSUME RegistryTypes, LockInv, StoreInv, ResidueInv, Interrupt PROVE ResidueInv'
  <1>1. /\ lock' = lock /\ torn' = (IF Unsaved THEN torn \cup {command.plan} ELSE torn)
        /\ Working /\ ~Working' /\ command.kind # "none"
    BY IdleType, TodoIs, WorkingIs DEF Interrupt, Working
  <1>2. \A n \in residue' \ residue : n \in Resolved
    <2> SUFFICES ASSUME NEW p \in Writable PROVE p[1] \in Resolved
      BY DEF Interrupt, HalfSwept, HalfWritten, store
    <2>1. p \in todo.write /\ p = <<p[1], p[2]>>
      BY TodoIs DEF Writable, Changes
    <2>2. p[2] \in DOMAIN Recorded(command.plan, p[1])
      BY <1>1, <2>1 DEF StoreInv, Works, Disjoint
    <2> QED
      BY <2>2, RecordedIs DEF RegistryTypes, CommandTypes, Resolved
  <1>3. command.plan \in torn' \/ Resolved \subseteq DOMAIN lock
    <2>1. CASE command.kind = "remove"
      BY <2>1 DEF LockInv, PlanFollows, Resolved
    <2>2. CASE command.kind # "remove"
      BY <1>1, <2>2 DEF RegistryTypes, CommandTypes, Kinds, Syncing, StoreInv, Works, Saved, LockInv, PlanFollows,
                        Unsaved, Resolved
    <2> QED
      BY <2>1, <2>2
  <1> QED
    BY <1>1, <1>2, <1>3 DEF ResidueInv, Remembered, Resolved

LEMMA NextResidue ==
    ASSUME RegistryTypes, LockInv, StoreInv, ResidueInv, [RegistryNext]_registryVars PROVE ResidueInv'
  <1>1. CASE Starts
    <2>1. UNCHANGED <<lock, residue, torn>> /\ ~command'.fetched
      BY <1>1, StartsRun DEF project, store
    <2>2. ASSUME NEW r \in Names, RegistryRemove(r) PROVE ResidueInv'
      <3>1. command'.plan = Remaining(r) /\ todo'.sweep = DOMAIN lock \ DOMAIN Remaining(r)
        BY <2>2 DEF RegistryRemove, Run, Nothing
      <3> QED
        BY <2>1, <3>1 DEF ResidueInv, Remembered, Resolved
    <2> QED
      BY <1>1, <2>1, <2>2, StartsRun DEF ResidueInv, Remembered, Working
  <1>2. CASE Visit \/ Return \/ FetchFails
    <2>1. UNCHANGED <<lock, residue, torn>>
      BY <1>2 DEF Visit, VisitFails, VisitAgain, VisitNew, Return, FetchFails, Refuse, project, store
    <2>2. ~Working'
      BY <1>2, ResolvingStops
    <2> QED
      BY <2>1, <2>2 DEF ResidueInv, Remembered
  <1>3. CASE Fetch
    <2>1. /\ command'.plan = command.plan /\ todo' = Materialize
          /\ UNCHANGED <<lock, residue, torn>>
      BY <1>3 DEF Fetch, RegistryTypes, CommandTypes, project, store
    <2> QED
      BY <2>1, MaterializeIs DEF ResidueInv, Remembered, Resolved
  <1>4. CASE (\E n \in Names : \E tags \in Moved(n) : Publish(n, tags)) \/ Tamper
    <2>1. /\ UNCHANGED <<lock, torn, command, todo>> /\ residue' \subseteq residue
      BY <1>4 DEF Publish, Tamper, project, store
    <2> QED
      BY <2>1 DEF ResidueInv, Remembered, Working, Resolved
  <1>5. CASE UNCHANGED registryVars
    BY <1>5 DEF registryVars, project, store, ResidueInv, Remembered, Working, Resolved
  <1> QED
    BY <1>1, <1>2, <1>3, <1>4, <1>5, StepResidue, FinishResidue, InterruptResidue DEF RegistryNext, Starts

LEMMA InitResidue == RegistryInit => ResidueInv
  BY DEF RegistryInit, ResidueInv

LEMMA StoreFollows == ASSUME StoreInv, ResidueInv PROVE StoreFollowsLock
  <1>1. RerunIsClean
    BY IdleType DEF RerunIsClean, StoreInv, Known, Left, Working, Done, ResidueInv, Remembered
  <1> QED
    BY <1>1 DEF StoreFollowsLock, StoreInv

\* Behind a command that reports success the store is what the lock says: every
\* recorded file is there, whatever was interrupted or edited before it, and
\* once an interrupted command has been run again no other file is left but the
\* temporary files of killed writes, in packages that the lock still records.
THEOREM PackagesStoreFollowsLock == RegistrySpec => []StoreFollowsLock
  <1>1. RegistrySpec => [](RegistryTypes /\ LockInv /\ StoreInv /\ ResidueInv)
    BY InitTypes, NextTypes, InitLock, NextLock, InitStore, NextStore, InitResidue, NextResidue, PTL DEF RegistrySpec
  <1>2. StoreInv /\ ResidueInv => StoreFollowsLock
    BY StoreFollows
  <1> QED
    BY <1>1, <1>2, PTL

-----------------------------------------------------------------------------
(* install accepts what add and update leave.                               *)

\* A package of the closure needs n at ref.
Needed(p, n, ref) == \E m \in DOMAIN p : \E d \in Needs(m, p[m].version) : d.name = n /\ d.ref = ref

TagOf(ref) == IF IsPin(ref) THEN Untagged ELSE ref

Rooting == command.kind \in {"add", "update"}

\* What the command was asked for: the declarations, with the new one.
Roots == IF command.kind = "add" THEN With(declared, command.name, command.ref) ELSE declared

Root(n) == [name |-> n, ref |-> Roots[n]]

\* The first frame holds roots, the others dependencies.
Origins ==
    \A i \in DOMAIN stack : \A d \in stack[i].demands :
        IF stack[i].direct THEN d.name \in DOMAIN Roots /\ d = Root(d.name)
        ELSE Needed(command.plan, d.name, d.ref)

\* What checkLockDrift asks of the entry of a declared package, but for its tag
\* where another package needs it at another ref.
Agrees(n, ref, p) ==
    /\ p[n].direct
    /\ IF IsPin(ref) THEN p[n].version = ref
       ELSE p[n].tag = ref \/ \E other : other # ref /\ Needed(p, n, other)

\* A root is resolved as a root, or waits for its visit.
Rooted ==
    \A n \in DOMAIN Roots :
        \/ n \in Resolved /\ Agrees(n, Roots[n], command.plan)
        \/ \E i \in DOMAIN stack : stack[i].direct /\ Root(n) \in stack[i].demands

\* Nothing else is direct, and the tag of a package is that of a demand for it.
Grounded ==
    \A n \in Resolved :
        /\ command.plan[n].direct => n \in DOMAIN Roots
        /\ \E ref : /\ command.plan[n].tag = TagOf(ref)
                    /\ Needed(command.plan, n, ref) \/ (n \in DOMAIN Roots /\ ref = Roots[n])

Declared ==
    /\ todo.declare => command.kind = "add"
    /\ Working => todo.declare \/ declared = Roots

Asked == Rooting => Origins /\ Rooted /\ Grounded /\ Declared

\* The lock agrees with the declarations but for the tags of packages that are
\* needed at two refs.
Settled ==
    Done /\ last.kind \in {"add", "update"} =>
        /\ \A n \in DOMAIN declared : n \in DOMAIN lock /\ Agrees(n, declared[n], lock)
        /\ \A n \in DOMAIN lock : lock[n].direct => n \in DOMAIN declared

AcceptInv == Asked /\ Settled

LEMMA InitAccept == RegistryInit => AcceptInv
  <1> SUFFICES ASSUME RegistryInit PROVE AcceptInv
    OBVIOUS
  <1>1. ~Rooting /\ ~Done
    BY IdleType DEF RegistryInit, Rooting, Done
  <1> QED
    BY <1>1 DEF AcceptInv, Asked, Settled

LEMMA WithTwice ==
    ASSUME NEW f, NEW x, NEW y PROVE With(With(f, x, y), x, y) = With(f, x, y)
  BY DEF With

LEMMA IdleAccept ==
    ASSUME AcceptInv, command' = Idle, UNCHANGED <<declared, lock>>,
           last' = last \/ ~last'.ok, Done' => Done
    PROVE  AcceptInv'
  BY IdleType DEF AcceptInv, Asked, Rooting, Settled, Agrees, Done

LEMMA RefuseAccept == ASSUME RegistryTypes, AcceptInv, command.kind # "none", Refuse PROVE AcceptInv'
  <1>1. ~last.ok
    BY DEF RegistryTypes, Course
  <1> QED
    BY <1>1, IdleAccept DEF Refuse, project, store, Done

LEMMA SyncAccept ==
    ASSUME RegistryTypes, NEW kind \in {"add", "update"}, NEW name, NEW ref, NEW roots,
           Sync(kind, name, ref, roots),
           roots = IF kind = "add" THEN With(declared, name, ref) ELSE declared
    PROVE  AcceptInv'
  <1> DEFINE f == [above |-> {}, direct |-> TRUE,
                   demands |-> {[name |-> n, ref |-> roots[n]] : n \in DOMAIN roots}]
  <1>1. /\ command'.kind = kind /\ command'.name = name /\ command'.ref = ref /\ command'.plan = Empty
        /\ ~command'.fetched /\ ~last'.ok /\ declared' = declared /\ stack' = <<f>> /\ todo' = todo
    BY DEF Sync, Run, project, store
  <1>2. Roots' = roots /\ Resolved' = {}
    BY <1>1, EmptyIs DEF Roots, Resolved
  <1>3. \A n : Root(n)' = [name |-> n, ref |-> roots[n]]
    BY <1>2 DEF Root
  <1>4. DOMAIN <<f>> = {1} /\ <<f>>[1] = f
    OBVIOUS
  <1>5. f.direct /\ \A d : d \in f.demands <=> \E n \in DOMAIN roots : d = [name |-> n, ref |-> roots[n]]
    OBVIOUS
  <1> HIDE DEF f
  <1>6. Origins'
    BY <1>1, <1>2, <1>3, <1>4, <1>5 DEF Origins
  <1>7. Rooted'
    BY <1>1, <1>2, <1>3, <1>4, <1>5 DEF Rooted
  <1>8. Grounded' /\ Declared' /\ ~Done'
    <2>1. ~todo.declare
      <3>1. command = Idle
        BY DEF Sync, Run
      <3>2. ~Working
        BY <3>1, IdleType DEF Working
      <3>3. todo = Nothing
        BY <3>2 DEF RegistryTypes, Course
      <3> QED
        BY <3>3 DEF Nothing
    <2> QED
      BY <1>1, <1>2, <2>1 DEF Grounded, Declared, Working, Done
  <1> QED
    BY <1>6, <1>7, <1>8 DEF AcceptInv, Asked, Settled

LEMMA StartAccept == ASSUME RegistryTypes, AcceptInv, Starts PROVE AcceptInv'
  <1>1. ASSUME NEW n \in Names, NEW ref \in Tags \cup {published[n]}, RegistryAdd(n, ref) PROVE AcceptInv'
    BY <1>1, SyncAccept DEF RegistryAdd
  <1>2. CASE RegistryUpdate
    BY <1>2, SyncAccept DEF RegistryUpdate
  <1>3. ASSUME NEW kind \in {"hold", "install", "remove"}, NEW name, NEW ref, NEW p, Run(kind, name, ref, p)
        PROVE  AcceptInv'
    <2>1. ~Rooting' /\ ~Done'
      BY <1>3, RunIs DEF Rooting, Done
    <2> QED
      BY <2>1 DEF AcceptInv, Asked, Settled
  <1> QED
    BY <1>1, <1>2, <1>3 DEF Starts, UpdateOne, Sync, RegistryInstall, RegistryRemove

\* What a visit leaves unchanged.
LEMMA VisitKeeps ==
    ASSUME RegistryTypes, NEW p, command' = [command EXCEPT !.plan = p],
           UNCHANGED <<project, todo, last>>
    PROVE  /\ command'.plan = p /\ Resolved' = DOMAIN p
           /\ Rooting' = Rooting /\ Roots' = Roots /\ (\A n : Root(n)' = Root(n))
           /\ Working' = Working /\ (Declared => Declared') /\ (Settled => Settled')
  <1>1. /\ command'.plan = p /\ command'.kind = command.kind /\ command'.name = command.name
        /\ command'.ref = command.ref /\ command'.fetched = command.fetched
    BY DEF RegistryTypes, CommandTypes
  <1>2. declared' = declared /\ lock' = lock
    BY DEF project, store
  <1>3. Roots' = Roots /\ Working' = Working /\ Resolved' = DOMAIN p /\ Rooting' = Rooting
    BY <1>1, <1>2 DEF Roots, Working, Resolved, Rooting
  <1>4. \A n : Root(n)' = Root(n)
    BY <1>3 DEF Root
  <1>5. Done' => Done
    BY <1>1, IdleType DEF Done, RegistryTypes, Course
  <1> QED
    BY <1>1, <1>2, <1>3, <1>4, <1>5 DEF Declared, Settled, Agrees

LEMMA AgainAccept ==
    ASSUME RegistryTypes, AcceptInv, stack # <<>>, NEW d \in Top.demands, VisitAgain(d) PROVE AcceptInv'
  <1> DEFINE was == command.plan[d.name]
             e == AlsoDirect(was, Top.direct)
             p == [command.plan EXCEPT ![d.name] = e]
  <1>1. /\ command' = [command EXCEPT !.plan = p] /\ was \in Entries
        /\ DOMAIN p = Resolved /\ p[d.name] = e
        /\ \A n \in Resolved \ {d.name} : p[n] = command.plan[n]
    BY AgainIs
  <1>2. /\ stack \in Seq(Frames) /\ Top \in Frames /\ Top.direct \in BOOLEAN
        /\ Len(stack) \in DOMAIN stack /\ Top = stack[Len(stack)]
    BY TopIs DEF RegistryTypes, CommandTypes, Frames
  <1>3. e.version = was.version /\ e.tag = was.tag /\ e.direct = (was.direct \/ Top.direct)
    BY <1>1, <1>2, AlsoDirectType
  <1>4. /\ d.name \in Resolved /\ (IsPin(d.ref) => was.version = d.ref)
        /\ stack' = Visited(d) /\ UNCHANGED <<project, todo, last>>
    BY DEF VisitAgain, Conflicts
  <1> HIDE DEF e, p
  <1>5. /\ command'.plan = p /\ Resolved' = Resolved /\ Rooting' = Rooting /\ Roots' = Roots
        /\ (\A n : Root(n)' = Root(n)) /\ (Declared => Declared') /\ (Settled => Settled')
    BY <1>1, <1>4, VisitKeeps
  <1>12. \A n, ref : Needed(p, n, ref) <=> Needed(command.plan, n, ref)
    BY <1>1, <1>3, <1>4 DEF Needed, Resolved
  <1>6. /\ DOMAIN stack' = DOMAIN stack
        /\ \A i \in DOMAIN stack : /\ stack'[i].direct = stack[i].direct
                                   /\ stack'[i].demands \subseteq stack[i].demands
                                   /\ \A x \in stack[i].demands : x # d => x \in stack'[i].demands
                                   /\ i # Len(stack) => stack'[i] = stack[i]
    BY <1>2, <1>4, VisitedIs
  <1> SUFFICES ASSUME Rooting PROVE Origins' /\ Rooted' /\ Grounded'
    BY <1>5 DEF AcceptInv, Asked
  <1>7. Origins /\ Rooted /\ Grounded
    BY DEF AcceptInv, Asked
  <1>8. Top.direct => d.name \in DOMAIN Roots /\ d = Root(d.name) /\ d.ref = Roots[d.name]
    BY <1>2, <1>7 DEF Origins, Root
  <1>9. Origins'
    BY <1>5, <1>6, <1>7, <1>12 DEF Origins
  <1>10. Grounded'
    <2> SUFFICES ASSUME NEW n \in Resolved
                 PROVE  /\ p[n].direct => n \in DOMAIN Roots
                        /\ \E ref : /\ p[n].tag = TagOf(ref)
                                    /\ Needed(p, n, ref) \/ (n \in DOMAIN Roots /\ ref = Roots[n])
      BY <1>5 DEF Grounded
    <2>1. p[n].tag = command.plan[n].tag /\ (p[n].direct => command.plan[n].direct \/ (n = d.name /\ Top.direct))
      BY <1>1, <1>3
    <2> QED
      BY <1>7, <1>8, <1>12, <2>1 DEF Grounded
  <1>11. Rooted'
    <2> SUFFICES ASSUME NEW n \in DOMAIN Roots
                 PROVE  \/ n \in Resolved /\ Agrees(n, Roots[n], p)
                        \/ \E i \in DOMAIN stack : stack'[i].direct /\ Root(n) \in stack'[i].demands
      BY <1>5, <1>6 DEF Rooted
    <2>1. CASE n \in Resolved /\ Agrees(n, Roots[n], command.plan)
      BY <1>1, <1>3, <1>12, <2>1 DEF Agrees
    <2>2. ASSUME NEW i \in DOMAIN stack, stack[i].direct, Root(n) \in stack[i].demands,
                 n \in Resolved => ~Agrees(n, Roots[n], command.plan)
          PROVE  \/ n \in Resolved /\ Agrees(n, Roots[n], p)
                 \/ stack'[i].direct /\ Root(n) \in stack'[i].demands
      <3>1. CASE Root(n) # d
        BY <1>6, <2>2, <3>1
      <3>2. CASE Root(n) = d /\ ~Top.direct
        <4>1. i # Len(stack)
          BY <1>2, <2>2, <3>2
        <4> QED
          BY <1>6, <2>2, <4>1
      <3>3. CASE Root(n) = d /\ Top.direct
        <4>1. n = d.name /\ Roots[n] = d.ref
          BY <3>3 DEF Root
        <4> QED
          <5>1. PICK ref : /\ command.plan[n].tag = TagOf(ref)
                           /\ Needed(command.plan, n, ref) \/ (n \in DOMAIN Roots /\ ref = Roots[n])
            BY <1>4, <1>7, <4>1 DEF Grounded
          <5>2. p[n].direct /\ p[n].tag = TagOf(ref) /\ (IsPin(Roots[n]) => p[n].version = Roots[n])
            BY <1>1, <1>3, <1>4, <3>3, <4>1, <5>1
          <5>3. ref = Roots[n] \/ Needed(p, n, ref)
            BY <1>12, <5>1
          <5> QED
            BY <1>4, <4>1, <5>2, <5>3 DEF Agrees, TagOf
      <3> QED
        BY <3>1, <3>2, <3>3
    <2> QED
      BY <1>7, <2>1, <2>2 DEF Rooted
  <1> QED
    BY <1>9, <1>10, <1>11

LEMMA NewAccept ==
    ASSUME RegistryTypes, AcceptInv, stack # <<>>, NEW d \in Top.demands, VisitNew(d) PROVE AcceptInv'
  <1> DEFINE e == Entry(d, Top.direct)
             p == With(command.plan, d.name, e)
             f == [above |-> Top.above \cup {d.name}, direct |-> FALSE, demands |-> Needs(d.name, e.version)]
             s == Visited(d)
  <1>1. /\ command' = [command EXCEPT !.plan = p] /\ stack' = Append(s, f)
        /\ d \in Demands /\ d.name \notin Resolved /\ f \in Frames /\ e \in Entries
        /\ e.version = Version(d.name, d.ref)
        /\ DOMAIN p = Resolved \cup {d.name} /\ p[d.name] = e
        /\ \A n \in Resolved : p[n] = command.plan[n]
    BY NewIs
  <1>2. /\ stack \in Seq(Frames) /\ Top \in Frames /\ Top.direct \in BOOLEAN
        /\ Len(stack) \in DOMAIN stack /\ Top = stack[Len(stack)]
    BY TopIs DEF RegistryTypes, CommandTypes, Frames
  <1>3. e.tag = TagOf(d.ref) /\ e.direct = Top.direct /\ (IsPin(d.ref) => e.version = d.ref)
    BY <1>1, <1>2, EntryType, VersionType DEF RegistryTypes, ProjectTypes, TagOf
  <1>4. UNCHANGED <<project, todo, last>>
    BY DEF VisitNew
  <1>5. ~f.direct /\ \A x \in f.demands : Needed(p, x.name, x.ref)
    <2>1. f.demands = Needs(d.name, e.version) /\ ~f.direct
      OBVIOUS
    <2> HIDE DEF f, e, p
    <2> QED
      BY <1>1, <2>1 DEF Needed
  <1> HIDE DEF e, p, f
  <1>14. \A n, ref : Needed(command.plan, n, ref) => Needed(p, n, ref)
    BY <1>1 DEF Needed, Resolved
  <1>6. /\ command'.plan = p /\ Resolved' = Resolved \cup {d.name} /\ Rooting' = Rooting /\ Roots' = Roots
        /\ (\A n : Root(n)' = Root(n)) /\ (Declared => Declared') /\ (Settled => Settled')
    BY <1>1, <1>4, VisitKeeps
  <1>7. /\ s \in Seq(Frames) /\ DOMAIN s = DOMAIN stack
        /\ \A i \in DOMAIN stack : /\ s[i].direct = stack[i].direct
                                   /\ s[i].demands \subseteq stack[i].demands
                                   /\ \A x \in stack[i].demands : x # d => x \in s[i].demands
                                   /\ i # Len(stack) => s[i] = stack[i]
    BY <1>2, VisitedIs
  <1> HIDE DEF s
  <1>8. /\ DOMAIN stack' = DOMAIN stack \cup {Len(s) + 1} /\ stack'[Len(s) + 1] = f
        /\ \A i \in DOMAIN stack : stack'[i] = s[i]
    BY <1>1, <1>7, DeeperIs
  <1> SUFFICES ASSUME Rooting PROVE Origins' /\ Rooted' /\ Grounded'
    BY <1>6 DEF AcceptInv, Asked
  <1>9. Origins /\ Rooted /\ Grounded
    BY DEF AcceptInv, Asked
  <1>10. IF Top.direct THEN d.name \in DOMAIN Roots /\ d = Root(d.name) /\ d.ref = Roots[d.name]
         ELSE Needed(command.plan, d.name, d.ref)
    BY <1>2, <1>9 DEF Origins, Root
  <1>11. Origins'
    BY <1>5, <1>6, <1>7, <1>8, <1>9, <1>14 DEF Origins
  <1>12. Grounded'
    <2> SUFFICES ASSUME NEW n \in Resolved \cup {d.name}
                 PROVE  /\ p[n].direct => n \in DOMAIN Roots
                        /\ \E ref : /\ p[n].tag = TagOf(ref)
                                    /\ Needed(p, n, ref) \/ (n \in DOMAIN Roots /\ ref = Roots[n])
      BY <1>6 DEF Grounded
    <2>1. CASE n = d.name
      BY <1>1, <1>3, <1>10, <1>14, <2>1
    <2>2. CASE n \in Resolved
      BY <1>1, <1>9, <1>14, <2>2 DEF Grounded
    <2> QED
      BY <2>1, <2>2
  <1>13. Rooted'
    <2> SUFFICES ASSUME NEW n \in DOMAIN Roots
                 PROVE  \/ n \in Resolved \cup {d.name} /\ Agrees(n, Roots[n], p)
                        \/ \E i \in DOMAIN stack : s[i].direct /\ Root(n) \in s[i].demands
      BY <1>6, <1>8 DEF Rooted
    <2>1. CASE n \in Resolved /\ Agrees(n, Roots[n], command.plan)
      BY <1>1, <1>14, <2>1 DEF Agrees
    <2>2. ASSUME NEW i \in DOMAIN stack, stack[i].direct, Root(n) \in stack[i].demands
          PROVE  \/ n \in Resolved \cup {d.name} /\ Agrees(n, Roots[n], p)
                 \/ s[i].direct /\ Root(n) \in s[i].demands
      <3>1. CASE Root(n) # d
        BY <1>7, <2>2, <3>1
      <3>2. CASE Root(n) = d /\ ~Top.direct
        <4>1. i # Len(stack)
          BY <1>2, <2>2, <3>2
        <4> QED
          BY <1>7, <2>2, <4>1
      <3>3. CASE Root(n) = d /\ Top.direct
        <4>1. n = d.name /\ Roots[n] = d.ref
          BY <3>3 DEF Root
        <4> QED
          BY <1>1, <1>3, <3>3, <4>1 DEF Agrees, TagOf
      <3> QED
        BY <3>1, <3>2, <3>3
    <2> QED
      BY <1>9, <2>1, <2>2 DEF Rooted
  <1> QED
    BY <1>11, <1>12, <1>13

LEMMA VisitAccept == ASSUME RegistryTypes, AcceptInv, Visit PROVE AcceptInv'
  <1>1. stack # <<>> /\ command.kind # "none"
    BY DEF Visit, RegistryTypes, Course, Syncing
  <1> QED
    BY <1>1, AgainAccept, NewAccept, RefuseAccept DEF Visit, VisitFails

LEMMA ReturnAccept == ASSUME RegistryTypes, AcceptInv, Return PROVE AcceptInv'
  <1>1. /\ stack # <<>> /\ stack \in Seq(Frames) /\ Top.demands = {}
        /\ stack' = SubSeq(stack, 1, Len(stack) - 1)
        /\ UNCHANGED <<declared, lock, command, todo, last>>
    BY DEF Return, RegistryTypes, CommandTypes, project, store
  <1>2. /\ \A i \in DOMAIN stack' : i \in DOMAIN stack /\ stack'[i] = stack[i]
        /\ \A i \in DOMAIN stack : stack[i].demands # {} => i \in DOMAIN stack'
    BY <1>1, ReturnedIs
  <1>3. Roots' = Roots /\ \A n : Root(n)' = Root(n)
    BY <1>1 DEF Roots, Root
  <1>4. Origins => Origins'
    BY <1>1, <1>2, <1>3 DEF Origins, Needed
  <1>5. Rooted => Rooted'
    BY <1>1, <1>2, <1>3 DEF Rooted, Agrees, Resolved
  <1>6. (Grounded => Grounded') /\ (Declared => Declared')
    BY <1>1, <1>3 DEF Grounded, Declared, Working, Resolved
  <1> QED
    BY <1>1, <1>4, <1>5, <1>6 DEF AcceptInv, Asked, Rooting, Settled, Agrees, Done

LEMMA FetchAccept == ASSUME RegistryTypes, AcceptInv, Fetch PROVE AcceptInv'
  <1>1. /\ command'.kind = command.kind /\ command'.name = command.name /\ command'.ref = command.ref
        /\ command'.plan = command.plan
        /\ UNCHANGED <<declared, lock, stack, last>> /\ todo' = Materialize
    BY DEF Fetch, RegistryTypes, CommandTypes, project, store
  <1>2. Roots' = Roots /\ \A n : Root(n)' = Root(n)
    BY <1>1 DEF Roots, Root
  <1>3. (Origins => Origins') /\ (Rooted => Rooted') /\ (Grounded => Grounded')
    BY <1>1, <1>2 DEF Origins, Rooted, Grounded, Agrees, Resolved
  <1>4. Rooting => Declared'
    BY <1>1, <1>2, MaterializeIs DEF Rooting, Declared, Roots
  <1>5. ~Done'
    BY <1>1, BusyIs DEF Fetch, Fetching, Done, RegistryTypes, Course
  <1> QED
    BY <1>1, <1>3, <1>4, <1>5 DEF AcceptInv, Asked, Rooting, Settled

LEMMA StepAccept == ASSUME RegistryTypes, AcceptInv, Step PROVE AcceptInv'
  <1>1. Working /\ stack = <<>> /\ todo \in Changes
    BY StepWorks, TodoIs
  <1>2. command' = command /\ stack' = stack /\ last' = last
    BY DEF Step, SweepPackage, RemoveTreeFile, WriteTreeFile, SaveLockfile, Declare, Changing
  <1>3. ~Done'
    BY <1>1, <1>2, WorkingIs DEF Done
  <1>4. Rooting => Roots' = Roots /\ Declared'
    <2> SUFFICES ASSUME Rooting, Declared PROVE Roots' = Roots /\ Declared'
      BY DEF AcceptInv, Asked
    <2>1. CASE declared' = declared /\ todo'.declare = todo.declare
      BY <1>2, <2>1 DEF Roots, Declared, Working
    <2>2. CASE Declare
      <3>1. command.kind = "add" /\ ~todo'.declare
        BY <1>1, <2>2 DEF Declare, Declared, Changes
      <3>2. declared' = With(declared, command.name, command.ref)
        BY <2>2, <3>1 DEF Declare
      <3>3. Roots = declared' /\ Roots' = With(declared', command.name, command.ref)
        BY <1>2, <3>1, <3>2 DEF Roots
      <3>4. Roots' = Roots
        BY <3>2, <3>3, WithTwice
      <3> QED
        BY <3>1, <3>3, <3>4 DEF Declared
    <2>3. Declare \/ (declared' = declared /\ todo'.declare = todo.declare)
      BY <1>1 DEF Step, SweepPackage, RemoveTreeFile, WriteTreeFile, SaveLockfile, Changing, Changes
    <2> QED
      BY <2>1, <2>2, <2>3
  <1>5. Rooting => \A n : Root(n)' = Root(n)
    BY <1>4 DEF Root
  <1>6. Rooting => (Origins => Origins') /\ (Rooted => Rooted') /\ (Grounded => Grounded')
    BY <1>2, <1>4, <1>5 DEF Origins, Rooted, Grounded, Agrees, Resolved
  <1> QED
    BY <1>2, <1>3, <1>4, <1>6 DEF AcceptInv, Asked, Rooting, Settled

LEMMA FinishAccept == ASSUME RegistryTypes, StoreInv, AcceptInv, Finish PROVE AcceptInv'
  <1>1. /\ Working /\ todo = Nothing /\ command' = Idle /\ UNCHANGED <<declared, lock>>
        /\ last' = [last EXCEPT !.ok = TRUE]
    BY DEF Finish, project, store
  <1>2. last'.kind = command.kind
    BY <1>1, WorkingIs DEF RegistryTypes, CommandTypes
  <1>3. ~Rooting'
    BY <1>1, IdleType DEF Rooting
  <1>4. CASE Rooting
    <2>1. lock = command.plan /\ declared = Roots
      BY <1>1, <1>4 DEF Nothing, StoreInv, Works, Saved, Rooting, AcceptInv, Asked, Declared
    <2>2. stack = <<>>
      BY <1>1, <1>4 DEF RegistryTypes, Course, Working, Rooting
    <2>3. \A n \in DOMAIN declared : n \in DOMAIN lock /\ Agrees(n, declared[n], lock)
      BY <1>4, <2>1, <2>2 DEF AcceptInv, Asked, Rooted, Resolved
    <2>4. \A n \in DOMAIN lock : lock[n].direct => n \in DOMAIN declared
      BY <1>4, <2>1 DEF AcceptInv, Asked, Grounded, Resolved
    <2> QED
      BY <1>1, <1>3, <2>3, <2>4 DEF AcceptInv, Asked, Settled, Agrees
  <1>5. CASE ~Rooting
    BY <1>2, <1>3, <1>5 DEF AcceptInv, Asked, Settled, Rooting
  <1> QED
    BY <1>4, <1>5

LEMMA InterruptAccept == ASSUME RegistryTypes, AcceptInv, Interrupt PROVE AcceptInv'
  <1>1. todo # Nothing /\ command' = Idle /\ last' = last
    BY DEF Interrupt
  <1>2. ~last.ok
    BY <1>1, TodoIs, WorkingIs
  <1> QED
    BY <1>1, <1>2, IdleType DEF AcceptInv, Asked, Rooting, Settled, Done

LEMMA SameAccept ==
    ASSUME AcceptInv, UNCHANGED <<declared, lock, command, stack, todo>>, last' = last \/ ~last'.ok
    PROVE  AcceptInv'
  BY DEF AcceptInv, Asked, Rooting, Origins, Rooted, Grounded, Declared, Roots, Root, Resolved, Working,
         Settled, Agrees, Done

LEMMA NextAccept ==
    ASSUME RegistryTypes, StoreInv, AcceptInv, [RegistryNext]_registryVars PROVE AcceptInv'
  <1>1. CASE UNCHANGED registryVars
    BY <1>1, SameAccept DEF registryVars, external, project, store
  <1>2. CASE FetchFails
    BY <1>2, RefuseAccept DEF FetchFails, Fetching
  <1>3. CASE \E n \in Names : \E tags \in Moved(n) : Publish(n, tags)
    BY <1>3, SameAccept DEF Publish, project, store
  <1>4. CASE Tamper
    <2>1. ~last'.ok
      BY <1>4 DEF Tamper, RegistryTypes, CommandTypes
    <2> QED
      BY <1>4, <2>1, SameAccept DEF Tamper
  <1> QED
    BY <1>1, <1>2, <1>3, <1>4, StartAccept, VisitAccept, ReturnAccept, FetchAccept, StepAccept,
       FinishAccept, InterruptAccept DEF RegistryNext, Starts

LEMMA RegistryInv == RegistrySpec => [](RegistryTypes /\ LockInv /\ StoreInv /\ AcceptInv)
  BY InitTypes, NextTypes, InitLock, NextLock, InitStore, NextStore, InitAccept, NextAccept, PTL
     DEF RegistrySpec

\* install accepts what add and update leave behind, but for packages that
\* bino.toml follows at a tag and another package needs at another ref.
THEOREM PackagesInstallAccepts == RegistrySpec => []InstallAccepts
  <1>1. AcceptInv => InstallAccepts
    BY DEF AcceptInv, Settled, InstallAccepts, Drifts, Agrees, Needed, Mixed
  <1> QED
    BY <1>1, RegistryInv, PTL
=============================================================================
