------------------------------- MODULE Packages -------------------------------
(***************************************************************************)
(* The commands of `bino registry`: internal/cli/registry*.go over         *)
(* internal/registry.  A command reads bino.toml (declared) and bino.lock  *)
(* (lock), asks the registry, and brings the store (disk) to a closure of  *)
(* packages: first everything is verified in memory, then files change one *)
(* by one, then the lock, then the declarations.  It may die at any step.  *)
(* One command runs at a time; nothing in the code makes it so.            *)
(***************************************************************************)
EXTENDS Naturals, FiniteSets, SequencesExt

CONSTANTS
    Order,        \* the packages in the order of their names
    MaxVersion,   \* bound: versions of a package
    Tags, Latest, \* the tags; a bare name, and the ref "", stand for the tag latest
    Moved(_),     \* bound: the sets of tags that a new version of a package may take
    Needs(_, _),  \* the dependencies of a version: a set of demands
    Files(_, _),  \* the files of a version: digests by path
    MaxRuns,      \* bound: commands
    Moves         \* what the instance lets happen

AllMoves == {"add", "update", "hold", "install", "remove", "fetch-fails", "interrupt", "tamper"}

Names == ToSet(Order)
Versions == 1..MaxVersion
Refs == Versions \cup Tags
Untagged == ""          \* the tag of an entry that was resolved by a pin

ASSUME MovesAssumption == Moves \subseteq AllMoves
ASSUME BoundAssumption == MaxVersion \in Nat \ {0} /\ MaxRuns \in Nat
ASSUME TagsAssumption == Latest \in Tags /\ Tags \cap Versions = {}
ASSUME MovedAssumption == \A n \in Names : Moved(n) \subseteq SUBSET Tags
ASSUME NeedsAssumption ==
    \A n \in Names, v \in Versions : Needs(n, v) \subseteq [name : Names, ref : Refs]

VARIABLES
    published,  \* the newest version of each package
    tagged,     \* the version each tag of a package points to
    declared,   \* [dependencies] of bino.toml: refs by package
    lock,       \* bino.lock: entries by package
    disk,       \* the store: digests by path, for each package
    residue,    \* packages that hold the temporary file of a write that was killed
    command,    \* the command that runs and the closure it has resolved so far
    stack,      \* the calls of visit that are open: demands that wait
    todo,       \* the changes the command still has to make
    last,       \* how the last one ended
    torn,       \* history: closures of interrupted commands whose files may be about
    runs

external == <<published, tagged, runs>>
store == <<disk, residue>>
project == <<declared, lock, store>>
registryVars == <<external, project, command, stack, todo, last, torn>>

Empty == <<>>
Without(f, S) == [x \in DOMAIN f \ S |-> f[x]]
With(f, x, y) == [z \in DOMAIN f \cup {x} |-> IF z = x THEN y ELSE f[z]]

IsPin(ref) == ref \notin Tags

Comes(m, n) == \E i, j \in DOMAIN Order : i < j /\ Order[i] = m /\ Order[j] = n
First(S) == {n \in S : \A m \in S : ~Comes(m, n)}

-----------------------------------------------------------------------------
(* Commands.                                                                *)

Idle == [kind |-> "none", name |-> "", ref |-> Latest, plan |-> Empty, fetched |-> FALSE]
Nothing == [sweep |-> {}, prune |-> {}, write |-> {}, save |-> FALSE, declare |-> FALSE]

\* Every file the lock records is there, as it was published.
Recorded(locks, n) == IF n \in DOMAIN locks THEN Files(n, locks[n].version) ELSE Empty
Whole == \A n \in Names : \A f \in DOMAIN Recorded(lock, n) :
            f \in DOMAIN disk[n] /\ disk[n][f] = Recorded(lock, n)[f]

Run(kind, name, ref, plan) ==
    /\ command = Idle
    /\ runs < MaxRuns
    /\ runs' = runs + 1
    /\ command' = [kind |-> kind, name |-> name, ref |-> ref, plan |-> plan, fetched |-> FALSE]
    /\ last' = [kind |-> kind, ok |-> FALSE, whole |-> Whole]

\* A command that resolves: visit is called for each root.
Sync(kind, name, ref, roots) ==
    /\ Run(kind, name, ref, Empty)
    /\ stack' = <<[above |-> {}, direct |-> TRUE,
                   demands |-> {[name |-> n, ref |-> roots[n]] : n \in DOMAIN roots}]>>
    /\ UNCHANGED <<published, tagged, project, todo, torn>>

RegistryAdd(n, ref) ==
    /\ "add" \in Moves
    /\ Sync("add", n, ref, With(declared, n, ref))

RegistryUpdate ==
    /\ "update" \in Moves
    /\ declared # Empty
    /\ Sync("update", "", Latest, declared)

\* update with an argument holds every other direct dependency at its version.
Held(n) == [m \in DOMAIN declared |->
               IF m # n /\ m \in DOMAIN lock THEN lock[m].version ELSE declared[m]]

UpdateOne(n) ==
    /\ "hold" \in Moves
    /\ n \in DOMAIN declared
    /\ Sync("hold", n, Latest, Held(n))

\* checkLockDrift: the lock has no direct entry of the version, or of the tag, that
\* bino.toml names; or it has one that bino.toml does not name.
Drifts(n) ==
    \/ /\ n \in DOMAIN declared
       /\ \/ n \notin DOMAIN lock
          \/ ~lock[n].direct
          \/ declared[n] # IF IsPin(declared[n]) THEN lock[n].version ELSE lock[n].tag
    \/ n \in DOMAIN lock \ DOMAIN declared /\ lock[n].direct

Drift == \E n \in Names : Drifts(n)

RegistryInstall ==
    /\ "install" \in Moves
    /\ lock # Empty
    /\ ~Drift
    /\ Run("install", "", Latest, lock)
    /\ UNCHANGED <<published, tagged, project, stack, todo, torn>>

\* remove: what the other declarations reach over the edges the lock records.
BugClosed(S) == TRUE
Closed(S) == \A n \in S \cap DOMAIN lock : lock[n].needs \subseteq S

Reachable(roots) == {n \in Names : \A S \in SUBSET Names : roots \subseteq S /\ Closed(S) => n \in S}

Remaining(n) ==
    LET kept == Without(lock, DOMAIN lock \ Reachable(DOMAIN declared \ {n}))
    IN  IF n \in DOMAIN kept THEN [kept EXCEPT ![n].direct = FALSE] ELSE kept

RegistryRemove(n) ==
    /\ "remove" \in Moves
    /\ n \in DOMAIN declared
    /\ Run("remove", n, Latest, Remaining(n))
    /\ todo' = [Nothing EXCEPT !.sweep = DOMAIN lock \ DOMAIN Remaining(n),
                              !.save = TRUE, !.declare = TRUE]
    /\ UNCHANGED <<published, tagged, project, stack, torn>>

-----------------------------------------------------------------------------
(* resolve.go.                                                              *)

\* The server's answer for a tag, or for a version.
Version(name, ref) == IF IsPin(ref) THEN ref ELSE tagged[name][ref]

Entry(d, direct) ==
    LET v == Version(d.name, d.ref)
    IN  [version |-> v, tag |-> IF IsPin(d.ref) THEN Untagged ELSE d.ref, direct |-> direct,
         needs |-> {e.name : e \in Needs(d.name, v)}]

Top == stack[Len(stack)]
Resolved == DOMAIN command.plan

Conflicts(d) == IsPin(d.ref) /\ d.ref # command.plan[d.name].version

BugAlsoDirect(e, direct) == e
AlsoDirect(e, direct) == [e EXCEPT !.direct = @ \/ direct]

\* The command ends and has changed nothing.
Refuse ==
    /\ command' = Idle
    /\ stack' = <<>>
    /\ UNCHANGED <<external, project, todo, last, torn>>

\* ErrCycle, ErrDependencyConflict, or the server does not know the version.
VisitFails(d) ==
    /\ \/ d.name \in Top.above
       \/ d.name \in Resolved /\ Conflicts(d)
       \/ d.name \notin Resolved /\ Version(d.name, d.ref) > published[d.name]
    /\ Refuse

Visited(d) == [stack EXCEPT ![Len(stack)].demands = @ \ {d}]

\* The version and the tag of the first demand stay.
VisitAgain(d) ==
    /\ d.name \notin Top.above
    /\ d.name \in Resolved /\ ~Conflicts(d)
    /\ command' = [command EXCEPT !.plan[d.name] = AlsoDirect(@, Top.direct)]
    /\ stack' = Visited(d)
    /\ UNCHANGED <<external, project, todo, last, torn>>

VisitNew(d) ==
    LET v == Version(d.name, d.ref) IN
    /\ d.name \notin Top.above \cup Resolved
    /\ v <= published[d.name]
    /\ command' = [command EXCEPT !.plan = With(@, d.name, Entry(d, Top.direct))]
    /\ stack' = Append(Visited(d), [above |-> Top.above \cup {d.name}, direct |-> FALSE,
                                    demands |-> Needs(d.name, v)])
    /\ UNCHANGED <<external, project, todo, last, torn>>

\* The demands are visited in the order of their names.
Visit ==
    /\ stack # <<>>
    /\ \E d \in Top.demands :
          /\ d.name \in First({e.name : e \in Top.demands})
          /\ VisitFails(d) \/ VisitAgain(d) \/ VisitNew(d)

Return ==
    /\ stack # <<>>
    /\ Top.demands = {}
    /\ stack' = SubSeq(stack, 1, Len(stack) - 1)
    /\ UNCHANGED <<external, project, command, todo, last, torn>>

-----------------------------------------------------------------------------
(* fetchPackage, materialize.                                               *)

\* A file that is there with the right digest is neither fetched nor written.
Reused(n, f) == f \in DOMAIN disk[n] /\ disk[n][f] = Files(n, command.plan[n].version)[f]

\* pruneDepartedFiles.
BugDeparted(n) == {}
Departed(n) == DOMAIN Recorded(lock, n) \ DOMAIN Recorded(command.plan, n)

Syncing == command.kind \in {"add", "update", "hold"}

Materialize ==
    [sweep |-> DOMAIN lock \ Resolved,
     prune |-> UNION {{n} \X Departed(n) : n \in Resolved},
     write |-> {p \in UNION {{n} \X DOMAIN Recorded(command.plan, n) : n \in Resolved} :
                 ~Reused(p[1], p[2])},
     save |-> Syncing,
     declare |-> command.kind = "add"]

Fetching ==
    /\ command.kind \notin {"none", "remove"}
    /\ ~command.fetched

\* Everything is verified; from here on files change.
Fetch ==
    /\ Fetching
    /\ stack = <<>>
    /\ command' = [command EXCEPT !.fetched = TRUE]
    /\ todo' = Materialize
    /\ UNCHANGED <<external, project, stack, last, torn>>

\* The server does not answer, or with something else than was asked for.
FetchFails ==
    /\ "fetch-fails" \in Moves
    /\ Fetching
    /\ Refuse

-----------------------------------------------------------------------------
(* store.go and SaveLockfile: a file, the lock and bino.toml change by rename. *)

Changing(n, files) == /\ disk' = [disk EXCEPT ![n] = files]
                      /\ UNCHANGED <<external, declared, lock, command, stack, last, torn>>

Swept == todo.sweep = {}
Touched == First({p[1] : p \in todo.prune \cup todo.write})

\* The writes that may come next: one package after another, what departed first.
Writable == {p \in todo.write : Swept /\ p[1] \in Touched /\ \A q \in todo.prune : q[1] # p[1]}

\* The packages left over go first, then one package after another.
SweepPackage(n) ==
    /\ n \in First(todo.sweep)
    /\ todo' = [todo EXCEPT !.sweep = @ \ {n}]
    /\ residue' = residue \ {n}
    /\ Changing(n, Empty)

RemoveTreeFile(n, f) ==
    /\ Swept
    /\ n \in Touched /\ <<n, f>> \in todo.prune
    /\ todo' = [todo EXCEPT !.prune = @ \ {<<n, f>>}]
    /\ Changing(n, Without(disk[n], {f}))
    /\ UNCHANGED residue

\* The temporary file is renamed, or removed on an error.
WriteTreeFile(n, f) ==
    /\ <<n, f>> \in Writable
    /\ todo' = [todo EXCEPT !.write = @ \ {<<n, f>>}]
    /\ Changing(n, With(disk[n], f, Files(n, command.plan[n].version)[f]))
    /\ UNCHANGED residue

SaveLockfile ==
    /\ Swept /\ todo.prune = {} /\ todo.write = {}
    /\ todo.save
    /\ todo' = [todo EXCEPT !.save = FALSE]
    /\ lock' = command.plan
    /\ UNCHANGED <<external, declared, store, command, stack, last, torn>>

\* SetDependency, RemoveDependency.
Declare ==
    /\ Swept /\ todo.prune = {} /\ todo.write = {} /\ ~todo.save
    /\ todo.declare
    /\ todo' = [todo EXCEPT !.declare = FALSE]
    /\ declared' = IF command.kind = "add" THEN With(declared, command.name, command.ref)
                   ELSE Without(declared, {command.name})
    /\ UNCHANGED <<external, lock, store, command, stack, last, torn>>

Step ==
    \/ \E n \in todo.sweep : SweepPackage(n)
    \/ \E p \in todo.prune : RemoveTreeFile(p[1], p[2])
    \/ \E p \in todo.write : WriteTreeFile(p[1], p[2])
    \/ SaveLockfile
    \/ Declare

Working == command.fetched \/ command.kind = "remove"

Finish ==
    /\ Working
    /\ todo = Nothing
    /\ command' = Idle
    /\ last' = [last EXCEPT !.ok = TRUE]
    /\ torn' = IF torn \subseteq {lock} THEN {} ELSE torn
    /\ UNCHANGED <<external, project, stack, todo>>

\* The process dies, or a change fails and the command returns its error.  A
\* directory that is being removed may be half gone, and a kill in writeFileAtomic
\* leaves its temporary file.
Unsaved == Syncing /\ todo.save

HalfSwept(n) == \E gone \in SUBSET DOMAIN disk[n] :
    /\ disk' = [disk EXCEPT ![n] = Without(@, gone)]
    /\ residue' \in {residue, residue \ {n}}

HalfWritten(n) ==
    /\ residue' = residue \cup {n}
    /\ UNCHANGED disk

Interrupt ==
    /\ "interrupt" \in Moves
    /\ todo # Nothing
    /\ \/ \E n \in First(todo.sweep) : HalfSwept(n)
       \/ \E p \in Writable : HalfWritten(p[1])
       \/ UNCHANGED store
    /\ todo' = Nothing
    /\ command' = Idle
    /\ torn' = IF Unsaved THEN torn \cup {command.plan} ELSE torn
    /\ UNCHANGED <<external, declared, lock, stack, last>>

-----------------------------------------------------------------------------
(* What happens around the commands.                                        *)

\* A new version is published and some tags move to it; for a command that has
\* resolved it comes too late.
Publish(n, tags) ==
    /\ command = Idle \/ stack # <<>>
    /\ published[n] < MaxVersion
    /\ published' = [published EXCEPT ![n] = @ + 1]
    /\ tagged' = [tagged EXCEPT ![n] = [t \in Tags |-> IF t \in tags THEN published[n] + 1 ELSE @[t]]]
    /\ UNCHANGED <<runs, project, command, stack, todo, last, torn>>

\* A file of the store is edited, or the project is checked out anew; behind a
\* command that succeeded, to bound the cases.
Tamper ==
    /\ "tamper" \in Moves
    /\ command = Idle /\ last.ok
    /\ runs < MaxRuns
    /\ \/ /\ \E n \in Names : \E f \in DOMAIN disk[n] : disk' = [disk EXCEPT ![n][f] = 0]
          /\ UNCHANGED residue
       \/ /\ disk' = [n \in Names |-> Empty]
          /\ disk' # disk
          /\ residue' = {}
    /\ last' = [last EXCEPT !.ok = FALSE]
    /\ runs' = runs + 1
    /\ UNCHANGED <<published, tagged, declared, lock, command, stack, todo, torn>>

-----------------------------------------------------------------------------

RegistryInit ==
    /\ published = [n \in Names |-> 1]
    /\ tagged = [n \in Names |-> [t \in Tags |-> 1]]
    /\ declared = Empty
    /\ lock = Empty
    /\ disk = [n \in Names |-> Empty]
    /\ residue = {}
    /\ command = Idle
    /\ stack = <<>>
    /\ todo = Nothing
    /\ last = [kind |-> "none", ok |-> FALSE, whole |-> TRUE]
    /\ torn = {}
    /\ runs = 0

RegistryNext ==
    \/ \E n \in Names : \E ref \in Tags \cup {published[n]} : RegistryAdd(n, ref)
    \/ RegistryUpdate
    \/ \E n \in Names : UpdateOne(n)
    \/ RegistryInstall
    \/ \E n \in Names : RegistryRemove(n)
    \/ Visit
    \/ Return
    \/ Fetch
    \/ FetchFails
    \/ Step
    \/ Finish
    \/ Interrupt
    \/ \E n \in Names : \E tags \in Moved(n) : Publish(n, tags)
    \/ Tamper

RegistrySpec == RegistryInit /\ [][RegistryNext]_registryVars

-----------------------------------------------------------------------------
(* Properties.                                                              *)

Done == command = Idle /\ last.ok

\* A command that reports success has every file the lock records in the store,
\* whatever was interrupted or edited before it; remove, which fetches nothing,
\* keeps it that way.
SuccessIsWhole == Done /\ (last.kind # "remove" \/ last.whole) => Whole

\* "An interrupted run re-materializes cleanly": when a command that was
\* interrupted is run again and succeeds, no file is left that the lock does
\* not record, but for the temporary file of a killed write, which nothing
\* removes until its package goes.  It lies in a package that the lock records,
\* where verify takes it for what it is (isWriteResidue).
RerunIsClean ==
    Done /\ torn = {} =>
        /\ residue \subseteq DOMAIN lock
        /\ \A n \in Names : DOMAIN disk[n] \subseteq DOMAIN Recorded(lock, n)

\* Behind a command that reports success the store is what the lock says.
StoreFollowsLock == SuccessIsWhole /\ RerunIsClean

\* A package of the lock needs n under another ref than bino.toml names.
Mixed(n) == \E m \in DOMAIN lock : \E d \in Needs(m, lock[m].version) :
    d.name = n /\ d.ref # declared[n]

\* install accepts what add and update leave behind, but for a package that
\* bino.toml follows at a tag and another package needs at another ref: the lock
\* has the tag of the first demand that resolve.go met.
InstallAccepts ==
    Done /\ last.kind \in {"add", "update"} =>
        \A n \in Names : Drifts(n) => n \in DOMAIN declared /\ ~IsPin(declared[n]) /\ Mixed(n)

\* What install tells the user of a lock that drifted: "run 'bino registry update'"
\* (registry_install.go:101).  PackagesTags.cfg and PackagesPin.cfg show that update
\* may leave the drift where it was.
UpdateSettles == Done /\ last.kind = "update" => ~Drift

\* The lock holds every dependency of what it holds, in one version that every
\* pin agrees with.
LockIsClosed ==
    \A n \in DOMAIN lock : \A d \in Needs(n, lock[n].version) :
        d.name \in DOMAIN lock /\ (IsPin(d.ref) => lock[d.name].version = d.ref)
=============================================================================
