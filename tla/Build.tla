------------------------------- MODULE Build -------------------------------
(***************************************************************************)
(* One `bino build` (internal/cli/build.go, internal/report/pipeline,      *)
(* internal/hooks): the manifests are loaded and the artefacts selected,   *)
(* then the reports, the screenshots and the documents are built one after *)
(* another, with hooks around them, and the build log is written.  A       *)
(* report is rendered, printed, described by metadata and signed in place; *)
(* a document is put together from separately printed parts.  Every step   *)
(* may fail, the user may cancel at any time, and the plugins that the     *)
(* render calls query the dataset results meanwhile (PluginHost).          *)
(*                                                                         *)
(* A PDF is the sequence of its parts with its metadata and its signature. *)
(* A manifest set is what the selection reads: the include and exclude     *)
(* lists, whether the signing profile exists, the report's page refs and   *)
(* format, and how the constraints of each page come out for it.           *)
(***************************************************************************)
EXTENDS PluginHost, Sequences, SequencesExt

CONSTANTS
  Reports, Shots, Documents,  \* the artefacts of each kind, in document order
  Signed,      \* the artefacts with a signing profile
  WithToc,     \* the documents with a table of contents
  WithCovers,  \* the documents with a front and a back cover
  PageNames,   \* the names of the LayoutPage documents, in document order
  PageFormats, \* their formats, defaults filled in
  Layouts,     \* the formats that are page layouts ("pdf" is none)
  Hooked,      \* the checkpoints bino.toml registers commands for
  Manifests    \* the manifest sets the build may find

Artefacts == ToSet(Reports) \cup ToSet(Shots) \cup ToSet(Documents)
Pages == DOMAIN PageNames
Checkpoints == {"pre-build", "pre-datasource", "pre-render", "post-render", "post-build"}

ASSUME OwnersAssumption == Owners = Artefacts
(* A name is that of one artefact, of one kind.                            *)
ASSUME KindsAssumption ==
  /\ ToSet(Reports) \cap ToSet(Shots) = {}
  /\ ToSet(Documents) \cap (ToSet(Reports) \cup ToSet(Shots)) = {}
  /\ WithCovers \cup WithToc \subseteq ToSet(Documents)
ASSUME ListsAssumption ==
  /\ \A s \in {Reports, Shots, Documents} : s \in Seq(ToSet(s))
  /\ \A m \in Manifests : m.include \in Seq(ToSet(m.include))
ASSUME HooksAssumption == Hooked \subseteq Checkpoints
ASSUME SignedAssumption == Signed \cap ToSet(Shots) = {}

NoFile == [parts |-> <<>>, info |-> FALSE, signature |-> FALSE]
Temps == {"front", "back", "body", "content", "toc"}

VARIABLES
  manifest,   \* the manifest set, once loaded
  todo,       \* the selected artefacts, in build order
  turn,       \* which of them is being built, or was last
  stage,      \* the next step
  out,        \* Artefacts -> the file of the artefact as this build wrote it
  graph,      \* the reports whose graph file was written
  missed,     \* the screenshots reported as not captured
  temp,       \* the document's temporary files that exist -> their parts
  deferred,   \* those a pending deferred call removes
  handed,     \* Artefacts -> the file as the post-render hook found it
  log,        \* the artefacts the build log lists, once written
  cancelled,  \* the context is cancelled
  result      \* "running", "ok", "failed", "invalid" (a page's constraints)

buildVars == <<manifest, todo, turn, stage, out, graph, missed, temp, deferred,
               handed, log, cancelled, result>>
vars == <<hostVars, buildVars>>

None == <<>>
NoManifest == [include |-> <<>>]
Running == result = "running"
Current == todo[turn]
Building == turn > 0

-----------------------------------------------------------------------------
(* Selection of the artefacts.                                             *)

(* The elements of a sequence at the positions K, in their order.          *)
Nth(K, j) == CHOOSE i \in K : Cardinality({k \in K : k <= i}) = j
Listed(s, K) == [j \in 1 .. Cardinality(K) |-> s[Nth(K, j)]]

(* An include list selects in its own order, each name once.               *)
FilterArtefacts(all, m) ==
  IF m.include = <<>>
    THEN Listed(all, {i \in DOMAIN all : all[i] \notin m.exclude})
    ELSE Listed(m.include,
                {i \in DOMAIN m.include :
                   /\ m.include[i] \in ToSet(all) /\ m.include[i] \notin m.exclude
                   /\ \A k \in 1 .. i - 1 : m.include[k] # m.include[i]})

Selected(m) ==
  FilterArtefacts(Reports, m) \o FilterArtefacts(Shots, m) \o FilterArtefacts(Documents, m)

(* What loadBuildManifests accepts.                                        *)
Buildable(m) ==
  /\ ToSet(m.include) \subseteq Artefacts
  /\ Selected(m) # <<>>
  /\ ToSet(Selected(m)) \cap Signed # {} => m.profile

-----------------------------------------------------------------------------
(* Selection of a report's pages.  A ref is the name of a page, the name   *)
(* with params, or a glob; names is the set of names it matches.           *)

SelectsAll(refs) == refs = <<>> \/ (Len(refs) = 1 /\ refs[1].kind = "all")

LayoutPageListed(refs, name) ==
  SelectsAll(refs) \/ \E j \in DOMAIN refs : name \in refs[j].names

Unevaluable(m) ==
  {p \in Pages : m.verdict[p] = "error" /\ LayoutPageListed(m.refs, PageNames[p])}

Kept(m) == {p \in Pages : m.verdict[p] = "in"}

NamesUnique(m) ==
  \A p, o \in Kept(m) : PageNames[p] = PageNames[o] => p = o

ByName(names) == SetToSortSeq(names, <)
Plain(names) == [j \in DOMAIN names |-> [name |-> names[j], param |-> 0]]

(* The kept pages in document order.                                       *)
InOrder(m) ==
  LET order == SetToSortSeq(Kept(m), <) IN [j \in DOMAIN order |-> PageNames[order[j]]]

(* selectLayoutPagesByRefs, one ref after another: a page comes once from  *)
(* globs and plain names, and once more from each ref with params.  A name *)
(* that no kept page has selects nothing and is no error.                  *)
SelectLayoutPages(m) ==
  LET kept == {PageNames[p] : p \in Kept(m)}
      Take(acc, j) ==
        LET ref == m.refs[j]
            found == ref.names \cap kept
            fresh == found \ acc.seen
        IN  IF ref.kind = "params"
              THEN [acc EXCEPT !.pages = @ \o [k \in 1 .. Cardinality(found) |->
                        [name |-> CHOOSE n \in found : TRUE, param |-> j]]]
              ELSE [seen |-> acc.seen \cup found,
                    pages |-> acc.pages \o Plain(ByName(fresh))]
  IN  IF SelectsAll(m.refs)
        THEN Plain(InOrder(m))
        ELSE FoldLeft(Take, [seen |-> {}, pages |-> <<>>],
                      [j \in DOMAIN m.refs |-> j]).pages

(* A report whose format is no page layout takes pages of every format.    *)
LayoutPageMatchesFormat(m, p) == m.format \in Layouts => PageFormats[p] = m.format

(* What the renderer makes of the selection: it passes over, without a     *)
(* word, the pages of another format than the report's.                    *)
RenderLayoutPages(m) ==
  LET Matches(page) ==
        \A p \in Kept(m) : PageNames[p] = page.name => LayoutPageMatchesFormat(m, p)
  IN  SelectSeq(SelectLayoutPages(m), Matches)

-----------------------------------------------------------------------------
Init ==
  /\ HostInit
  /\ manifest = NoManifest
  /\ todo = <<>>
  /\ turn = 0
  /\ stage = "load"
  /\ out = [a \in Artefacts |-> NoFile]
  /\ graph = {}
  /\ missed = {}
  /\ temp = <<>>
  /\ deferred = {}
  /\ handed = [a \in Artefacts |-> NoFile]
  /\ log = None
  /\ cancelled = FALSE
  /\ result = "running"

(* One step of the build, in stage from, that leaves it in stage to.       *)
Step(from, to) ==
  /\ Running
  /\ stage = from
  /\ stage' = to
  /\ UNCHANGED <<manifest, cancelled, result>>

(* A checkpoint whose commands succeed, or one without commands: the       *)
(* context is looked at only before a command.                             *)
RunHook(checkpoint) == checkpoint \in Hooked => ~cancelled

KeepHost == UNCHANGED hostVars
KeepFiles == UNCHANGED <<out, graph, missed, handed, log>>
KeepTemps == UNCHANGED <<temp, deferred>>

Load ==
  /\ Running
  /\ stage = "load"
  /\ ~cancelled
  /\ \E m \in Manifests :
       /\ Buildable(m)
       /\ manifest' = m
       /\ todo' = Selected(m)
  /\ stage' = "pre-build"
  /\ UNCHANGED <<turn, cancelled, result>>
  /\ KeepHost /\ KeepFiles /\ KeepTemps

PreBuild ==
  /\ Step("pre-build", "next")
  /\ RunHook("pre-build")
  /\ UNCHANGED <<todo, turn>>
  /\ KeepHost /\ KeepFiles /\ KeepTemps

FirstStage(a) ==
  IF a \in ToSet(Reports) THEN "datasource"
  ELSE IF a \in ToSet(Shots) THEN "shot"
  ELSE IF a \in WithCovers THEN "front"
  ELSE IF a \in WithToc THEN "content" ELSE "print"

BugClearPluginDatasets == UNCHANGED hostVars

(* The datasets of the artefact before must not be seen by a plugin call   *)
(* for this one.                                                           *)
ClearPluginDatasets == SetDatasets(NoOwner)

(* The loops of buildAllArtefacts, up to the build of one artefact.        *)
Begin ==
  /\ turn < Len(todo)
  /\ Step("next", FirstStage(todo[turn + 1]))
  /\ ~cancelled
  /\ turn' = turn + 1
  /\ ClearPluginDatasets
  /\ UNCHANGED todo
  /\ KeepFiles /\ KeepTemps

-----------------------------------------------------------------------------
(* A report.                                                               *)

Keep == UNCHANGED <<todo, turn>>

PreDatasource ==
  /\ Step("datasource", "html")
  /\ RunHook("pre-datasource")
  /\ Keep /\ KeepHost /\ KeepFiles /\ KeepTemps

(* RenderArtefactHTML: the pages are chosen, the datasets executed and     *)
(* handed to the plugins, the page rendered.                               *)
RenderArtefactHTML ==
  /\ Step("html", "pre-render")
  /\ Unevaluable(manifest) = {}
  /\ NamesUnique(manifest)
  /\ SetDatasets(Current)
  /\ Keep /\ KeepFiles /\ KeepTemps

(* The page selection fails the render.                                    *)
RenderInvalid ==
  /\ Running
  /\ stage = "html"
  /\ Unevaluable(manifest) # {} \/ ~NamesUnique(manifest)
  /\ result' = "invalid"
  /\ UNCHANGED <<manifest, stage, cancelled>>
  /\ Keep /\ KeepHost /\ KeepFiles /\ KeepTemps

PreRender ==
  /\ Step("pre-render", "print")
  /\ RunHook("pre-render")
  /\ ~cancelled
  /\ Keep /\ KeepHost /\ KeepFiles /\ KeepTemps

Printed(parts) == [parts |-> parts, info |-> FALSE, signature |-> FALSE]

(* RenderPDFWithData prints straight to the final path.                    *)
PrintReport ==
  /\ Step("print", "info")
  /\ Current \in ToSet(Reports)
  /\ ~cancelled
  /\ out' = [out EXCEPT ![Current] = Printed(RenderLayoutPages(manifest))]
  /\ UNCHANGED <<graph, missed, handed, log>>
  /\ Keep /\ KeepHost /\ KeepTemps

(* SetPDFInfo rewrites the file without looking at the context.            *)
SetPDFInfo ==
  /\ Step("info", IF Current \in ToSet(Reports) THEN "graph" ELSE "sign")
  /\ out' = [out EXCEPT ![Current].info = TRUE]
  /\ UNCHANGED <<graph, missed, handed, log>>
  /\ Keep /\ KeepHost /\ KeepTemps

WriteGraphReport ==
  /\ Step("graph", "sign")
  /\ graph' = graph \cup {Current}
  /\ UNCHANGED <<out, missed, handed, log>>
  /\ Keep /\ KeepHost /\ KeepTemps

(* Documents run no hooks.                                                 *)
AfterSign == IF Current \in ToSet(Reports) THEN "post-render" ELSE "next"

(* The last look at the context, then the signed copy replaces the file.   *)
Sign ==
  /\ Step("sign", AfterSign)
  /\ ~cancelled
  /\ out' = [out EXCEPT ![Current].signature = Current \in Signed]
  /\ UNCHANGED <<graph, missed, handed, log>>
  /\ Keep /\ KeepHost /\ KeepTemps

PostRender ==
  /\ Step("post-render", "next")
  /\ RunHook("post-render")
  /\ handed' = [handed EXCEPT ![Current] = out[Current]]
  /\ UNCHANGED <<out, graph, missed, log>>
  /\ Keep /\ KeepHost /\ KeepTemps

-----------------------------------------------------------------------------
(* A screenshot artefact.  A component that cannot be captured is reported *)
(* and does not fail the build.                                            *)

RenderScreenshotHTML ==
  /\ Step("shot", "capture")
  /\ SetDatasets(Current)
  /\ Keep /\ KeepFiles /\ KeepTemps

Capture ==
  /\ Step("capture", "next")
  /\ ~cancelled
  /\ \/ /\ out' = [out EXCEPT ![Current] = Printed(<<"image">>)]
        /\ UNCHANGED missed
     \/ /\ missed' = missed \cup {Current}
        /\ UNCHANGED out
  /\ UNCHANGED <<graph, handed, log>>
  /\ Keep /\ KeepHost /\ KeepTemps

-----------------------------------------------------------------------------
(* A document.  Its covers are printed to files of their own, and with     *)
(* covers the body is too; with a table of contents the content is printed *)
(* first, for its page numbers, and merged behind the contents.            *)

Existing == DOMAIN temp
Write(name, parts) ==
  temp' = [t \in Existing \cup {name} |-> IF t = name THEN parts ELSE temp[t]]
Left(names) == [t \in Existing \ names |-> temp[t]]

AfterCovers == IF Current \in WithToc THEN "content" ELSE "print"

FrontCover ==
  /\ Step("front", "back")
  /\ ~cancelled
  /\ Write("front", <<"front">>)
  /\ UNCHANGED deferred
  /\ Keep /\ KeepHost /\ KeepFiles

(* RenderCoverPDFs returns: from here on its files are removed when the    *)
(* caller returns, like the file reserved for the body.                    *)
BackCover ==
  /\ Step("back", AfterCovers)
  /\ ~cancelled
  /\ temp' = [t \in {"front", "back", "body"} |->
                IF t = "back" THEN <<"back">> ELSE IF t = "front" THEN temp[t] ELSE <<>>]
  /\ deferred' = {"front", "back", "body"}
  /\ Keep /\ KeepHost /\ KeepFiles

(* What the body is printed to: its own file when covers go around it.     *)
WriteBody(parts) ==
  IF Current \in WithCovers
    THEN /\ temp' = [t \in {"front", "back", "body"} |->
                       IF t = "body" THEN parts ELSE temp[t]]
         /\ deferred' = {"front", "back", "body"}
         /\ UNCHANGED out
    ELSE /\ out' = [out EXCEPT ![Current] = Printed(parts)]
         /\ temp' = <<>>
         /\ deferred' = {}

AfterBody == IF Current \in WithCovers THEN "covers" ELSE "info"

PrintDocument ==
  /\ Step("print", AfterBody)
  /\ Current \in ToSet(Documents)
  /\ ~cancelled
  /\ SetDatasets(Current)
  /\ WriteBody(<<"content">>)
  /\ UNCHANGED <<graph, missed, handed, log>>
  /\ Keep

PrintContent ==
  /\ Step("content", "toc")
  /\ ~cancelled
  /\ SetDatasets(Current)
  /\ Write("content", <<"content">>)
  /\ deferred' = deferred \cup {"content"}
  /\ Keep /\ KeepFiles

PrintToc ==
  /\ Step("toc", "merge")
  /\ ~cancelled
  /\ SetDatasets(Current)
  /\ Write("toc", <<"toc">>)
  /\ deferred' = deferred \cup {"toc"}
  /\ Keep /\ KeepFiles

BugMergeToc ==
  /\ Step("merge", AfterBody)
  /\ ~cancelled
  /\ WriteBody(temp["content"] \o temp["toc"])
  /\ UNCHANGED <<graph, missed, handed, log>>
  /\ Keep /\ KeepHost

(* BuildDocumentPDFWithTOC returns: its two files are removed.             *)
MergeToc ==
  /\ Step("merge", AfterBody)
  /\ ~cancelled
  /\ WriteBody(temp["toc"] \o temp["content"])
  /\ UNCHANGED <<graph, missed, handed, log>>
  /\ Keep /\ KeepHost

(* MergePDFs does not look at the context; then the caller returns.        *)
MergeCovers ==
  /\ Step("covers", "info")
  /\ out' = [out EXCEPT ![Current] =
               Printed(temp["front"] \o temp["body"] \o temp["back"])]
  /\ temp' = Left(deferred)
  /\ deferred' = {}
  /\ UNCHANGED <<graph, missed, handed, log>>
  /\ Keep /\ KeepHost

-----------------------------------------------------------------------------
PostBuild ==
  /\ turn = Len(todo)
  /\ Step("next", "log")
  /\ RunHook("post-build")
  /\ Keep /\ KeepHost /\ KeepFiles /\ KeepTemps

(* The build log lists the reports and the documents; a log that cannot be *)
(* written is only a warning.                                              *)
WriteBuildLog ==
  /\ Running
  /\ stage = "log"
  /\ log' \in {None, Listed(todo, {j \in DOMAIN todo : todo[j] \notin ToSet(Shots)})}
  /\ result' = "ok"
  /\ UNCHANGED <<manifest, stage, cancelled, out, graph, missed, handed>>
  /\ Keep /\ KeepHost /\ KeepTemps

BugRemovedOnError == {}

(* What the failing call removes itself: RenderCoverPDFs its first cover.  *)
RemovedOnError == IF stage = "back" THEN {"front"} ELSE {}

(* Any step of the build fails: a hook, a query, Chrome, the disk, the     *)
(* cancelled context.  The deferred calls run.                             *)
Fail ==
  /\ Running
  /\ stage # "log"
  /\ result' = "failed"
  /\ temp' = Left(deferred \cup RemovedOnError)
  /\ deferred' = {}
  /\ UNCHANGED <<manifest, stage, cancelled>>
  /\ Keep /\ KeepHost /\ KeepFiles

Cancel ==
  /\ Running
  /\ ~cancelled
  /\ cancelled' = TRUE
  /\ UNCHANGED <<manifest, stage, result>>
  /\ Keep /\ KeepHost /\ KeepFiles /\ KeepTemps

(* ShutdownAll stops the plugins and closes the host; a plugin that did    *)
(* not stop in time is killed in the background and may call once more.    *)
ShutdownAll ==
  /\ ~Running
  /\ stage # "closed"
  /\ stage' = "closed"
  /\ Close
  /\ UNCHANGED <<manifest, cancelled, result>>
  /\ Keep /\ KeepFiles /\ KeepTemps

BuildStep ==
  \/ Load \/ PreBuild \/ Begin
  \/ PreDatasource \/ RenderArtefactHTML \/ RenderInvalid \/ PreRender
  \/ PrintReport \/ SetPDFInfo \/ WriteGraphReport \/ Sign \/ PostRender
  \/ RenderScreenshotHTML \/ Capture
  \/ FrontCover \/ BackCover \/ PrintDocument \/ PrintContent \/ PrintToc
  \/ MergeToc \/ MergeCovers
  \/ PostBuild \/ WriteBuildLog \/ Fail \/ Cancel \/ ShutdownAll

PluginCall == \E q \in Queries : HostCall(q) /\ UNCHANGED buildVars

Next == BuildStep \/ PluginCall

Spec == Init /\ [][Next]_vars
-----------------------------------------------------------------------------
(* Which artefacts the user asked for.                                     *)
Asked(m) ==
  {a \in Artefacts : a \notin m.exclude /\ (m.include = <<>> \/ a \in ToSet(m.include))}

(* The pages a report should have: those that its refs name, that its      *)
(* constraints keep and that have its format, each where the first ref     *)
(* that names it stands, by name within a glob, and again for each ref     *)
(* that gives it params.                                                   *)
PagesAsked(m) ==
  LET wanted == {p \in Kept(m) : m.format \in Layouts => PageFormats[p] = m.format}
      kept == {PageNames[p] : p \in wanted}
      order == SetToSortSeq(wanted, <)
      naming(n) == {j \in DOMAIN m.refs : m.refs[j].kind # "params" /\ n \in m.refs[j].names}
      once == {[at |-> CHOOSE j \in naming(n) : \A k \in naming(n) : j <= k,
                name |-> n, param |-> 0] : n \in {k \in kept : naming(k) # {}}}
      again == {[at |-> r[1], name |-> r[2], param |-> r[1]] : r \in
                  {p \in (DOMAIN m.refs) \X kept :
                     m.refs[p[1]].kind = "params" /\ p[2] \in m.refs[p[1]].names}}
      Before(x, y) == x.at < y.at \/ (x.at = y.at /\ x.name < y.name)
      sorted == SetToSortSeq(once \cup again, Before)
  IN  IF m.refs = <<>> \/ (Len(m.refs) = 1 /\ m.refs[1].kind = "all")
        THEN Plain([j \in DOMAIN order |-> PageNames[order[j]]])
        ELSE [j \in DOMAIN sorted |-> [name |-> sorted[j].name, param |-> sorted[j].param]]

(* The selection and the renderer print those that should be there.        *)
PagesRight == \A m \in Manifests : NamesUnique(m) => RenderLayoutPages(m) = PagesAsked(m)

PartsAsked(a) ==
  IF a \in ToSet(Reports) THEN PagesAsked(manifest)
  ELSE IF a \in ToSet(Shots) THEN <<"image">>
  ELSE (IF a \in WithCovers THEN <<"front">> ELSE <<>>)
       \o (IF a \in WithToc THEN <<"toc">> ELSE <<>>) \o <<"content">>
       \o (IF a \in WithCovers THEN <<"back">> ELSE <<>>)

Finished(a) ==
  [parts |-> PartsAsked(a), info |-> a \notin ToSet(Shots), signature |-> a \in Signed]

(* A build that reports success wrote every artefact that was asked for,   *)
(* and no other, in its final form: all parts in order, metadata, then the *)
(* signature if a profile is configured; only a screenshot it warned about *)
(* may be missing.  The post-render hook of a report was given that final  *)
(* file, and the build log lists no artefact that is not finished.         *)
Delivered ==
  /\ result = "ok" =>
       \A a \in Artefacts :
         IF a \in Asked(manifest)
           THEN /\ out[a] = Finished(a) \/ a \in missed
                /\ a \in ToSet(Reports) => handed[a] = out[a] /\ a \in graph
           ELSE out[a] = NoFile
  /\ \A j \in DOMAIN log : out[log[j]] = Finished(log[j])

(* A page that a ref names and no manifest defines "will be caught during  *)
(* rendering" (the comment of selectLayoutPagesByRefs): a build with such  *)
(* a report does not succeed.  BuildNamedPage.cfg shows one that does.     *)
NamedPagesCaught ==
  result = "ok" /\ Asked(manifest) \cap ToSet(Reports) # {} =>
    \A j \in DOMAIN manifest.refs :
      manifest.refs[j].kind \in {"name", "params"} =>
        manifest.refs[j].names \cap ToSet(PageNames) # {}

(* However the build of a document ends, its temporary files are gone: the *)
(* comment of RenderCoverPDFs promises it for the covers.                  *)
TempsGone == ~Running => Existing = {}

(* A plugin's query sees the dataset results of the artefact that is built *)
(* when it takes them, or none; never those of the artefact before.        *)
QueryOwn ==
  [][\A q \in Queries :
       query'[q].of # query[q].of /\ query'[q].of # NoOwner
         => Building /\ query'[q].of = Current]_vars
=============================================================================
