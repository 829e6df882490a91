------------------------------ MODULE Preview ------------------------------
(***************************************************************************)
(* What `bino preview` promises of its pages at least, whatever is saved   *)
(* and whatever fails.  The files change on their own.  A load takes every *)
(* document in some version its file has had, none older than in the load  *)
(* before.  Pages are made of the last load: they are sent to the clients  *)
(* one by one and put under their routes together.  A full refresh leaves  *)
(* the pages of one load and nothing else, a partial one replaces some.    *)
(* No page goes back to an older version of a document or of the plugin.   *)
(***************************************************************************)
EXTENDS Naturals

CONSTANTS
    Docs,       \* documents; a version is a number, 0 where there is none
    Artefacts,  \* those with a page of their own
    Root,       \* the page of all pages
    Reads(_),   \* the documents a page is made of
    Partial,    \* a refresh may replace some pages only
    Skipped     \* artefacts that a full refresh may leave out

VARIABLES
    files,    \* the versions in the files
    project,  \* the versions of the last load
    plugin,   \* the loaded plugin, 0 for none
    pages,    \* the pages under the routes
    sent      \* the pages that were sent last

vars == <<files, project, plugin, pages, sent>>

Contents == [Docs -> Nat]
NoPages == [p \in {} |-> 0]

Init ==
    /\ files \in Contents
    /\ project = [d \in Docs |-> 0]
    /\ plugin \in Nat
    /\ pages = NoPages /\ sent = NoPages

\* Version w is v or a later one, or there is none any more.
Follows(w, v) == w = 0 \/ v <= w

\* A file is saved or deleted.
Edit ==
    /\ files' \in Contents
    /\ \A d \in Docs : Follows(files'[d], files[d])
    /\ UNCHANGED <<project, plugin, pages, sent>>

\* The documents are loaded.
Load ==
    /\ project' \in Contents
    /\ \A d \in Docs : Follows(project'[d], project[d]) /\ Follows(files[d], project'[d])
    /\ UNCHANGED <<files, plugin, pages, sent>>

\* The plugin is loaded, or fails to.
LoadPlugin ==
    /\ plugin' \in Nat
    /\ Follows(plugin', plugin)
    /\ UNCHANGED <<files, project, pages, sent>>

Content(p) == [docs |-> [d \in Reads(p) |-> project[d]], plugin |-> plugin]
PagesOf(S) == [p \in S |-> Content(p)]
Replaced(old, new) ==
    [p \in DOMAIN old \cup DOMAIN new |-> IF p \in DOMAIN new THEN new[p] ELSE old[p]]

Defined == {a \in Artefacts : project[a] # 0}

\* The plugin works, and neither it nor the project is older than what was shown.
Forward(table) ==
    /\ plugin # 0
    /\ \A p \in DOMAIN table :
         /\ table[p].plugin <= plugin
         /\ \A d \in Reads(p) : Follows(project[d], table[p].docs[d])

\* The clients are sent one page.
Send(p) ==
    /\ Forward(sent)
    /\ sent' = Replaced(sent, PagesOf({p}))
    /\ UNCHANGED <<files, project, plugin, pages>>

\* The routes are set.
ShowAll(S) ==
    /\ Defined \ Skipped \subseteq S
    /\ pages' = PagesOf(S)

ShowSome(S) ==
    /\ Partial
    /\ pages' = Replaced(pages, PagesOf(S))

Show ==
    /\ Forward(pages)
    /\ \E S \in SUBSET Defined : ShowAll(S) \/ ShowSome(S)
    /\ UNCHANGED <<files, project, plugin, sent>>

Next ==
    \/ Edit \/ Load \/ LoadPlugin \/ Show
    \/ \E p \in Defined \cup {Root} : Send(p)

Spec == Init /\ [][Next]_vars
=============================================================================
