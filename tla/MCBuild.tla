------------------------------ MODULE MCBuild ------------------------------
(* A report, a screenshot, a document with covers and contents, a plain    *)
(* one; r2 is a name no manifest defines; three pages, two of the same     *)
(* name, in two formats; page 3 is one that a ref names and nobody wrote.  *)
EXTENDS Build

CONSTANTS r1, r2, s1, d1, d2

MCReports == <<r1>>
MCShots == <<s1>>
MCDocuments == <<d1, d2>>
MCOwners == {r1, s1, d1, d2}
MCPageNames == <<2, 1, 2>>
MCPageFormats == <<"a4", "xga", "xga">>

AllPages == [kind |-> "all", names |-> {1, 2}]
Glob == [kind |-> "glob", names |-> {1, 2}]
Page(n) == [kind |-> "name", names |-> {n}]
WithParams(n) == [kind |-> "params", names |-> {n}]

RefLists == {<<>>, <<AllPages>>, <<Page(1)>>, <<Page(2), Glob, Page(3)>>,
             <<Glob, WithParams(1), WithParams(1)>>, <<WithParams(2), Page(2)>>}
Verdicts == [1 .. 3 -> {"in", "out", "error"}]
Lists == {<<>>, <<d1, s1, d1, r1>>, <<r2>>}

MCManifests ==
  {[include |-> <<r1>>, exclude |-> {}, profile |-> TRUE, refs |-> refs, verdict |-> v,
    format |-> format] :
     refs \in RefLists, v \in Verdicts, format \in {"xga", "pdf"}}
  \cup
  {[include |-> list, exclude |-> skip, profile |-> has, refs |-> <<>>,
    verdict |-> <<"in", "in", "out">>, format |-> "a4"] :
     list \in Lists, skip \in {{}, {r1}, {d1}}, has \in BOOLEAN}

\* A fact about the selection of pages, for the manifests of this instance.
ASSUME PagesAssumption == PagesRight
=============================================================================
