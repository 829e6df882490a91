-------------------------- MODULE MCPreviewRefresh --------------------------
(* A project of five documents: a report on a page with a table and a style, *)
(* and a document that embeds the same table.                                *)
EXTENDS PreviewRefresh, TLC

CONSTANTS fSales, fGuide, fTable, fStyle, sales, guide, summary, table, style

\* The style has a file of its own ...
HomeApart == sales :> fSales @@ summary :> fSales @@ guide :> fGuide
             @@ table :> fTable @@ style :> fStyle
\* ... or shares one with the document, which does not use it.
HomeShared == [HomeApart EXCEPT ![style] = fGuide]

MCUses == sales :> {summary, table, style} @@ guide :> {table}

=============================================================================
