--------------------------- MODULE MCEditorSession ---------------------------
(* A page and the file its data source names; nothing is open in the editor, *)
(* or the page with the text it was opened with.                             *)
EXTENDS EditorSession

CONSTANTS page, sales, r1, r2, k1, k2
=============================================================================
