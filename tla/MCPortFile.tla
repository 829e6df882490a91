----------------------------- MODULE MCPortFile -----------------------------
(* Three daemons in a row, the editor that starts them and one language      *)
(* server that looks for them.                                               *)
EXTENDS PortFile

CONSTANTS d1, d2, d3, lsp
=============================================================================
