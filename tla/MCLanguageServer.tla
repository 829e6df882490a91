--------------------------- MODULE MCLanguageServer ---------------------------
(* One buffer that is opened, edited and closed, two overlapping analyses,   *)
(* and one project refresh.                                                  *)
EXTENDS LanguageServer

CONSTANTS page, r1, r2, k1
=============================================================================
