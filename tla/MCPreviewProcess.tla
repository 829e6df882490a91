-------------------------- MODULE MCPreviewProcess --------------------------
(* One preview and the one that is started behind it.                        *)
EXTENDS PreviewProcess

CONSTANTS c1, c2
=============================================================================
