------------------------- MODULE MCPreviewServices -------------------------
(* A component and a document artefact over one inline data source, asked    *)
(* for again and again.                                                      *)
EXTENDS PreviewServices

CONSTANTS chart, guide, en, de, h1
=============================================================================
