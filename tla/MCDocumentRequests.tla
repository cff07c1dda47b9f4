------------------------- MODULE MCDocumentRequests -------------------------
(* Small instances of DocumentRequests.                                    *)
EXTENDS DocumentRequests, TLC
=============================================================================
