--------------------------- MODULE MCAnchorIndex ---------------------------
(* Two anchors, pages of one transaction, and room for a reorganisation that  *)
(* reaches blocks a running scan has already read.                            *)
EXTENDS AnchorIndex

CONSTANTS t1, t2
=============================================================================
