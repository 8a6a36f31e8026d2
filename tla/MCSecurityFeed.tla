--------------------------- MODULE MCSecurityFeed ---------------------------
(* Two organisations; the buffer holds fewer events than are published.    *)
EXTENDS SecurityFeed

CONSTANTS acme, borealis
=============================================================================
