--------------------------- MODULE MCReceiverSync ---------------------------
EXTENDS ReceiverSync

CONSTANTS c1, c2, v1, v2
=============================================================================
