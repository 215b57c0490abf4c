-------------------------- MODULE MCSourceRecovery --------------------------
EXTENDS SourceRecovery

CONSTANTS c1, c2, v1, v2
=============================================================================
