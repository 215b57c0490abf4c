-------------------------- MODULE MCCommandJournal --------------------------
EXTENDS CommandJournal
=============================================================================
