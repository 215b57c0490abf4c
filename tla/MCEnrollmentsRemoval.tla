------------------------ MODULE MCEnrollmentsRemoval ------------------------
EXTENDS Enrollments, TLC

CONSTANTS x1, x2

MCSymmetry == Permutations(Sessions)
=============================================================================
