---------------------------- MODULE MCAuthBroker ----------------------------
EXTENDS AuthBroker, TLC

CONSTANTS r1, r2, s1

MCSymmetry == Permutations(Rows)

\* A request has its credentials typed once, in the only ceremony of its page
\* (auth/broker.js).
TypedOnceAlone == TypedOnce /\ OneCeremony
=============================================================================
