---------------------------- MODULE MCCookieSync ----------------------------
EXTENDS CookieSync

CONSTANTS c1, c2, v1, r1
=============================================================================
