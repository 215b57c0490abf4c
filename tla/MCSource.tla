------------------------------ MODULE MCSource ------------------------------
(***************************************************************************)
(* What the source does, in one model: publishing (SourcePublish), its     *)
(* session cookies (SourceRecovery) and the pairing of receivers           *)
(* (Pairing).  They share no state but what the second hands to the first  *)
(* and what Approve and Revoke of the first stand for, so each is followed *)
(* by itself.  part says which; the variables of the others stay as they   *)
(* were initially.                                                         *)
(***************************************************************************)
EXTENDS SourcePublish, TLC

CONSTANTS
    d1, d2, s1, s2,
    Cookies, SessionCookies, Values, NoCookie, SnapshotTtl, RecoveryTime, MaxBrowser,
    i1, i2, i3, p1, p2, p3,
    Invites, Receivers, MaxLive, MaxPaired, InviteTtl, PairingTime

VARIABLES
    part,
    clock, jar, browser, recovery, step, began, client, raw, collected, owed, loggedOut,
    restores,
    time, created, issued, channels, outbox, requests, activations, phase, asked, waiting,
    expelled, granted

recoveryVars == <<clock, jar, browser, recovery, step, began, client, raw, collected, owed,
                  loggedOut, restores>>
pairingVars == <<time, created, issued, channels, outbox, requests, activations, phase, asked,
                 waiting, expelled, granted>>

Recovery == INSTANCE SourceRecovery WITH
    now <- clock, pc <- step, at <- began, MaxTime <- RecoveryTime
Ceremony == INSTANCE Pairing WITH
    now <- time, pending <- waiting, revoked <- expelled,
    Devices <- Receivers, MaxTime <- PairingTime

ASSUME RecoveryAssumption ==
    /\ SessionCookies \subseteq Cookies
    /\ NoCookie \notin Values
    /\ SnapshotTtl \in Nat
    /\ None \notin Recovery!Backup

MCInit ==
    /\ part \in {"publish", "recovery", "pairing"}
    /\ Init /\ Recovery!Init /\ Ceremony!Init

MCNext ==
    \/ part = "publish" /\ Next /\ UNCHANGED <<part, recoveryVars, pairingVars>>
    \/ part = "recovery" /\ Recovery!Next /\ UNCHANGED <<part, vars, pairingVars>>
    \/ part = "pairing" /\ Ceremony!Next /\ UNCHANGED <<part, vars, recoveryVars>>

MCSpec == MCInit /\ [][MCNext]_<<part, vars, recoveryVars, pairingVars>>

MCSymmetry ==
    Permutations(Devices) \cup Permutations(Contents)
      \cup Permutations(Invites) \cup Permutations(Receivers)

-----------------------------------------------------------------------------
(* Properties of the other two, under their own names.                      *)

\* A restart of Chrome is no logout (cli/sync.js, restoring session cookies).
RestartIsNoLogout == Recovery!RestartIsNoLogout

\* A logout the source has seen stands (cli/sync.js, restoring session cookies).
LogoutStands == Recovery!LogoutStands

\* Pairing lets nobody in twice, unapproved or after a revocation (cli/pairing.js).
PairingIsExclusive == Ceremony!PairingIsExclusive
=============================================================================
