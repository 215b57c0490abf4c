---------------------------- MODULE MCExtensions ----------------------------
(***************************************************************************)
(* The two browser extensions in one model: the passkey session with its   *)
(* hub, and automatic sync.  They share no state, so each is followed by   *)
(* itself.  part says which; the variables of the other stay as they were  *)
(* initially.                                                              *)
(***************************************************************************)
EXTENDS Passkeys

CONSTANTS c1, c2, a1, a2, Slots, MaxChanges, MaxStops, MaxFails

VARIABLES
    part,
    jar, pendingSync, coalesceScheduled, throttled, coalesce, periodic, task, early,
    target, collected, stops, fails

syncVars == <<jar, pendingSync, coalesceScheduled, throttled, coalesce, periodic, task, early,
              target, collected, stops, fails>>

Sync == INSTANCE AutoSync WITH Sinks <- <<"local-chrome", "browser-use">>

MCInit == part \in {"passkeys", "sync"} /\ Init /\ Sync!Init

MCNext ==
    \/ part = "passkeys" /\ Next /\ UNCHANGED <<part, syncVars>>
    \/ part = "sync" /\ Sync!Next /\ UNCHANGED <<part, vars>>

\* Passkeys!Fairness and AutoSync!Fairness, of the part that is followed.
MCFairness ==
    /\ WF_vars(part = "passkeys" /\ (SendGet \/ LookFails))
    /\ WF_vars(part = "passkeys" /\ SenderTimesOut)
    /\ WF_vars(part = "passkeys" /\ HubCancels)
    /\ WF_vars(part = "passkeys" /\ ReceiverTimesOut)
    /\ \A i \in Slots : WF_syncVars(part = "sync" /\ Sync!Step(i))
    /\ SF_syncVars(part = "sync" /\ \E i \in Slots : Sync!Periodic(i))

MCSpec == MCInit /\ [][MCNext]_<<part, vars, syncVars>> /\ MCFairness

-----------------------------------------------------------------------------
(* Properties of Passkeys that belong together, and those of AutoSync.      *)

\* A request that comes to the hub or to the page of the receiver finds nothing in its way
\* (auth/passkeys/hub.js, auth/passkeys/extension/runtime.js).
NothingInTheWay == NeverConflicts /\ PageIsFree

\* While the service worker runs, no change of a cookie waits for the periodic alarm
\* (src/background.js).
ChangeNotForgotten == Sync!ChangeNotForgotten

\* Every sink ends up with the last cookies (src/background.js, src/engine.js).
EventuallyPublished == Sync!EventuallyPublished
=============================================================================
