-------------------------- MODULE MCBrowserSessions --------------------------
(***************************************************************************)
(* The browsers of the executor, in one model: the managed ones            *)
(* (BrowserSessions) and that of the passkey receiver (PasskeyReceiver).   *)
(* They share no state, so each is followed by itself.  part says which;   *)
(* the variables of the other stay as they were initially.                 *)
(***************************************************************************)
EXTENDS BrowserSessions, TLC

CONSTANTS
    i1, i2, i3, a1, a2, a3, s1,
    Sessions, MaxLosses

VARIABLES
    part,
    call, active, preparing, closed, releasing, cleanup, starting, receiver, ready, losses,
    faults

receiverVars == <<call, active, preparing, closed, releasing, cleanup, starting, receiver,
                  ready, losses, faults>>

Receiver == INSTANCE PasskeyReceiver WITH failures <- faults

\* Ids of sessions are no words of call.
ASSUME ReceiverAssumption ==
    Sessions \cap {"none", "making", "starting", "failing", "unwinding", "done"} = {}

MCInit ==
    /\ part \in {"browsers", "receiver"}
    /\ Init /\ Receiver!Init

MCNext ==
    \/ part = "browsers" /\ Next /\ UNCHANGED <<part, receiverVars>>
    \/ part = "receiver" /\ Receiver!Next /\ UNCHANGED <<part, vars>>

MCSpec == MCInit /\ [][MCNext]_<<part, vars, receiverVars>>

MCSymmetry == Permutations(Ids) \cup Permutations(Requesters)

-----------------------------------------------------------------------------
(* A property of both.                                                      *)

\* Browsers stay within their limits, and one Chrome at a time is on the receiver's profile
\* (auth/browser/controller.js, auth/passkeys/provider.js).
WithinLimits == WithinCapacity /\ Receiver!OneReceiver
=============================================================================
