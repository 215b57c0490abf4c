--------------------------- MODULE PasskeyReceiver ---------------------------
(***************************************************************************)
(* The receiver of passkeys, auth/passkeys/provider.js: one Chrome on one  *)
(* persistent profile, which is opened for one session of the executor at  *)
(* a time, opened again when its extension is lost, and closed with the    *)
(* session.                                                                *)
(*                                                                         *)
(* Opening and closing take many steps, in which sessions are prepared,    *)
(* released and the provider is closed.  `await releasing` is a step of    *)
(* its own only while something is being released: an await of nothing     *)
(* resumes before any further event is handled.                            *)
(***************************************************************************)
EXTENDS Naturals

CONSTANTS
    Sessions,     \* the sessions a passkey service is opened for; their ids never return
    MaxLosses,    \* bound of the times the receiver's extension or browser is lost
    MaxFailures   \* bound of failed closes of a browser

None == "none"

VARIABLES
    call,       \* call[e]: where prepareProfile of session e stands
    active,     \* the session the receiver is open for
    preparing, closed,
    releasing,  \* the session whose release is the latest under way
    cleanup,    \* cleanup[e]: where the release of e stands
    starting,   \* starting[e]: where ensureReceiver of e stands
    receiver,   \* receiver[e]: the browser of entry e
    ready,      \* sessions whose receiver extension is connected to the hub
    losses, failures

vars == <<call, active, preparing, closed, releasing, cleanup, starting, receiver, ready,
          losses, failures>>

Init ==
    /\ call = [e \in Sessions |-> "none"]
    /\ active = None /\ releasing = None
    /\ preparing = FALSE /\ closed = FALSE
    /\ cleanup = [e \in Sessions |-> "none"]
    /\ starting = [e \in Sessions |-> "no"]
    /\ receiver = [e \in Sessions |-> "none"]
    /\ ready = {}
    /\ losses = 0 /\ failures = 0

Started(e, s) == starting' = [starting EXCEPT ![e] = s]
Called(e, s) == call' = [call EXCEPT ![e] = s]

-----------------------------------------------------------------------------
(* releaseSession                                                           *)

BeginRelease(e) ==
    /\ active' = None /\ releasing' = e
    /\ ready' = ready \ {e}
    /\ cleanup' = [cleanup EXCEPT ![e] = "waiting"]

\* The sender disconnects or does not come in time, the session is closed, or its service
\* is changed.
Release(e) ==
    /\ active = e
    /\ BeginRelease(e)
    /\ UNCHANGED <<call, preparing, closed, starting, receiver, losses, failures>>

\* Mutant of StartIsOver: the release does not wait for a start of the receiver.
StartIsNotAwaited(e) == TRUE

\* entry.starting is awaited before entry.receiver is looked at.
StartIsOver(e) == starting[e] = "no"

CloseReceiver(e) ==
    /\ cleanup[e] = "waiting" /\ StartIsOver(e)
    /\ cleanup' = [cleanup EXCEPT ![e] = "closing"]
    /\ UNCHANGED <<call, active, preparing, closed, releasing, starting, receiver, ready,
                   losses, failures>>

Eligible == ~closed /\ ~preparing /\ active = None

\* The calls of prepareProfile that awaited the release of e go on, before any further
\* event: the first may enter, and a release that failed fails them all.
Resume(e, failed) ==
    LET waiting == {w \in Sessions : call[w] = e}
        Over(first) == [w \in Sessions |-> IF w \notin waiting THEN call[w]
                                          ELSE IF w = first THEN "making" ELSE "done"]
    IN IF waiting # {} /\ ~failed /\ Eligible
       THEN \E first \in waiting : call' = Over(first) /\ preparing' = TRUE
       ELSE call' = Over(None) /\ UNCHANGED preparing

\* A browser that would not close is forgotten, like one that did.
Released(e) ==
    /\ cleanup[e] = "closing"
    /\ cleanup' = [cleanup EXCEPT ![e] = "none"]
    /\ receiver' = [receiver EXCEPT ![e] = "none"]
    /\ releasing' = IF releasing = e THEN None ELSE releasing
    /\ \/ Resume(e, FALSE) /\ UNCHANGED failures
       \/ /\ receiver[e] = "running" /\ failures < MaxFailures
          /\ failures' = failures + 1
          /\ Resume(e, TRUE)
    /\ UNCHANGED <<active, closed, starting, ready, losses>>

-----------------------------------------------------------------------------
(* ensureReceiver                                                           *)

\* A browser of the entry is closed first, whether or not it still runs.
FirstStep(e) == IF receiver[e] = "none" THEN "launching" ELSE "closing"

\* useFactors: the receiver was lost since the session was prepared.
Ensure(e) ==
    /\ active = e /\ ~closed /\ e \notin ready /\ starting[e] = "no"
    /\ Started(e, FirstStep(e))
    /\ UNCHANGED <<call, active, preparing, closed, releasing, cleanup, receiver, ready,
                   losses, failures>>

\* The start is over, with an error: prepareProfile, if it waits for it, gives up.
StartThrows(e) ==
    /\ Started(e, "no")
    /\ IF call[e] = "starting" THEN Called(e, "failing") ELSE UNCHANGED call

OldClosed(e) ==
    /\ starting[e] = "closing"
    /\ \/ /\ Started(e, "launching")
          /\ receiver' = [receiver EXCEPT ![e] = "none"]
          /\ UNCHANGED <<call, failures>>
       \/ /\ receiver[e] = "running" /\ failures < MaxFailures
          /\ failures' = failures + 1
          /\ StartThrows(e)
          /\ UNCHANGED receiver
    /\ UNCHANGED <<active, preparing, closed, releasing, cleanup, ready, losses>>

LaunchFails(e) ==
    /\ starting[e] = "launching"
    /\ StartThrows(e)
    /\ UNCHANGED <<active, preparing, closed, releasing, cleanup, receiver, ready,
                   losses, failures>>

\* A browser that comes too late is closed again: "Receiver startup canceled".
Launched(e) ==
    /\ starting[e] = "launching"
    /\ IF active # e \/ closed
       THEN Started(e, "discarding") /\ UNCHANGED receiver
       ELSE /\ Started(e, "connecting")
            /\ receiver' = [receiver EXCEPT ![e] = "running"]
    /\ UNCHANGED <<call, active, preparing, closed, releasing, cleanup, ready, losses, failures>>

Discarded(e) ==
    /\ starting[e] = "discarding"
    /\ StartThrows(e)
    /\ UNCHANGED <<active, preparing, closed, releasing, cleanup, receiver, ready, losses,
                   failures>>

\* The extension connects, or it does not in time, or the session is released meanwhile.
Connected(e) ==
    /\ starting[e] = "connecting"
    /\ \/ /\ active = e /\ Started(e, "no")
          /\ ready' = ready \cup {e}
          /\ IF call[e] = "starting" THEN Called(e, "done") /\ preparing' = FALSE
                                     ELSE UNCHANGED <<call, preparing>>
       \/ StartThrows(e) /\ UNCHANGED <<ready, preparing>>
    /\ UNCHANGED <<active, closed, releasing, cleanup, receiver, losses, failures>>

\* The receiver's extension disconnects; its browser may be gone too.
Lost(e) ==
    /\ e \in ready /\ losses < MaxLosses
    /\ losses' = losses + 1
    /\ ready' = ready \ {e}
    /\ \E r \in {"running", "gone"} : receiver' = [receiver EXCEPT ![e] = r]
    /\ UNCHANGED <<call, active, preparing, closed, releasing, cleanup, starting, failures>>

-----------------------------------------------------------------------------
(* prepareProfile                                                           *)

Enter(e) ==
    IF Eligible THEN Called(e, "making") /\ preparing' = TRUE
                ELSE Called(e, "done") /\ UNCHANGED preparing

\* Mutant of Prepare: what is being released is not awaited.
PrepareAtOnce(e) ==
    /\ call[e] = "none"
    /\ Enter(e)
    /\ UNCHANGED <<active, closed, releasing, cleanup, starting, receiver, ready, losses,
                   failures>>

\* await releasing: what was being released when it was looked at.
Prepare(e) ==
    /\ call[e] = "none"
    /\ IF releasing = None THEN Enter(e) ELSE Called(e, releasing) /\ UNCHANGED preparing
    /\ UNCHANGED <<active, closed, releasing, cleanup, starting, receiver, ready, losses,
                   failures>>

\* The bridge of the session is made; making it may fail.
Made(e) ==
    /\ call[e] = "making"
    /\ \/ /\ active' = e /\ Called(e, "starting") /\ Started(e, FirstStep(e))
       \/ Called(e, "failing") /\ UNCHANGED <<active, starting>>
    /\ UNCHANGED <<preparing, closed, releasing, cleanup, receiver, ready, losses, failures>>

\* catch: releaseSession, of which someone else may have been quicker.
Fail(e) ==
    /\ call[e] = "failing"
    /\ Called(e, "unwinding")
    /\ IF active = e THEN BeginRelease(e) ELSE UNCHANGED <<active, releasing, ready, cleanup>>
    /\ UNCHANGED <<preparing, closed, starting, receiver, losses, failures>>

Unwound(e) ==
    /\ call[e] = "unwinding" /\ cleanup[e] = "none"
    /\ Called(e, "done") /\ preparing' = FALSE
    /\ UNCHANGED <<active, closed, releasing, cleanup, starting, receiver, ready, losses,
                   failures>>

Close ==
    /\ ~closed /\ closed' = TRUE
    /\ IF active # None THEN BeginRelease(active)
                        ELSE UNCHANGED <<active, releasing, ready, cleanup>>
    /\ UNCHANGED <<call, preparing, starting, receiver, losses, failures>>

-----------------------------------------------------------------------------
Next ==
    \/ \E e \in Sessions :
         \/ Prepare(e) \/ Made(e) \/ Fail(e) \/ Unwound(e)
         \/ Ensure(e) \/ OldClosed(e) \/ LaunchFails(e) \/ Launched(e) \/ Discarded(e)
         \/ Connected(e) \/ Lost(e)
         \/ Release(e) \/ CloseReceiver(e) \/ Released(e)
    \/ Close

Spec == Init /\ [][Next]_vars

-----------------------------------------------------------------------------
(* Properties.                                                              *)

\* Every variable keeps its type.
TypeOK ==
    /\ call \in [Sessions -> {"none", "making", "starting", "failing", "unwinding", "done"}
                             \cup Sessions]
    /\ active \in Sessions \cup {None} /\ releasing \in Sessions \cup {None}
    /\ preparing \in BOOLEAN /\ closed \in BOOLEAN
    /\ cleanup \in [Sessions -> {"none", "waiting", "closing"}]
    /\ starting \in [Sessions -> {"no", "closing", "launching", "discarding", "connecting"}]
    /\ receiver \in [Sessions -> {"none", "running", "gone"}]
    /\ ready \subseteq Sessions
    /\ losses \in Nat /\ failures \in Nat

\* A Chrome is on the profile, or is being started there, for entry e.
OnProfile(e) == receiver[e] = "running" \/ starting[e] \in {"launching", "discarding"}

\* "One active receiving profile at a time": however sessions are prepared, released and
\* lost, no second Chrome is started on the profile, and each belongs to the session that
\* is active or is about to be closed.  A browser that would not close is not counted.
OneReceiver ==
    /\ \A e, f \in Sessions : OnProfile(e) /\ OnProfile(f) => e = f
    /\ \A e \in Sessions :
         OnProfile(e) =>
             /\ receiver[e] = "running" => starting[e] \notin {"launching", "discarding"}
             /\ active = e \/ cleanup[e] # "none"
=============================================================================
