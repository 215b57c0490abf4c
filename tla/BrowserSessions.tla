--------------------------- MODULE BrowserSessions ---------------------------
(***************************************************************************)
(* The managed browsers of the executor, auth/browser/controller.js: which *)
(* may be opened, who may use one, and when one is given up.               *)
(*                                                                         *)
(* Opening a browser takes many steps, and so does closing it; enrollments *)
(* change, requesters are revoked and the controller is stopped meanwhile. *)
(* A reservation is made before the first of these steps and is given back *)
(* after the last.  An open session has at most one user: an operation of  *)
(* its agent, the lease of an authentication, or the lease of a takeover   *)
(* by the owner.  What a user has begun goes on after its lease is lost.   *)
(*                                                                         *)
(* Left out: what the page shows and what an operation does to it, except  *)
(* whether something secret that was typed is still in the page.           *)
(***************************************************************************)
EXTENDS Naturals, FiniteSets

CONSTANTS
    Ids,              \* ids of sessions; the id of a closed one may return
    Requesters,
    Services,
    MaxSessions,      \* maxSessions
    MaxPerRequester,  \* maxSessionsPerRequester
    MaxChanges,       \* bound of enrollments, removals, bindings and revocations
    MaxFailures,      \* bound of failed closes
    MaxLeases         \* bound of the leases of a session

ASSUME SessionsAssumption ==
    /\ IsFiniteSet(Ids)
    /\ MaxSessions \in Nat /\ MaxPerRequester \in Nat

Own == "own"         \* the service openDiscoverySession registers for one session
Nobody == "nobody"

VARIABLES
    stopped,
    registered,   \* serviceMap: the object of a service, 0 when there is none
    changes,      \* the objects made so far
    reservations,
    stage,        \* stage[i]: where the browser of i stands
    owner,
    service,      \* service[i]: the service of i and the object it was made from
    cancelled,    \* reservations with a cancelCode
    operation,    \* the agent's operation under way
    lease,        \* the lease of a session, 0 when it has none
    leases,       \* leases a session has had
    takeover,     \* sessions whose lease is a takeover
    busy,         \* sessions with an operation of a takeover under way
    sending,      \* <<session, lease>> that is about to type something
    quarantined,
    failures,
    secret,       \* history: sessions with something secret in the page
    outdated      \* history: sessions whose service or owner was retired since they began

registry == <<stopped, registered, changes>>
browser == <<reservations, stage, owner, service, cancelled, outdated>>
use == <<operation, lease, leases, takeover, busy, sending, quarantined, secret>>
vars == <<registry, browser, use, failures>>

Init ==
    /\ stopped = FALSE
    /\ registered = [s \in Services |-> 1] /\ changes = 1
    /\ reservations = {} /\ cancelled = {} /\ outdated = {}
    /\ stage = [i \in Ids |-> "none"]
    /\ owner = [i \in Ids |-> Nobody]
    /\ service = [i \in Ids |-> <<Own, 0>>]
    /\ operation = [i \in Ids |-> "none"]
    /\ lease = [i \in Ids |-> 0] /\ leases = [i \in Ids |-> 0]
    /\ takeover = {} /\ busy = {} /\ sending = {}
    /\ quarantined = {}
    /\ failures = 0
    /\ secret = {}

Opening == {i \in Ids : stage[i] \in {"launching", "starting"}}
Closing == {i \in Ids : stage[i] = "unclosed"}   \* closingSessions at rest
Usable == {i \in Ids : stage[i] = "open"}
Free(i) == i \in Usable /\ lease[i] = 0 /\ operation[i] = "none"

-----------------------------------------------------------------------------
(* Closing.                                                                 *)

\* closeAll(values): each is unpublished at once, its lease aborted, its browser told
\* to close; the reservation stays until that has succeeded.
CloseAll(closed) ==
    /\ stage' = [i \in Ids |-> IF i \in closed THEN "closing" ELSE stage[i]]
    /\ operation' = [i \in Ids |-> IF i \in closed THEN "none" ELSE operation[i]]
    /\ lease' = [i \in Ids |-> IF i \in closed THEN 0 ELSE lease[i]]
    /\ takeover' = takeover \ closed /\ busy' = busy \ closed
    /\ sending' = {x \in sending : x[1] \notin closed}
    /\ quarantined' = quarantined \ closed /\ secret' = secret \ closed
    /\ UNCHANGED <<leases, reservations>>

GiveBack(i) ==
    /\ stage' = [stage EXCEPT ![i] = "none"]
    /\ reservations' = reservations \ {i}
    /\ cancelled' = cancelled \ {i} /\ outdated' = outdated \ {i}
    /\ owner' = [owner EXCEPT ![i] = Nobody]
    /\ service' = [service EXCEPT ![i] = <<Own, 0>>]

\* session.browser.close() succeeds: the process has exited.
Closed(i) ==
    /\ stage[i] = "closing"
    /\ GiveBack(i)
    /\ leases' = [leases EXCEPT ![i] = 0]
    /\ UNCHANGED <<registry, operation, lease, takeover, busy,
                   sending, quarantined, secret, failures>>

\* Mutant of CloseFails: the reservation is given back whatever became of the close.
CloseFailsFreed(i) ==
    /\ stage[i] = "closing" /\ failures < MaxFailures
    /\ failures' = failures + 1
    /\ stage' = [stage EXCEPT ![i] = "unclosed"]
    /\ reservations' = reservations \ {i}
    /\ UNCHANGED <<registry, owner, service, cancelled, outdated, use>>

\* The process lives on, and so does the reservation.
CloseFails(i) ==
    /\ stage[i] = "closing" /\ failures < MaxFailures
    /\ failures' = failures + 1
    /\ stage' = [stage EXCEPT ![i] = "unclosed"]
    /\ UNCHANGED <<registry, reservations, owner, service, cancelled, outdated, use>>

\* The reaper closes what has been idle for too long and tries the failed closes again.
Reap ==
    /\ ~stopped
    /\ \E idle \in SUBSET {i \in Ids : Free(i)} :
         /\ idle \cup Closing # {}
         /\ CloseAll(idle \cup Closing)
    /\ UNCHANGED <<registry, owner, service, cancelled, outdated, failures>>

-----------------------------------------------------------------------------
(* Changes of the enrollments, requesters and the controller.               *)

\* cancelReservations, then closeAll of the sessions published or closing.
Retire(selected) ==
    /\ cancelled' = cancelled \cup (Opening \cap selected)
    /\ outdated' = outdated \cup {i \in selected : stage[i] # "none"}
    /\ CloseAll(selected \cap (Usable \cup Closing))
    /\ UNCHANGED <<owner, service, failures>>

Of(s) == {i \in Ids : service[i][1] = s}

SetService(s) ==
    /\ changes < MaxChanges
    /\ changes' = changes + 1
    /\ registered' = [registered EXCEPT ![s] = changes + 1]
    /\ Retire(Of(s))
    /\ UNCHANGED stopped

RemoveService(s) ==
    /\ changes < MaxChanges
    /\ changes' = changes + 1
    /\ registered' = [registered EXCEPT ![s] = 0]
    /\ Retire(Of(s))
    /\ UNCHANGED stopped

\* requesterRevisions moves exactly when the reservations are cancelled.
CloseRequester(r) ==
    /\ changes < MaxChanges
    /\ changes' = changes + 1
    /\ Retire({i \in Ids : owner[i] = r})
    /\ UNCHANGED <<stopped, registered>>

Close ==
    /\ stopped' = TRUE
    /\ Retire(Ids)
    /\ UNCHANGED <<registered, changes>>

-----------------------------------------------------------------------------
(* Opening.                                                                 *)

Full(r) ==
    \/ Cardinality(reservations) >= MaxSessions
    \/ Cardinality({i \in reservations : owner[i] = r}) >= MaxPerRequester

\* openSession up to launchBrowser; openDiscoverySession registers its own service first.
Open(i, r, s) ==
    /\ ~stopped
    /\ i \notin reservations /\ stage[i] = "none"
    /\ s # Own => registered[s] # 0
    /\ ~Full(r)
    /\ reservations' = reservations \cup {i}
    /\ stage' = [stage EXCEPT ![i] = "launching"]
    /\ owner' = [owner EXCEPT ![i] = r]
    /\ service' = [service EXCEPT ![i] = <<s, IF s = Own THEN 0 ELSE registered[s]>>]
    /\ UNCHANGED <<registry, cancelled, outdated, use, failures>>

\* Mutant of Current: nothing is checked again before the session is published.
CurrentAlways(i) == TRUE

\* assertReservation, and the last checks before the session is published.
Current(i) ==
    /\ i \notin cancelled /\ ~stopped
    /\ service[i][1] # Own => registered[service[i][1]] = service[i][2]

\* A cancelled launch may still hand over its browser: the signal is checked before and
\* after, not during, each of its steps.
Launched(i) ==
    /\ stage[i] = "launching"
    /\ stage' = [stage EXCEPT ![i] = "starting"]
    /\ UNCHANGED <<registry, reservations, owner, service, cancelled, outdated, use, failures>>

LaunchFails(i) ==
    /\ stage[i] = "launching"
    /\ GiveBack(i)
    /\ UNCHANGED <<registry, use, failures>>

\* The page of the session is set up, navigated and inspected; then it is published.
Publish(i) ==
    /\ stage[i] = "starting"
    /\ Current(i)
    /\ stage' = [stage EXCEPT ![i] = "open"]
    /\ UNCHANGED <<registry, reservations, owner, service, cancelled, outdated, use, failures>>

\* A step of the setup fails, or a check finds a change: the browser is closed.
OpenFails(i) ==
    /\ stage[i] = "starting"
    /\ CloseAll({i})
    /\ UNCHANGED <<registry, owner, service, cancelled, outdated, failures>>

-----------------------------------------------------------------------------
(* The agent.                                                               *)

\* agentOperation: inspectSession and closeSession are allowed in quarantine.
BeginOperation(i) ==
    /\ Free(i)
    /\ \E kind \in IF i \in quarantined THEN {"inspect"} ELSE {"inspect", "act", "bind"} :
         operation' = [operation EXCEPT ![i] = kind]
    /\ UNCHANGED <<registry, browser, lease, leases, takeover, busy, sending,
                   quarantined, secret, failures>>

EndOperation(i) ==
    /\ operation[i] # "none"
    /\ operation' = [operation EXCEPT ![i] = "none"]
    /\ UNCHANGED <<registry, browser, lease, leases, takeover, busy, sending,
                   quarantined, secret, failures>>

\* bindDiscoveredAccount: the discovery session becomes a session of service s, whose
\* new object replaces the one that was registered.
Bind(i, s) ==
    /\ operation[i] = "bind" /\ service[i][1] = Own
    /\ changes < MaxChanges
    /\ changes' = changes + 1
    /\ registered' = [registered EXCEPT ![s] = changes + 1]
    /\ service' = [service EXCEPT ![i] = <<s, changes + 1>>]
    /\ operation' = [operation EXCEPT ![i] = "none"]
    /\ UNCHANGED <<stopped, reservations, stage, owner, cancelled, outdated, lease, leases,
                   takeover, busy, sending, quarantined, secret, failures>>

CloseSession(i) ==
    /\ Free(i)
    /\ CloseAll({i})
    /\ UNCHANGED <<registry, owner, service, cancelled, outdated, failures>>

\* Inspector.targetCrashed.
Crashed(i) ==
    /\ i \in Usable
    /\ quarantined' = quarantined \cup {i}
    /\ UNCHANGED <<registry, browser, operation, lease, leases, takeover, busy, sending,
                   secret, failures>>

-----------------------------------------------------------------------------
(* Leases.                                                                  *)

NewLease(i) ==
    /\ Free(i) /\ leases[i] < MaxLeases
    /\ leases' = [leases EXCEPT ![i] = @ + 1]
    /\ lease' = [lease EXCEPT ![i] = leases[i] + 1]

\* withAuthenticationLease: a quarantined session may be authenticated again.
BeginAuthentication(i) ==
    /\ NewLease(i)
    /\ UNCHANGED <<registry, browser, operation, takeover, busy, sending, quarantined,
                   secret, failures>>

\* startTakeover; its first inspection may fail and release it (Expire).
StartTakeover(i) ==
    /\ NewLease(i)
    /\ takeover' = takeover \cup {i}
    /\ quarantined' = quarantined \cup {i}
    /\ UNCHANGED <<registry, browser, operation, busy, sending, secret, failures>>

\* takeoverOperation, and a step of fillFlow: the page is looked at, and after an await
\* the text is sent.
BeginTyping(i) ==
    /\ lease[i] # 0
    /\ IF i \in takeover THEN i \notin busy /\ busy' = busy \cup {i}
                         ELSE <<i, lease[i]>> \notin sending /\ UNCHANGED busy
    /\ sending' = sending \cup {<<i, lease[i]>>}
    /\ UNCHANGED <<registry, browser, operation, lease, leases, takeover, quarantined,
                   secret, failures>>

\* Mutant of MaySend: a command is sent whether or not its lease is still held.
MaySendLate(i, l) == i \in Usable

\* The command carries the signal of its lease, and is not sent once it is aborted.
MaySend(i, l) == lease[i] = l

\* An authentication quarantines the session before it types; a takeover did at its start.
Type(i, l) ==
    /\ <<i, l>> \in sending
    /\ sending' = sending \ {<<i, l>>}
    /\ IF MaySend(i, l)
       THEN /\ secret' = secret \cup {i}
            /\ quarantined' = IF i \in takeover THEN quarantined ELSE quarantined \cup {i}
       ELSE UNCHANGED <<secret, quarantined>>
    /\ busy' = IF lease[i] = l THEN busy \ {i} ELSE busy
    /\ UNCHANGED <<registry, browser, operation, lease, leases, takeover, failures>>

\* releaseTakeover, and the end of withAuthenticationLease.
ReleaseLease(i) ==
    /\ lease' = [lease EXCEPT ![i] = 0]
    /\ takeover' = takeover \ {i} /\ busy' = busy \ {i}

\* The lease's time is over, its signal is aborted or the takeover is cancelled.
Expire(i) ==
    /\ lease[i] # 0
    /\ ReleaseLease(i)
    /\ quarantined' = quarantined \cup {i}
    /\ UNCHANGED <<registry, browser, operation, leases, sending, secret, failures>>

\* The login is confirmed: verifySuccess, or the page finishTakeover looks at.  The fields
\* are cleared while the lease is held, and the quarantine ends with it.
Confirm(i) ==
    /\ lease[i] # 0 /\ i \notin busy /\ <<i, lease[i]>> \notin sending
    /\ ReleaseLease(i)
    /\ secret' = secret \ {i}
    /\ quarantined' = quarantined \ {i}
    /\ UNCHANGED <<registry, browser, operation, leases, sending, failures>>

\* withAuthenticationLease ends without success, and without an abort.
Unconfirmed(i) ==
    /\ lease[i] # 0 /\ i \notin takeover /\ <<i, lease[i]>> \notin sending
    /\ ReleaseLease(i)
    /\ UNCHANGED <<registry, browser, operation, leases, sending, quarantined, secret,
                   failures>>

-----------------------------------------------------------------------------
Next ==
    \/ \E s \in Services : SetService(s) \/ RemoveService(s)
    \/ \E r \in Requesters : CloseRequester(r)
    \/ Close \/ Reap
    \/ \E i \in Ids :
         \/ \E r \in Requesters, s \in Services \cup {Own} : Open(i, r, s)
         \/ Launched(i) \/ LaunchFails(i) \/ Publish(i) \/ OpenFails(i)
         \/ Closed(i) \/ CloseFails(i)
         \/ BeginOperation(i) \/ EndOperation(i) \/ CloseSession(i) \/ Crashed(i)
         \/ \E s \in Services : Bind(i, s)
         \/ BeginAuthentication(i) \/ StartTakeover(i) \/ BeginTyping(i)
         \/ \E l \in 1..MaxLeases : Type(i, l)
         \/ Expire(i) \/ Confirm(i) \/ Unconfirmed(i)

Spec == Init /\ [][Next]_vars

-----------------------------------------------------------------------------
(* Properties.                                                              *)

\* Every variable keeps its type.
TypeOK ==
    /\ stopped \in BOOLEAN
    /\ registered \in [Services -> Nat] /\ changes \in Nat
    /\ reservations \subseteq Ids /\ cancelled \subseteq Ids /\ outdated \subseteq Ids
    /\ stage \in [Ids -> {"none", "launching", "starting", "open", "closing", "unclosed"}]
    /\ owner \in [Ids -> Requesters \cup {Nobody}]
    /\ service \in [Ids -> (Services \cup {Own}) \X Nat]
    /\ operation \in [Ids -> {"none", "inspect", "act", "bind"}]
    /\ lease \in [Ids -> Nat] /\ leases \in [Ids -> Nat]
    /\ takeover \subseteq Ids /\ busy \subseteq Ids
    /\ sending \subseteq Ids \X Nat
    /\ quarantined \subseteq Ids /\ secret \subseteq Ids
    /\ failures \in Nat

\* A browser process exists from its launch until a close of it has succeeded.
Running == {i \in Ids : stage[i] # "none"}

\* Browsers that open, that close and that could not be closed are counted: however
\* these overlap, no more run than the limits allow.
WithinCapacity ==
    /\ Cardinality(Running) <= MaxSessions
    /\ \A r \in Requesters : Cardinality({i \in Running : owner[i] = r}) <= MaxPerRequester

\* A service that is replaced or removed, a requester that is revoked and a controller
\* that stops take their browsers along, at whatever step of its opening a browser is,
\* and a published session is of a service that is registered.
PublishedIsCurrent ==
    /\ Usable \cap outdated = {}
    /\ \A i \in Usable : service[i][1] # Own => registered[service[i][1]] # 0

\* Once a lease is gone, however it was lost, the agent can not act on a page that
\* still holds what the lease typed.
QuarantineHolds ==
    \A i \in secret : lease[i] = 0 => i \in quarantined /\ operation[i] \notin {"act", "bind"}
=============================================================================
