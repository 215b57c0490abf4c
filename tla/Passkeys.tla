------------------------------ MODULE Passkeys ------------------------------
(***************************************************************************)
(* One passkey session: a WebAuthn request of the agent's browser is       *)
(* answered by the owner's passkey in a receiver browser.  Three parties   *)
(* pass messages over two sockets, each in order:                          *)
(*                                                                         *)
(*    sender extension  <->  hub  <->  receiver extension  ->  page        *)
(*    extension/runtime.js   hub.js    extension/runtime.js   page.js      *)
(*                                                                         *)
(* The sender takes one request of its Chrome at a time.  The hub holds it *)
(* until a browser lease authenticates, asks whoever holds the lease twice *)
(* (before the receiver sees the request and before the sender sees the    *)
(* assertion), and handles the messages of one peer one after the other.   *)
(* The receiver runs one request in the page at a time, and a request that *)
(* was cancelled there may go on for as long as its provider likes.        *)
(*                                                                         *)
(* The sender's socket stays open here: when it closes, the hub cancels    *)
(* the session and provider.js releases it, so no sender comes back to it. *)
(***************************************************************************)
EXTENDS Naturals, Sequences, FiniteSets

CONSTANTS
    Requests,  \* requests of the agent's Chrome, each with an id of its own
    Leases,    \* authentications of the session (useFactors)
    None,
    MaxRestarts  \* bound of the restarts of the receiver browser

ASSUME PasskeysAssumption ==
    /\ None \notin Requests \cup Leases
    /\ MaxRestarts \in Nat

VARIABLES
    chrome,     \* what became of each request in the agent's Chrome
    sender,     \* the request the sender is working on
    toHub,      \* messages of the sender
    fromHub,    \* messages to the sender
    pending,    \* the hub's request
    auth,       \* the lease that authenticates, authorization.validateSession
    checks,     \* validateSession calls the hub waits for
    ready,      \* the receiver is connected
    toReceiver, fromReceiver,
    receiver,   \* the request the receiver is working on
    draining,   \* cancelled executions the receiver waits for
    page,       \* executions in the page of the receiver
    lease,      \* what became of each lease
    restarts,
    dispatched, \* history: <<request, lease>> the receiver was asked
    asserted    \* history: <<request, lease>> whose assertion went to the sender

senderVars == <<chrome, sender>>
hubVars == <<pending, auth, checks, lease, dispatched, asserted>>
receiverVars == <<receiver, draining, page, ready, restarts>>
vars == <<senderVars, toHub, fromHub, hubVars, toReceiver, fromReceiver, receiverVars>>

Idle == [id |-> None]

Init ==
    /\ chrome = [c \in Requests |-> "new"]
    /\ sender = Idle
    /\ toHub = <<>> /\ fromHub = <<>>
    /\ pending = Idle
    /\ auth = None
    /\ checks = {}
    /\ ready = TRUE
    /\ toReceiver = <<>> /\ fromReceiver = <<>>
    /\ receiver = Idle
    /\ draining = {}
    /\ page = {}
    /\ lease = [a \in Leases |-> "unused"]
    /\ restarts = 0
    /\ dispatched = {}
    /\ asserted = {}

Msg(type, id) == [type |-> type, id |-> id]

-----------------------------------------------------------------------------
(* The sender extension.                                                    *)

\* Chrome hears of a request twice: never.  "twice" is what a second answer leaves.
Answer(c, how) ==
    chrome' = [chrome EXCEPT ![c] = IF @ = "open" THEN how ELSE "twice"]

\* onGetRequest while another request is active.
Decline(c) ==
    /\ chrome[c] = "new" /\ sender # Idle
    /\ chrome' = [chrome EXCEPT ![c] = "error"]
    /\ UNCHANGED <<sender, toHub, fromHub, hubVars, toReceiver, fromReceiver, receiverVars>>

\* onGetRequest: the request is active before its document is looked up.
Take(c) ==
    /\ chrome[c] = "new" /\ sender = Idle
    /\ chrome' = [chrome EXCEPT ![c] = "open"]
    /\ sender' = [id |-> c, phase |-> "looking"]
    /\ UNCHANGED <<toHub, fromHub, hubVars, toReceiver, fromReceiver, receiverVars>>

\* The document is the session's; the request goes out and its timer starts.
SendGet ==
    /\ sender # Idle /\ sender.phase = "looking"
    /\ sender' = [sender EXCEPT !.phase = "sent"]
    /\ toHub' = Append(toHub, Msg("get", sender.id))
    /\ UNCHANGED <<chrome, fromHub, hubVars, toReceiver, fromReceiver, receiverVars>>

\* Another document, or none: finish with an error.
LookFails ==
    /\ sender # Idle /\ sender.phase = "looking"
    /\ Answer(sender.id, "error")
    /\ sender' = Idle
    /\ UNCHANGED <<toHub, fromHub, hubVars, toReceiver, fromReceiver, receiverVars>>

\* Mutant: the request stays active once it was answered.
SenderAbortsStaysActive(how) ==
    /\ sender # Idle
    /\ toHub' = Append(toHub, Msg("cancel", sender.id))
    /\ Answer(sender.id, how)
    /\ UNCHANGED <<sender, fromHub, hubVars, toReceiver, fromReceiver, receiverVars>>

\* abort: the hub is told, Chrome gets an error, unless Chrome cancelled itself.
SenderAborts(how) ==
    /\ sender # Idle
    /\ toHub' = Append(toHub, Msg("cancel", sender.id))
    /\ Answer(sender.id, how)
    /\ sender' = Idle
    /\ UNCHANGED <<fromHub, hubVars, toReceiver, fromReceiver, receiverVars>>

ChromeCancels == SenderAborts("cancelled")
DocumentChanges == SenderAborts("error")

\* Mutant: the answer of the hub stops the timer.
SenderTimesOutUnanswered ==
    sender # Idle /\ sender.phase = "sent" /\ SenderAborts("error")

SenderTimesOut == sender # Idle /\ sender.phase # "looking" /\ SenderAborts("error")

\* A result for the active request: an error ends it, an assertion is checked
\* against the document first.
SenderReceives ==
    /\ fromHub # <<>>
    /\ fromHub' = Tail(fromHub)
    /\ LET m == Head(fromHub) IN
       IF sender = Idle \/ sender.id # m.id THEN UNCHANGED senderVars
       ELSE IF m.type = "error" THEN Answer(m.id, "error") /\ sender' = Idle
       ELSE sender' = [sender EXCEPT !.phase = "checking"] /\ UNCHANGED chrome
    /\ UNCHANGED <<toHub, hubVars, toReceiver, fromReceiver, receiverVars>>

SenderChecked ==
    /\ sender # Idle /\ sender.phase = "checking"
    /\ \E how \in {"assertion", "error"} : Answer(sender.id, how)
    /\ sender' = Idle
    /\ UNCHANGED <<toHub, fromHub, hubVars, toReceiver, fromReceiver, receiverVars>>

-----------------------------------------------------------------------------
(* The hub.                                                                 *)

\* The peer whose message made the hub wait is not read meanwhile.
Reading(peer) == \A k \in checks : k.peer # peer

Check(id, a, for, peer) == [id |-> id, lease |-> a, for |-> for, peer |-> peer]

\* dispatch, for the request p under the lease a: ask the lease, once at a time.
Dispatch(p, a, peer) ==
    IF p # Idle /\ a # None /\ ~p.dispatched /\ ~p.validating /\ ready
    THEN /\ pending' = [p EXCEPT !.validating = TRUE]
         /\ checks' = checks \cup {Check(p.id, a, "dispatch", peer)}
    ELSE pending' = p /\ UNCHANGED checks

Settle(how) ==
    /\ auth' = None
    /\ lease' = [a \in Leases |-> IF a = auth THEN how ELSE lease[a]]

\* cancel: both ends are told of the pending request, and the lease fails.
Cancel(mail) ==
    /\ pending' = Idle
    /\ IF pending = Idle THEN UNCHANGED fromHub /\ toReceiver' = mail
       ELSE /\ toReceiver' = IF ready THEN Append(mail, Msg("cancel", pending.id)) ELSE mail
            /\ fromHub' = Append(fromHub, Msg("error", pending.id))
    /\ Settle("failed")

\* A get is only legal while no request is pending; anything else is a protocol
\* error that closes the sender's socket.
HubGet ==
    /\ toHub # <<>> /\ Reading("sender") /\ Head(toHub).type = "get"
    /\ pending = Idle
    /\ toHub' = Tail(toHub)
    /\ Dispatch([id |-> Head(toHub).id, dispatched |-> FALSE, validating |-> FALSE,
                 completing |-> FALSE], auth, "sender")
    /\ UNCHANGED <<senderVars, fromHub, auth, lease, dispatched, asserted,
                   toReceiver, fromReceiver, receiverVars>>

\* Mutant: the sender's cancellation is not heeded.
SenderCancelIgnored ==
    /\ toHub # <<>> /\ Reading("sender") /\ Head(toHub).type = "cancel"
    /\ toHub' = Tail(toHub)
    /\ UNCHANGED <<senderVars, fromHub, hubVars, toReceiver, fromReceiver, receiverVars>>

SenderCancel ==
    /\ toHub # <<>> /\ Reading("sender") /\ Head(toHub).type = "cancel"
    /\ toHub' = Tail(toHub)
    /\ IF pending.id = Head(toHub).id
       THEN Cancel(toReceiver) /\ UNCHANGED <<checks, dispatched, asserted>>
       ELSE UNCHANGED <<fromHub, hubVars, toReceiver>>
    /\ UNCHANGED <<senderVars, fromReceiver, receiverVars>>

\* The pending timer, the authorization timer, the abort signal of the lease, or
\* the end of useFactors: hub.cancel.
HubCancels ==
    /\ pending # Idle \/ auth # None
    /\ Cancel(toReceiver)
    /\ UNCHANGED <<senderVars, toHub, checks, dispatched, asserted, fromReceiver, receiverVars>>

Authenticate(a) ==
    /\ lease[a] = "unused" /\ auth = None
    /\ auth' = a
    /\ lease' = [lease EXCEPT ![a] = "waiting"]
    /\ Dispatch(pending, a, "nobody")
    /\ UNCHANGED <<senderVars, toHub, fromHub, dispatched, asserted,
                   toReceiver, fromReceiver, receiverVars>>

\* Mutant: what was validated is taken to be what is pending.
CurrentAlways(k) == k \in checks

\* What was validated is still what is pending, under the lease that was asked.
Current(k) == pending.id = k.id /\ auth = k.lease


\* The lease allows the request, and nothing has changed meanwhile.
Dispatched(k) ==
    /\ k \in checks /\ k.for = "dispatch" /\ Current(k)
    /\ checks' = checks \ {k}
    /\ IF ready
       THEN /\ pending' = [pending EXCEPT !.dispatched = TRUE, !.validating = FALSE]
            /\ toReceiver' = Append(toReceiver, Msg("get", k.id))
            /\ dispatched' = dispatched \cup {<<k.id, k.lease>>}
            /\ UNCHANGED <<fromHub, auth, lease>>
       ELSE Cancel(toReceiver) /\ UNCHANGED dispatched
    /\ UNCHANGED <<senderVars, toHub, asserted, fromReceiver, receiverVars>>

\* A result of the receiver for the request it was asked: the lease is asked again.
HubResult ==
    /\ fromReceiver # <<>> /\ Reading("receiver")
    /\ fromReceiver' = Tail(fromReceiver)
    /\ LET m == Head(fromReceiver) IN
       IF pending.id # m.id \/ auth = None \/ (pending # Idle /\ (~pending.dispatched \/ pending.completing))
       THEN UNCHANGED <<fromHub, hubVars, toReceiver>>
       ELSE IF m.type = "error" THEN Cancel(toReceiver) /\ UNCHANGED <<checks, dispatched, asserted>>
       ELSE /\ pending' = [pending EXCEPT !.completing = TRUE]
            /\ checks' = checks \cup {Check(m.id, auth, "result", "receiver")}
            /\ UNCHANGED <<fromHub, toReceiver, auth, lease, dispatched, asserted>>
    /\ UNCHANGED <<senderVars, toHub, receiverVars>>

\* The assertion goes to the sender, and completes the lease.
Completed(k) ==
    /\ k \in checks /\ k.for = "result" /\ Current(k)
    /\ checks' = checks \ {k}
    /\ fromHub' = Append(fromHub, Msg("assertion", k.id))
    /\ pending' = Idle
    /\ asserted' = asserted \cup {<<k.id, auth>>}
    /\ Settle("completed")
    /\ UNCHANGED <<senderVars, toHub, dispatched, toReceiver, fromReceiver, receiverVars>>

\* The lease refuses: the request is cancelled, if it is still that one.
Refused(k) ==
    /\ k \in checks
    /\ checks' = checks \ {k}
    /\ IF pending.id = k.id THEN Cancel(toReceiver) /\ UNCHANGED <<dispatched, asserted>>
       ELSE UNCHANGED <<pending, auth, lease, dispatched, asserted, fromHub, toReceiver>>
    /\ UNCHANGED <<senderVars, toHub, fromReceiver, receiverVars>>

\* The lease allows what is no longer pending: nothing happens.
Overtaken(k) ==
    /\ k \in checks /\ ~Current(k)
    /\ checks' = checks \ {k}
    /\ pending' = IF pending.id = k.id /\ k.for = "dispatch"
                  THEN [pending EXCEPT !.validating = FALSE] ELSE pending
    /\ UNCHANGED <<senderVars, toHub, fromHub, auth, lease, dispatched, asserted,
                   toReceiver, fromReceiver, receiverVars>>

-----------------------------------------------------------------------------
(* The receiver extension and its page.                                     *)

Reply(id, type) == fromReceiver' = Append(fromReceiver, Msg(type, id))

\* Mutant: a cancelled execution is not waited for.
DrainNothing == draining

\* The barrier: an execution that was cancelled while it ran.
Drain == IF receiver.phase = "running" THEN {receiver.id} \cap page ELSE draining

\* cancel in the receiver: the request is dropped, its execution is only asked to end.
Drop == receiver' = Idle /\ draining' = Drain

ReceiverReceives ==
    /\ ready /\ toReceiver # <<>>
    /\ toReceiver' = Tail(toReceiver)
    /\ LET m == Head(toReceiver) IN
       IF m.type = "cancel"
       THEN /\ IF receiver.id = m.id THEN Drop ELSE UNCHANGED <<receiver, draining>>
            /\ UNCHANGED fromReceiver
       ELSE IF receiver # Idle THEN Reply(m.id, "error") /\ UNCHANGED <<receiver, draining>>
       ELSE receiver' = [id |-> m.id, phase |-> "waiting"] /\ UNCHANGED <<draining, fromReceiver>>
    /\ UNCHANGED <<senderVars, toHub, fromHub, hubVars, page, ready, restarts>>

\* The previous execution has settled; the page runs the request (requestInPage),
\* unless one is running there.
Enter ==
    /\ receiver # Idle /\ receiver.phase = "waiting" /\ draining = {}
    /\ IF page = {}
       THEN /\ receiver' = [receiver EXCEPT !.phase = "running"]
            /\ page' = {receiver.id}
            /\ UNCHANGED fromReceiver
       ELSE /\ receiver' = Idle
            /\ Reply(receiver.id, "error")
            /\ UNCHANGED page
    /\ UNCHANGED <<senderVars, toHub, fromHub, hubVars, toReceiver, draining, ready, restarts>>

\* No document of the origin can be had, or it changed.
ReceiverFails ==
    /\ receiver # Idle /\ receiver.phase = "waiting" /\ draining = {}
    /\ Reply(receiver.id, "error")
    /\ receiver' = Idle
    /\ UNCHANGED <<senderVars, toHub, fromHub, hubVars, toReceiver, draining, page, ready, restarts>>

\* The provider in the page settles, when it likes.
PageSettles(id) ==
    /\ page' = page \ {id}
    /\ draining' = draining \ {id}
    /\ IF receiver.id = id /\ receiver.phase = "running"
       THEN /\ receiver' = Idle
            /\ \E type \in {"assertion", "error"} : Reply(id, type)
       ELSE UNCHANGED <<receiver, fromReceiver>>
    /\ UNCHANGED <<senderVars, toHub, fromHub, hubVars, toReceiver, ready, restarts>>

\* The deadline of the request, or its document went: the hub is told.
ReceiverTimesOut ==
    /\ receiver # Idle
    /\ Drop
    /\ Reply(receiver.id, "error")
    /\ UNCHANGED <<senderVars, toHub, fromHub, hubVars, toReceiver, page, ready, restarts>>

\* The receiver browser ends: its socket closes and the request is cancelled.  (The
\* close of the sender's socket does the same and ends the session.)
ReceiverExits ==
    /\ ready /\ restarts < MaxRestarts
    /\ restarts' = restarts + 1
    /\ ready' = FALSE
    /\ receiver' = Idle /\ draining' = {} /\ page' = {} /\ fromReceiver' = <<>>
    /\ pending' = Idle /\ toReceiver' = <<>>
    /\ fromHub' = IF pending = Idle THEN fromHub ELSE Append(fromHub, Msg("error", pending.id))
    /\ Settle("failed")
    /\ UNCHANGED <<senderVars, toHub, checks, dispatched, asserted>>

\* ensureReceiver launched it again: ready, and dispatch.
ReceiverReturns ==
    /\ ~ready /\ Reading("receiver")
    /\ ready' = TRUE
    /\ IF pending # Idle /\ auth # None /\ ~pending.dispatched /\ ~pending.validating
       THEN /\ pending' = [pending EXCEPT !.validating = TRUE]
            /\ checks' = checks \cup {Check(pending.id, auth, "dispatch", "receiver")}
       ELSE UNCHANGED <<pending, checks>>
    /\ UNCHANGED <<senderVars, toHub, fromHub, auth, lease, dispatched, asserted,
                   toReceiver, fromReceiver, receiver, draining, page, restarts>>

-----------------------------------------------------------------------------

Next ==
    \/ \E c \in Requests : Decline(c) \/ Take(c)
    \/ SendGet \/ LookFails \/ ChromeCancels \/ DocumentChanges \/ SenderTimesOut
    \/ SenderReceives \/ SenderChecked
    \/ HubGet \/ SenderCancel \/ HubCancels \/ HubResult
    \/ \E a \in Leases : Authenticate(a)
    \/ \E k \in checks : Dispatched(k) \/ Completed(k) \/ Refused(k) \/ Overtaken(k)
    \/ ReceiverReceives \/ Enter \/ ReceiverFails \/ ReceiverTimesOut
    \/ \E id \in page : PageSettles(id)
    \/ ReceiverExits \/ ReceiverReturns

\* Timers run out and messages arrive; nobody vouches for the page or the lease.
Fairness ==
    /\ WF_vars(SendGet \/ LookFails)
    /\ WF_vars(SenderTimesOut)
    /\ WF_vars(HubCancels)
    /\ WF_vars(ReceiverTimesOut)

Spec == Init /\ [][Next]_vars /\ Fairness

-----------------------------------------------------------------------------
(* Properties.                                                              *)

Message(types) == [type : types, id : Requests]

\* Every variable keeps its type.
TypeOK ==
    /\ chrome \in [Requests -> {"new", "open", "cancelled", "error", "assertion", "twice"}]
    /\ sender \in {Idle} \cup [id : Requests, phase : {"looking", "sent", "checking"}]
    /\ toHub \in Seq(Message({"get", "cancel"}))
    /\ fromHub \in Seq(Message({"assertion", "error"}))
    /\ pending \in {Idle} \cup [id : Requests, dispatched : BOOLEAN, validating : BOOLEAN,
                                completing : BOOLEAN]
    /\ auth \in Leases \cup {None}
    /\ checks \subseteq [id : Requests, lease : Leases, for : {"dispatch", "result"},
                         peer : {"sender", "receiver", "nobody"}]
    /\ toReceiver \in Seq(Message({"get", "cancel"}))
    /\ fromReceiver \in Seq(Message({"assertion", "error"}))
    /\ receiver \in {Idle} \cup [id : Requests, phase : {"waiting", "running"}]
    /\ draining \subseteq Requests /\ page \subseteq Requests
    /\ lease \in [Leases -> {"unused", "waiting", "completed", "failed"}]

\* The agent's Chrome hears of a request once: results, timeouts, cancellations and
\* document changes race for it, and only the first one answers.
AnsweredOnce == \A c \in Requests : chrome[c] # "twice"

\* However a lease is lost or replaced while the hub waits for it, an assertion goes
\* out under the lease that sent its request to the receiver, completes exactly that
\* lease, and no lease is good for a second one.
AssertionSpendsLease ==
    /\ asserted \subseteq dispatched
    /\ \A x, y \in dispatched : x[1] = y[1] \/ x[2] = y[2] => x = y
    /\ \A a \in Leases : lease[a] = "completed" <=> \E x \in asserted : x[2] = a

\* A request that comes to the hub never finds another one pending: whatever the
\* sender gave up, the hub has given up before it reads the next.
NeverConflicts ==
    toHub # <<>> /\ Reading("sender") /\ Head(toHub).type = "get" => pending = Idle

\* The receiver's barrier: a request it lets into the page finds it free, even after
\* cancellations that the provider in the page ignores.
PageIsFree ==
    receiver # Idle /\ receiver.phase = "waiting" /\ draining = {} => page = {}

\* Every request the agent's Chrome made is answered, although neither the page nor
\* the holder of the lease ever does anything, and every lease settles.
EveryCeremonyEnds ==
    /\ \A c \in Requests : chrome[c] = "open" ~> chrome[c] # "open"
    /\ \A a \in Leases : lease[a] = "waiting" ~> lease[a] # "waiting"
    /\ receiver # Idle ~> receiver = Idle
=============================================================================
