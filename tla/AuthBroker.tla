---------------------------- MODULE AuthBroker ----------------------------
(***************************************************************************)
(* The authentication broker, auth/broker.js, with the browser lease it    *)
(* works under, auth/browser/controller.js.                                *)
(*                                                                         *)
(* An agent asks that credentials be typed into a browser session; the     *)
(* owner approves, once or by a standing policy; an execution inspects the *)
(* session, takes its lease, consumes the grant, fetches the credentials   *)
(* from the provider and types them.  Every await of an execution is a     *)
(* step: decisions, cancellations, revocations, new enrollments, deadlines,*)
(* the agent's own browsing, store failures and a restart fall in between. *)
(*                                                                         *)
(* One requester and one enrolled service; a row is one request.  store    *)
(* mutations are serialized, so each is one action; most begin by expiring *)
(* the rows whose time is over (expire).  Left out: waits, listings,       *)
(* capacity, and a session's quarantine, which only refuses agent steps.   *)
(***************************************************************************)
EXTENDS Integers, FiniteSets

CONSTANTS
    Rows,          \* ids of requests
    Sessions,      \* ids of browser sessions; one is never opened twice
    None,          \* no row
    Owner,         \* holder of a takeover's lease
    MaxVersion,    \* bound of enrollment versions
    MaxPolicies,   \* bound of standing policies
    MaxCalls,      \* calls that may be between their inspection and their commit
    MaxUpsets      \* bound of deadlines, removals, ended sessions and failures

ASSUME BrokerAssumption ==
    /\ None \notin Rows /\ Owner \notin Rows /\ None # Owner
    /\ {MaxVersion, MaxPolicies, MaxCalls, MaxUpsets} \subseteq Nat
    /\ MaxVersion > 0

Open == {"pending", "approved", "authenticating", "needs-user"}
Closed == {"succeeded", "denied", "cancelled", "expired", "failed"}
Statuses == {"absent"} \cup Open \cup Closed
InLease == {"authorize", "retrieve", "recheck", "fill"}
Steps == {"idle", "select", "inspect", "changed", "enter", "report", "catch",
          "pause"} \cup InLease
Results == {"none", "ok", "typed", "quiet", "abort", "store", "change", "gone",
            "other"}

VARIABLES
    rows,       \* the store: what each request's record says
    enrolled,   \* version of the service's enrollment, 0 when there is none
    live,       \* the standing policy in force, 0 when there is none
    policies,   \* standing policies ever made
    revoked,    \* the requester's device was revoked
    pc,         \* pc[r]: where the execution of r stands (running)
    res,        \* res[r]: what the execution is about to report or catch
    again,      \* rows whose execution may be attempted once more
    aborted,    \* rows whose execution was told to stop
    supplied,   \* rows whose execution has passed credentials to the form
    calls,      \* calls of request, retryRequest and completeTakeover in flight
    sess,       \* sess[s]: new, open or closed
    known,      \* sessions the site has accepted a login of
    lease,      \* lease[s]: the row or owner that holds it, or None
    fills,      \* history: fills[r], how often credentials were typed for r
    upsets      \* deadlines, removed devices and providers, ended sessions, store
                \* failures and restarts; MaxVersion bounds new enrollments

authority == <<enrolled, live, policies, revoked>>
store == <<rows, authority>>
running == <<pc, res, again, aborted, supplied>>
browser == <<sess, known, lease>>
vars == <<store, running, calls, browser, fills, upsets>>

Row == [status : Statuses, session : Sessions \cup {None}, version : 0..MaxVersion,
        granted : BOOLEAN, policy : 0..MaxPolicies,
        over : BOOLEAN,         \* its request or its grant has expired by the clock
        uncertain : BOOLEAN,    \* reason is authentication-uncertain
        told : BOOLEAN,         \* diagnostic says credentials were supplied
        next : Rows \cup {None},\* supersededBy
        fresh : BOOLEAN]        \* the session is as the record's snapshot says

Call == [op : {"request", "retry", "complete"}, session : Sessions,
         row : Rows \cup {None}, version : 0..MaxVersion,
         purpose : {"login", "in"}, rows : SUBSET Rows, fresh : BOOLEAN]

Absent == [status |-> "absent", session |-> None, version |-> 0,
           granted |-> FALSE, policy |-> 0, over |-> FALSE, uncertain |-> FALSE,
           told |-> FALSE, next |-> None, fresh |-> FALSE]

Init ==
    /\ rows = [r \in Rows |-> Absent]
    /\ enrolled = 1
    /\ live = 0
    /\ policies = 0
    /\ revoked = FALSE
    /\ pc = [r \in Rows |-> "idle"]
    /\ res = [r \in Rows |-> "none"]
    /\ again = {}
    /\ aborted = {}
    /\ supplied = {}
    /\ calls = {}
    /\ sess = [s \in Sessions |-> "new"]
    /\ known = {}
    /\ lease = [s \in Sessions |-> None]
    /\ fills = [r \in Rows |-> 0]
    /\ upsets = 0

-----------------------------------------------------------------------------
(* Records.                                                                 *)

Waiting == {"pending", "approved", "authenticating"}

\* setState.  What no operation reads of a row in its new status is dropped.
Set(row, status, uncertain) ==
    LET bound == status \in {"approved", "authenticating", "expired", "denied"}
        kept == status \notin {"denied", "cancelled"} IN
    [row EXCEPT !.status = status,
                !.uncertain = uncertain,
                !.told = @ /\ status \in {"needs-user", "failed"},
                !.granted = @ /\ bound,
                !.policy = IF bound /\ status # "expired" THEN @ ELSE 0,
                !.version = IF kept THEN @ ELSE 0,
                !.over = @ /\ status \in Waiting,
                !.fresh = @ /\ status \in {"approved", "succeeded"}]

Expired(row) ==
    IF row.status = "authenticating" THEN Set(row, "needs-user", TRUE)
    ELSE Set(row, "expired", FALSE)

\* expire: what the rows are once those whose time is over are settled.
Current ==
    [r \in Rows |->
       IF rows[r].over /\ rows[r].status \in Waiting THEN Expired(rows[r]) ELSE rows[r]]

Running(r) == pc[r] \notin {"idle", "pause"}
ActiveRows == {r \in Rows : Running(r) /\ pc[r] \notin {"report", "catch", "changed"}}
RowsIn(s) == {r \in Rows : rows[r].session = s}

\* retryable; an approval that expired before it was used is still eligible.
Retryable(row) ==
    \/ row.status \in {"needs-user", "failed"}
    \/ row.status = "approved" /\ row.over
    \/ row.status = "expired" /\ row.granted

NeedsAttention(row) == row.status \in Open \/ (row.status = "failed" /\ row.next = None)

\* grantValid: time, enrollment, requester and standing policy still allow it.
GrantValid(row) ==
    /\ ~revoked
    /\ enrolled = row.version /\ enrolled > 0
    /\ ~row.over
    /\ row.granted
    /\ row.policy # 0 => row.policy = live

\* invalidatePolicy for the policy in force, on the rows it authorized.
Unauthorized(row) ==
    IF live = 0 \/ ~row.granted \/ row.policy # live THEN row
    ELSE IF row.status = "approved" THEN Set(row, "denied", FALSE)
    ELSE IF row.status = "authenticating" THEN Set(row, "needs-user", TRUE)
    ELSE row

Upset(n) == upsets + n <= MaxUpsets /\ upsets' = upsets + n

\* A failed store call is reported as failed whether it committed or not.
StoreFails == Upset(1)
StoreWorks == UNCHANGED upsets

\* executionOutcome: a row that a call left approved is executed.  A store error
\* after the commit leaves it approved and not executed.
Launch(r) ==
    \/ /\ rows'[r].status = "approved" /\ ~Running(r)
       /\ pc' = [pc EXCEPT ![r] = "select"]
       /\ again' = again \cup {r}
       /\ StoreWorks
    \/ /\ rows'[r].status # "approved" \/ Running(r)
       /\ UNCHANGED <<pc, again>>
       /\ StoreWorks
    \/ /\ rows'[r].status = "approved"
       /\ StoreFails
       /\ UNCHANGED <<pc, again>>

\* abortRequests, which is not reached when the store reports a failure.
Abort(S, upset) ==
    \/ aborted' = aborted \cup (S \cap ActiveRows) /\ Upset(upset)
    \/ aborted' = aborted /\ S \cap ActiveRows # {} /\ Upset(upset + 1)

\* The session moved on: snapshots of it are out of date.
StaleRows(rs, s) ==
    [r \in Rows |-> IF rs[r].session = s THEN [rs[r] EXCEPT !.fresh = FALSE] ELSE rs[r]]
StaleCalls(s) ==
    {IF c.session = s THEN [c EXCEPT !.fresh = FALSE] ELSE c : c \in calls}

-----------------------------------------------------------------------------
(* The agent's and the owner's calls.                                       *)

\* inspectSession answers: the session is open and nobody holds it.
Inspectable(s) == sess[s] = "open" /\ lease[s] = None

\* What inspectSession says the page is: after a login the site may still ask for
\* another.
Purposes(s) == {"login"} \cup (IF s \in known THEN {"in"} ELSE {})

\* request, up to the answer of inspectSession.
BeginRequest(s) ==
    /\ Cardinality(calls) < MaxCalls
    /\ ~revoked /\ enrolled > 0
    /\ Inspectable(s)
    /\ \E p \in Purposes(s) :
         calls' = calls \cup {[op |-> "request", session |-> s, row |-> None,
                               version |-> enrolled, purpose |-> p, rows |-> {},
                               fresh |-> TRUE]}
    /\ UNCHANGED <<store, running, browser, fills, upsets>>

\* The record of a new request: settled at once when the page is logged in or is
\* not recognized, approved by the policy in force, else pending.
NewRow(c, status, policy) ==
    [Absent EXCEPT !.status = status, !.session = c.session, !.version = c.version,
                   !.policy = policy, !.granted = policy # 0,
                   !.fresh = c.fresh /\ status # "needs-user"]

\* An earlier request of the session that is open, or that settled the very same
\* configuration: request returns its outcome.
Existing(c, row) ==
    /\ row.session = c.session
    /\ \/ row.status \in Open
       \/ row.status = "succeeded" /\ row.version = c.version /\ row.fresh /\ c.fresh

\* Mutant of StillAllowed: what was read before the inspection is trusted.
AllowedWhenRead(c) == ~revoked

\* What a call read before its inspection is read again in its mutation.
StillAllowed(c) == ~revoked /\ c.version = enrolled

\* request, the store mutation.
CommitRequest(c, r) ==
    /\ c \in calls /\ c.op = "request"
    /\ rows[r].status = "absent"
    /\ StillAllowed(c)
    /\ \A q \in Rows : ~Existing(c, Current[q])
    /\ \E new \in IF c.purpose = "in" THEN {NewRow(c, "succeeded", 0)}
                  ELSE {NewRow(c, "needs-user", 0),
                        NewRow(c, IF live # 0 THEN "approved" ELSE "pending", live)} :
         rows' = [Current EXCEPT ![r] = new]
    /\ Launch(r)
    /\ calls' = calls \ {c}
    /\ UNCHANGED <<authority, res, aborted, supplied, browser, fills>>

\* A call that ends without a new record: refused, at capacity or failed.
EndCall(c) ==
    /\ c \in calls
    /\ calls' = calls \ {c}
    /\ UNCHANGED <<store, running, browser, fills, upsets>>

\* get, listPending, the end of a wait: what is over is settled.
Poll ==
    /\ Current # rows
    /\ rows' = Current
    /\ UNCHANGED <<authority, running, calls, browser, fills, upsets>>

\* cancel.
Cancel(r) ==
    LET row == Current[r] IN
    /\ row.status \in Open \cup {"cancelled"}
    /\ rows' = [Current EXCEPT ![r] =
                  IF row.status = "authenticating" \/ (row.status = "needs-user" /\ Running(r))
                  THEN Set(row, "needs-user", TRUE)
                  ELSE IF row.status \in Open THEN Set(row, "cancelled", FALSE) ELSE row]
    /\ rows' # rows \/ r \in ActiveRows \ aborted
    /\ Abort({r}, 0)
    /\ UNCHANGED <<authority, pc, res, again, supplied, calls, browser, fills>>

\* Mutant of MayHaveSubmitted: an outcome that was unknown before is forgotten.
MayBeSubmitting(r, row) ==
    row.status = "authenticating" \/ (row.status = "needs-user" /\ Running(r))

\* What a denial says of what the browser may already have done.
MayHaveSubmitted(r, row) ==
    /\ row.status # "pending"
    /\ \/ row.uncertain
       \/ row.status = "authenticating"
       \/ row.status = "needs-user" /\ Running(r)

\* decide, deny.
Deny(r) ==
    LET row == Current[r] IN
    /\ row.status \in Open \cup {"failed"}
    /\ rows' = [Current EXCEPT ![r] = Set(row, "denied", MayHaveSubmitted(r, row))]
    /\ Abort(IF row.status = "pending" THEN {} ELSE {r}, 0)
    /\ UNCHANGED <<authority, pc, res, again, supplied, calls, browser, fills>>

\* What every approval checks.
MayApprove(r) ==
    /\ Current[r].status = "pending"
    /\ ~revoked
    /\ enrolled = Current[r].version

Granted(row, policy) ==
    [Set(row, "approved", FALSE) EXCEPT !.granted = TRUE, !.policy = policy]

\* decide, once.
ApproveOnce(r) ==
    /\ MayApprove(r)
    /\ rows' = [Current EXCEPT ![r] = Granted(@, 0)]
    /\ Launch(r)
    /\ UNCHANGED <<authority, res, aborted, supplied, calls, browser, fills>>

\* decide, always: the choice replaces the policy in force.  When it does not
\* cover what the request asks for, no row here is authorized by it.
ApproveAlways(r, covers) ==
    /\ MayApprove(r)
    /\ policies < MaxPolicies
    /\ policies' = policies + 1
    /\ live' = IF covers THEN policies' ELSE 0
    /\ rows' = [q \in Rows |->
                  IF q # r THEN Unauthorized(Current[q])
                  ELSE IF covers THEN Granted(Current[r], policies')
                  ELSE Set(Current[r], "needs-user", FALSE)]
    /\ Launch(r)
    /\ aborted' = aborted \cup {q \in ActiveRows : /\ upsets' = upsets
                                                   /\ Current[q].status = "authenticating"
                                                   /\ rows'[q].status = "needs-user"}
    /\ UNCHANGED <<enrolled, revoked, res, supplied, calls, browser, fills>>

\* revokePolicy.
RevokePolicy ==
    /\ live # 0
    /\ live' = 0
    /\ rows' = [r \in Rows |-> Unauthorized(Current[r])]
    /\ Abort({r \in Rows :
                \/ Current[r].status = "authenticating" /\ rows'[r].status = "needs-user"
                \/ rows'[r].granted /\ rows'[r].policy = live /\ rows'[r].status = "denied"}, 1)
    /\ UNCHANGED <<enrolled, policies, revoked, pc, res, again, supplied, calls, browser,
                   fills>>

\* revokeRequester.
RevokeRequester ==
    /\ ~revoked
    /\ revoked' = TRUE
    /\ live' = 0
    /\ rows' = [r \in Rows |->
                  LET row == Unauthorized(rows[r]) IN
                  CASE row.status = "authenticating" -> Set(row, "needs-user", TRUE)
                    [] row.status \in {"pending", "approved"} -> Set(row, "denied", FALSE)
                    [] row.status = "needs-user" /\ ~Running(r) -> Set(row, "denied", row.uncertain)
                    [] OTHER -> row]
    /\ Abort(Rows, 1)
    /\ UNCHANGED <<enrolled, policies, pc, res, again, supplied, calls, browser, fills>>

\* putEnrollment of a configuration that differs from the one enrolled.
PutEnrollment ==
    /\ enrolled < MaxVersion
    /\ enrolled' = enrolled + 1
    /\ live' = 0
    /\ rows' = [r \in Rows |->
                  LET row == Unauthorized(rows[r]) IN
                  CASE row.status = "authenticating" -> Set(row, "needs-user", TRUE)
                    [] row.status \in {"pending", "approved"} -> Set(row, "denied", FALSE)
                    [] OTHER -> row]
    /\ Abort(Rows, 0)
    /\ UNCHANGED <<policies, revoked, pc, res, again, supplied, calls, browser, fills>>

\* retireProvider: the enrollment and its policies go; the next version is 1.
RetireProvider ==
    /\ enrolled > 0
    /\ enrolled' = 0
    /\ live' = 0
    /\ rows' = [r \in Rows |->
                  IF ~NeedsAttention(rows[r]) THEN rows[r]
                  ELSE IF rows[r].status = "authenticating" \/ rows[r].told
                  THEN Set(rows[r], "needs-user", TRUE)
                  ELSE Set(rows[r], "cancelled", FALSE)]
    /\ Abort({r \in Rows : NeedsAttention(rows[r])}, 1)
    /\ UNCHANGED <<policies, revoked, pc, res, again, supplied, calls, browser, fills>>

\* retryRequest, up to the answer of inspectSession.
BeginRetry(r) ==
    /\ Cardinality(calls) < MaxCalls
    /\ ~revoked
    /\ rows[r].next = None
    /\ Retryable(rows[r])
    /\ ~Running(r)
    /\ enrolled = rows[r].version
    /\ Inspectable(rows[r].session)
    /\ calls' = calls \cup {[op |-> "retry", session |-> rows[r].session, row |-> r,
                             version |-> enrolled, purpose |-> "login", rows |-> {},
                             fresh |-> TRUE]}
    /\ UNCHANGED <<store, running, browser, fills, upsets>>

\* retryRequest, the store mutation: a new request that needs a new decision.
CommitRetry(c, n) ==
    /\ c \in calls /\ c.op = "retry"
    /\ rows[n].status = "absent"
    /\ LET row == Current[c.row] IN
       /\ StillAllowed(c)
       /\ row.next = None
       /\ Retryable(row)
       /\ ~Running(c.row)
       /\ \A q \in RowsIn(row.session) \ {c.row} : Current[q].status \notin Open
       /\ \E status \in {"pending", "needs-user"} :
            rows' = [Current EXCEPT
                       ![c.row] = [Set(row, "cancelled", FALSE) EXCEPT !.next = n],
                       ![n] = NewRow(c, status, 0)]
    /\ calls' = calls \ {c}
    /\ UNCHANGED <<authority, running, browser, fills, upsets>>

Completable == {"pending", "needs-user", "failed"}

\* completeTakeover, up to the answer of inspectSession.
BeginComplete(s) ==
    LET candidates == {r \in RowsIn(s) : rows[r].status \in Completable} IN
    /\ Cardinality(calls) < MaxCalls
    /\ ~revoked
    /\ \E r \in candidates : rows[r].version = enrolled
    /\ Inspectable(s)
    /\ "in" \in Purposes(s)
    /\ calls' = calls \cup {[op |-> "complete", session |-> s, row |-> None,
                             version |-> enrolled, purpose |-> "in",
                             rows |-> candidates, fresh |-> TRUE]}
    /\ UNCHANGED <<store, running, browser, fills, upsets>>

\* completeTakeover, the store mutation.
CommitComplete(c) ==
    LET done == {r \in c.rows : /\ rows[r].version = c.version
                                /\ rows[r].status \in Completable
                                /\ ~Running(r)} IN
    /\ c \in calls /\ c.op = "complete"
    /\ StillAllowed(c)
    /\ done # {}
    /\ rows' = [r \in Rows |-> IF r \in done THEN Set(rows[r], "succeeded", FALSE)
                               ELSE rows[r]]
    /\ calls' = calls \ {c}
    /\ UNCHANGED <<authority, running, browser, fills, upsets>>
-----------------------------------------------------------------------------
(* execute.                                                                 *)

Goto(r, step, result) ==
    /\ pc' = [pc EXCEPT ![r] = step]
    /\ res' = [res EXCEPT ![r] = result]

\* work is over: the row leaves running, and its abort signal goes with it.
Leave(r, step) ==
    /\ Goto(r, step, "none")
    /\ aborted' = aborted \ {r}
    /\ supplied' = supplied \ {r}
    /\ again' = again \ {r}

\* No step heeds the signal once the outcome is only to be written down.
Continue(r, step, result) ==
    /\ Goto(r, step, result)
    /\ aborted' = IF step \in {"report", "catch", "changed"} THEN aborted \ {r} ELSE aborted
    /\ supplied' = IF step = "fill" THEN supplied \cup {r} ELSE supplied
    /\ UNCHANGED again

\* A store call of the execution fails: it throws to the catch below.
Thrown(r) ==
    /\ StoreFails
    /\ Continue(r, "catch", "store")

\* What a step of r leaves: new, with the lease ended if the step left it: the
\* session's revision then grows.
Settle(r, new) ==
    LET s == rows[r].session IN
    IF pc[r] \in InLease /\ pc'[r] \notin InLease
    THEN /\ rows' = StaleRows(new, s)
         /\ calls' = StaleCalls(s)
         /\ lease' = [lease EXCEPT ![s] = None]
    ELSE rows' = new /\ UNCHANGED <<calls, lease>>

Select(r) ==
    LET row == Current[r]
        ok == row.status = "approved" /\ GrantValid(row) IN
    /\ pc[r] = "select"
    /\ \/ /\ rows' = [Current EXCEPT ![r] =
                        IF row.status = "approved" /\ ~ok THEN Set(row, "denied", FALSE) ELSE row]
          /\ IF ok THEN Continue(r, "inspect", "none") ELSE Leave(r, "idle")
          /\ StoreWorks
       \/ Thrown(r) /\ UNCHANGED rows
    /\ UNCHANGED <<authority, calls, browser, fills>>

\* inspectSession, the comparison with the record's snapshot and the choice of a
\* provider.
Inspect(r) ==
    LET s == rows[r].session IN
    /\ pc[r] = "inspect" /\ r \notin aborted
    /\ \/ sess[s] # "open" /\ Continue(r, "catch", "gone")
       \/ sess[s] = "open" /\ lease[s] # None /\ Continue(r, "catch", "other")
       \/ Inspectable(s) /\ ~rows[r].fresh /\ Continue(r, "changed", "none")
       \/ Inspectable(s) /\ rows[r].fresh /\ Continue(r, "enter", "none")
    /\ UNCHANGED <<store, calls, browser, fills, upsets>>

\* The session changed: the owner is asked, if the row still waits.
Changed(r) ==
    /\ pc[r] = "changed"
    /\ rows' = [rows EXCEPT ![r] =
                  IF @.status = "approved" THEN Set(@, "needs-user", FALSE) ELSE @]
    /\ Leave(r, "idle")
    /\ UNCHANGED <<authority, calls, browser, fills, upsets>>

\* withAuthenticationLease, up to its call of the operation.
Enter(r) ==
    LET s == rows[r].session IN
    /\ pc[r] = "enter" /\ r \notin aborted
    /\ \/ sess[s] # "open" /\ Continue(r, "catch", "gone") /\ UNCHANGED lease
       \/ sess[s] = "open" /\ lease[s] # None /\ Continue(r, "catch", "other") /\ UNCHANGED lease
       \/ Inspectable(s) /\ ~rows[r].fresh /\ Continue(r, "catch", "change") /\ UNCHANGED lease
       \/ /\ Inspectable(s) /\ rows[r].fresh
          /\ lease' = [lease EXCEPT ![s] = r]
          /\ Continue(r, "authorize", "none")
    /\ UNCHANGED <<store, calls, sess, known, fills, upsets>>

\* Inside the lease: the row starts authenticating and its grant is used up, in
\* one mutation.  A failure may be reported after the commit.
Authorize(r) ==
    LET row == Current[r]
        ok == row.status = "approved" /\ GrantValid(row)
        decided == [Current EXCEPT ![r] =
                      IF ok THEN Set(row, "authenticating", FALSE)
                      ELSE IF row.status = "approved" THEN Set(row, "denied", FALSE)
                      ELSE row] IN
    /\ pc[r] = "authorize"
    /\ \/ /\ StoreWorks
          /\ IF ok THEN Continue(r, "retrieve", "none") ELSE Continue(r, "report", "quiet")
          /\ Settle(r, decided)
       \/ /\ Thrown(r)
          /\ Settle(r, rows) \/ Settle(r, decided)
    /\ UNCHANGED <<authority, sess, known, fills>>

\* Mutant of Retrieve: the sink does not remember that it was called.
RetrieveOften(r) ==
    /\ pc[r] = "retrieve" /\ r \notin aborted
    /\ Continue(r, "recheck", "none") \/ Continue(r, "report", "quiet")
    /\ Settle(r, rows)
    /\ UNCHANGED <<authority, sess, known, fills, upsets>>

\* provider.useFactors: no credentials, or the guarded sink is called with them.
\* The sink refuses a second call, and the provider's answer is what it then is.
Retrieve(r) ==
    LET s == rows[r].session IN
    /\ pc[r] = "retrieve" /\ r \notin aborted
    /\ IF r \notin supplied
       THEN Continue(r, "recheck", "none") \/ Continue(r, "report", "quiet")
       ELSE (s \in known /\ Continue(r, "report", "ok")) \/ Continue(r, "report", "typed")
    /\ Settle(r, rows)
    /\ UNCHANGED <<authority, sess, known, fills, upsets>>

\* assertAuthorized: right before the first form action, is it still allowed?
Recheck(r) ==
    LET row == Current[r]
        ok == row.status = "authenticating" /\ GrantValid(row) IN
    /\ pc[r] = "recheck" /\ r \notin aborted
    /\ \/ /\ StoreWorks
          /\ IF ok THEN Continue(r, "fill", "none") ELSE Continue(r, "report", "quiet")
          /\ fills' = [fills EXCEPT ![r] = IF ok THEN @ + 1 ELSE @]
          /\ Settle(r, Current)
       \/ Thrown(r) /\ Settle(r, rows) /\ UNCHANGED fills
    /\ UNCHANGED <<authority, sess, known>>

\* fillAdaptive: the form is filled and submitted; the site accepts it or not, and the
\* controller confirms a login or does not.  The provider answers, or calls the
\* sink again.
Fill(r) ==
    LET s == rows[r].session IN
    /\ pc[r] = "fill" /\ r \notin aborted
    /\ known' \in {known, known \cup {s}}
    /\ \/ s \in known' /\ Continue(r, "report", "ok")
       \/ Continue(r, "report", "typed")
       \/ Continue(r, "retrieve", "none")
    /\ Settle(r, rows)
    /\ UNCHANGED <<authority, sess, fills, upsets>>

\* A deadline or an abort interrupts what the execution awaits; a form may have
\* been submitted by then.
Interrupted(r) ==
    LET s == rows[r].session IN
    /\ r \in aborted
    /\ pc[r] \in {"inspect", "enter", "retrieve", "recheck", "fill"}
    /\ Continue(r, "catch", "abort")
    /\ known' \in {known, IF pc[r] = "fill" THEN known \cup {s} ELSE known}
    /\ Settle(r, rows)
    /\ UNCHANGED <<authority, sess, fills, upsets>>

\* Mutant of Reported: a submitted form is taken for a login.
ReportedSubmitted(row, result, told) ==
    IF result \in {"ok", "typed"} THEN {Set(row, "succeeded", FALSE)}
    ELSE {Set(row, "needs-user", FALSE), Set(row, "failed", FALSE)}

\* The last mutation: what the provider and the controller answered.
Reported(row, result, told) ==
    IF result = "ok" THEN {Set(row, "succeeded", FALSE)}
    ELSE IF result = "typed" THEN {[Set(row, "needs-user", TRUE) EXCEPT !.told = told]}
    ELSE {Set(row, "needs-user", FALSE), Set(row, "failed", FALSE)}

\* Mutant of Report: the answer is written whatever was decided meanwhile.
ReportLate(r) ==
    /\ pc[r] = "report"
    /\ \/ /\ \E told \in BOOLEAN :
               \E row \in Reported(Current[r], res[r], told) :
                 rows' = [Current EXCEPT ![r] = row]
          /\ StoreWorks
          /\ Leave(r, "idle")
       \/ Thrown(r) /\ UNCHANGED rows
    /\ UNCHANGED <<authority, calls, browser, fills>>

Report(r) ==
    /\ pc[r] = "report"
    /\ \/ /\ \E told \in BOOLEAN :
               \E row \in IF Current[r].status = "authenticating"
                          THEN Reported(Current[r], res[r], told) ELSE {Current[r]} :
                 rows' = [Current EXCEPT ![r] = row]
          /\ StoreWorks
          /\ Leave(r, "idle")
       \/ Thrown(r) /\ UNCHANGED rows
    /\ UNCHANGED <<authority, calls, browser, fills>>

\* What the catch makes of an error.
Caught(row, r) ==
    IF row.status \notin {"approved", "authenticating"} THEN row
    ELSE IF r \in supplied THEN [Set(row, "needs-user", TRUE) EXCEPT !.told = TRUE]
    ELSE IF res[r] = "store" /\ row.status = "approved" THEN row
    ELSE IF res[r] = "change" THEN Set(row, "needs-user", FALSE)
    ELSE IF res[r] = "gone" THEN Set(row, "failed", FALSE)
    ELSE IF row.status = "authenticating" THEN Set(row, "needs-user", TRUE)
    ELSE IF res[r] # "abort" THEN Set(row, "failed", FALSE)
    ELSE row

\* executionOutcome: an approval that met a store error is attempted once more.
Again(r, error) ==
    IF error /\ rows'[r].status = "approved" /\ r \in again
    THEN Leave(r, "pause")
    ELSE Leave(r, "idle")

Catch(r) ==
    LET caught == [rows EXCEPT ![r] = Caught(rows[r], r)] IN
    /\ pc[r] = "catch"
    /\ \/ rows' = caught /\ StoreWorks /\ Again(r, res[r] = "store")
       \/ rows' \in {rows, caught} /\ StoreFails /\ Again(r, TRUE)
    /\ UNCHANGED <<authority, calls, browser, fills>>

\* The second attempt.
Attempt(r) ==
    /\ pc[r] = "pause"
    /\ Goto(r, "select", "none")
    /\ UNCHANGED <<store, again, aborted, supplied, calls, browser, fills, upsets>>

-----------------------------------------------------------------------------
(* Time, browsers and restarts.                                             *)

\* The deadline of an execution.
Timeout(r) ==
    /\ Upset(1)
    /\ pc[r] \in {"inspect", "enter", "retrieve", "recheck", "fill"}
    /\ r \notin aborted
    /\ aborted' = aborted \cup {r}
    /\ UNCHANGED <<store, pc, res, again, supplied, calls, browser, fills>>

\* The clock passes the expiry of a request or of its grant.
Lapse(r) ==
    /\ Upset(1)
    /\ rows[r].status \in Waiting /\ ~rows[r].over
    /\ rows' = [rows EXCEPT ![r].over = TRUE]
    /\ UNCHANGED <<authority, running, calls, browser, fills>>

OpenSession(s) ==
    /\ sess[s] = "new"
    /\ enrolled > 0 /\ ~revoked
    /\ sess' = [sess EXCEPT ![s] = "open"]
    /\ UNCHANGED <<store, running, calls, known, lease, fills, upsets>>

\* closeOwnedSession, which aborts the lease: its holder reports what it had
\* done.  A store mutation it waits for is committed first.
CloseSession(s) ==
    LET holders == {r \in RowsIn(s) : lease[s] = r} IN
    /\ sess[s] = "open" /\ Upset(1)
    /\ \A r \in holders : pc[r] # "authorize"
    /\ sess' = [sess EXCEPT ![s] = "closed"]
    /\ lease' = [lease EXCEPT ![s] = None]
    /\ pc' = [r \in Rows |-> IF r \in holders THEN "report" ELSE pc[r]]
    /\ res' = [r \in Rows |-> IF r \notin holders THEN res[r]
                              ELSE IF r \in supplied THEN "typed" ELSE "quiet"]
    /\ rows' = StaleRows(rows, s)
    /\ calls' = StaleCalls(s)
    /\ UNCHANGED <<authority, again, aborted, supplied, known, fills>>

\* The agent navigates, clicks or types: agentOperation.
AgentOperates(s) ==
    /\ Inspectable(s)
    /\ rows' = StaleRows(rows, s)
    /\ calls' = StaleCalls(s)
    /\ UNCHANGED <<authority, running, sess, known, lease, fills, upsets>>

\* startTakeover of the session of a request that needs attention.
StartTakeover(s) ==
    /\ Inspectable(s)
    /\ \E r \in RowsIn(s) : NeedsAttention(rows[r])
    /\ lease' = [lease EXCEPT ![s] = Owner]
    /\ UNCHANGED <<store, running, calls, sess, known, fills, upsets>>

\* finishTakeover, or the end of its time: the owner logged in or did not.
FinishTakeover(s) ==
    /\ lease[s] = Owner
    /\ lease' = [lease EXCEPT ![s] = None]
    /\ known' \in {known, known \cup {s}}
    /\ rows' = StaleRows(rows, s)
    /\ calls' = StaleCalls(s)
    /\ UNCHANGED <<authority, running, sess, fills, upsets>>

\* The process ends and starts again: initialize, then resume.
Restart ==
    LET interrupted == [r \in Rows |-> IF rows[r].status = "authenticating"
                                       THEN Expired(rows[r]) ELSE Current[r]]
        resumed == {r \in Rows : interrupted[r].status = "approved"} IN
    /\ Upset(1)
    /\ rows' = [r \in Rows |-> [interrupted[r] EXCEPT !.fresh = FALSE]]
    /\ pc' = [r \in Rows |-> IF r \in resumed THEN "select" ELSE "idle"]
    /\ res' = [r \in Rows |-> "none"]
    /\ again' = resumed
    /\ aborted' = {}
    /\ supplied' = {}
    /\ calls' = {}
    /\ sess' = [s \in Sessions |-> IF sess[s] = "open" THEN "closed" ELSE sess[s]]
    /\ lease' = [s \in Sessions |-> None]
    /\ UNCHANGED <<authority, known, fills>>

-----------------------------------------------------------------------------

Execution ==
    \E r \in Rows :
       \/ Select(r) \/ Inspect(r) \/ Changed(r) \/ Enter(r) \/ Authorize(r)
       \/ Retrieve(r) \/ Recheck(r) \/ Fill(r) \/ Interrupted(r) \/ Report(r)
       \/ Catch(r) \/ Attempt(r)

Calls ==
    \/ \E s \in Sessions : BeginRequest(s) \/ BeginComplete(s)
    \/ \E c \in calls, r \in Rows : CommitRequest(c, r) \/ CommitRetry(c, r)
    \/ \E c \in calls : CommitComplete(c) \/ EndCall(c)
    \/ \E r \in Rows : Cancel(r) \/ Deny(r) \/ ApproveOnce(r) \/ BeginRetry(r)
    \/ \E r \in Rows, covers \in BOOLEAN : ApproveAlways(r, covers)
    \/ Poll \/ RevokePolicy \/ RevokeRequester \/ PutEnrollment \/ RetireProvider

Environment ==
    \/ \E r \in Rows : Timeout(r) \/ Lapse(r)
    \/ \E s \in Sessions : OpenSession(s) \/ CloseSession(s) \/ AgentOperates(s)
                           \/ StartTakeover(s) \/ FinishTakeover(s)
    \/ Restart

Next == Execution \/ Calls \/ Environment

Spec == Init /\ [][Next]_vars

-----------------------------------------------------------------------------
(* Properties.                                                              *)

\* Every variable keeps its type.
TypeOK ==
    /\ rows \in [Rows -> Row]
    /\ enrolled \in 0..MaxVersion
    /\ policies \in 0..MaxPolicies /\ live \in 0..policies
    /\ revoked \in BOOLEAN
    /\ pc \in [Rows -> Steps]
    /\ res \in [Rows -> Results]
    /\ again \subseteq Rows /\ aborted \subseteq Rows /\ supplied \subseteq Rows
    /\ calls \subseteq Call
    /\ sess \in [Sessions -> {"new", "open", "closed"}]
    /\ known \subseteq Sessions
    /\ lease \in [Sessions -> Rows \cup {None, Owner}]
    /\ fills \in [Rows -> Nat]
    /\ upsets \in 0..MaxUpsets

\* "Duplicate delivery must never silently repeat a sensitive submission": one
\* request types credentials at most once, however its execution is retried,
\* resumed or restarted.
TypedOnce == \A r \in Rows : fills[r] <= 1

\* A session has at most one request that is open, and credentials are typed into
\* it for one request at a time, also while requests race, are retried and denied.
OneCeremony ==
    \A s \in Sessions :
       /\ Cardinality({r \in RowsIn(s) : rows[r].status \in Open}) <= 1
       /\ Cardinality({r \in RowsIn(s) : pc[r] = "fill"}) <= 1

\* What the owner withdrew authorizes nothing: a row that waits, is approved or is
\* authenticating stands on the enrollment, the requester and the policy of now.
NoStaleAuthority ==
    \A r \in Rows : rows[r].status \in {"pending", "approved", "authenticating"} =>
       /\ ~revoked
       /\ rows[r].version = enrolled
       /\ rows[r].policy # 0 => rows[r].policy = live

\* Rows that were cancelled by the agent, or by the owner's retry, on purpose.
Dismissed(r) == rows[r].status = "cancelled"

\* "Outcomes marked authentication-uncertain are not silently removed": once
\* credentials were typed for a row, it is a success, or still being executed, or
\* it says it is uncertain, until somebody cancels it.
UncertaintyKept ==
    \A r \in Rows : fills[r] > 0 /\ ~Running(r) =>
       \/ rows[r].status \in {"succeeded", "authenticating"}
       \/ rows[r].uncertain
       \/ Dismissed(r)

\* "Deny, cancel, expiry and provider failures do not produce success": a request
\* succeeds only if the site accepted a login of its session.
SuccessWasSeen ==
    \A r \in Rows : rows[r].status = "succeeded" => rows[r].session \in known

\* A decision stands: a late answer of an execution, a late mutation of a call or
\* a restart never reopens or rewrites a row that was denied, cancelled or done.
DecisionsStand ==
    [][\A r \in Rows :
         /\ rows[r].status \in {"denied", "cancelled", "succeeded"} =>
              rows'[r].status = rows[r].status
         /\ rows[r].next # None => rows'[r].next = rows[r].next]_vars

\* "Removal preserves authentication-uncertain for active or already-submitted
\* ceremonies" (docs/authentication.md): retiring a provider never makes a plain
\* cancellation of a row whose credentials were typed and whose outcome is unknown.
RetirementKeepsUncertainty ==
    [][enrolled > 0 /\ enrolled' = 0 =>
         \A r \in Rows : rows[r].uncertain /\ fills[r] > 0 => rows'[r].uncertain]_vars
=============================================================================
