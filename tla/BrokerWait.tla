----------------------------- MODULE BrokerWait -----------------------------
(***************************************************************************)
(* Waiting for the outcome of a request, broker.wait of auth/broker.js and *)
(* the announcement of changes in its wrapper of the store.                *)
(*                                                                         *)
(* A waiter looks at its row, registers, looks again and sleeps.  Changes  *)
(* are committed by one call of the store and announced by a later step,   *)
(* and never when that call failed, even if the row was already written.   *)
(***************************************************************************)
EXTENDS Naturals, FiniteSets, Functions

CONSTANTS
    Waiters,          \* calls of wait
    Rows,
    RowOf,            \* RowOf[w]: the row w asks for
    RequesterOf,      \* RequesterOf[w]: the requester that calls
    MaxWaits,         \* 16
    MaxPerRequester,  \* 2
    MaxFailures       \* bound of commits whose call of the store fails

\* What a waiter is told apart from a status.
None == "none"

\* "authenticating" is one more that is waited for, like "approved".
Status == {"pending", "approved", "settled"}

Waiting(s) == s # "settled"

\* Where setState moves a row; nothing leaves "settled" for another waiting status.
After(s) == [pending |-> {"approved", "settled"}, approved |-> {"settled"}, settled |-> {}][s]

VARIABLES
    row,        \* row[r]: the status of row r
    announcing, \* <<row, status>> that were committed and not announced yet
    stage,      \* stage[w]: where the call w stands
    sawn,       \* sawn[w]: what the call saw before it registered
    stopping,   \* calls whose entry is being stopped: it reads the row once more
    waitCount,
    requesterWaits,
    waitsClosing,
    silent,     \* history: rows with a change whose call of the store failed
    upsets

vars == <<row, announcing, stage, sawn, stopping, waitCount, requesterWaits,
          waitsClosing, silent, upsets>>

Requesters == Range(RequesterOf)

Init ==
    /\ row = [r \in Rows |-> "pending"]
    /\ announcing = {}
    /\ stage = [w \in Waiters |-> "none"]
    /\ sawn = [w \in Waiters |-> None]
    /\ stopping = {}
    /\ waitCount = 0
    /\ requesterWaits = [q \in Requesters |-> 0]
    /\ waitsClosing = FALSE
    /\ silent = {} /\ upsets = 0

Registered == {w \in Waiters : stage[w] \in {"registered", "rechecked", "sleeping"}}
Now(w) == row[RowOf[w]]

-----------------------------------------------------------------------------
(* Changes of the rows.                                                     *)

\* store.mutate commits; its caller goes on when it has.
Commit(r, s) ==
    /\ s \in After(row[r])
    /\ row' = [row EXCEPT ![r] = s]
    /\ announcing' = announcing \cup {<<r, s>>}
    /\ UNCHANGED <<stage, sawn, stopping, waitCount, requesterWaits, waitsClosing,
                   silent, upsets>>

\* The file was renamed, and then the call of the store fails.
CommitFails(r, s) ==
    /\ upsets < MaxFailures
    /\ s \in After(row[r])
    /\ row' = [row EXCEPT ![r] = s]
    /\ silent' = silent \cup {r}
    /\ upsets' = upsets + 1
    /\ UNCHANGED <<announcing, stage, sawn, stopping, waitCount, requesterWaits,
                   waitsClosing>>

\* What a call is told is the status just announced or read.
Answered(told) ==
    /\ stage' = [w \in Waiters |-> IF w \in told THEN "answered" ELSE stage[w]]
    /\ sawn' = [w \in Waiters |-> IF w \in told THEN None ELSE sawn[w]]

\* clean(): what every end of a registered call does, once.
Clean(gone) ==
    /\ waitCount' = waitCount - Cardinality(gone)
    /\ requesterWaits' = [q \in Requesters |->
           requesterWaits[q] - Cardinality({w \in gone : RequesterOf[w] = q})]
    /\ stopping' = stopping \ gone

\* Each entry of the row that is registered by now is finished.
Announce(r, s) ==
    /\ <<r, s>> \in announcing
    /\ announcing' = announcing \ {<<r, s>>}
    /\ LET woken == {w \in Registered : RowOf[w] = r} IN
         /\ Answered(woken)
         /\ Clean(woken)
    /\ UNCHANGED <<row, waitsClosing, silent, upsets>>

-----------------------------------------------------------------------------
(* A call of wait.                                                          *)

Look(w) ==
    /\ stage[w] = "none"
    /\ stage' = [stage EXCEPT ![w] = "looked"]
    /\ sawn' = [sawn EXCEPT ![w] = Now(w)]
    /\ UNCHANGED <<row, announcing, stopping, waitCount, requesterWaits,
                   waitsClosing, silent, upsets>>

Full(w) ==
    \/ waitCount >= MaxWaits
    \/ requesterWaits[RequesterOf[w]] >= MaxPerRequester

\* An answer at once: nothing to wait for, or wait-capacity.
Refuse(w) ==
    /\ stage[w] = "looked"
    /\ ~Waiting(sawn[w]) \/ waitsClosing \/ Full(w)
    /\ Answered({w})
    /\ UNCHANGED <<row, announcing, stopping, waitCount, requesterWaits,
                   waitsClosing, silent, upsets>>

Register(w) ==
    /\ stage[w] = "looked"
    /\ Waiting(sawn[w]) /\ ~waitsClosing /\ ~Full(w)
    /\ stage' = [stage EXCEPT ![w] = "registered"]
    /\ waitCount' = waitCount + 1
    /\ requesterWaits' = [requesterWaits EXCEPT ![RequesterOf[w]] = @ + 1]
    /\ UNCHANGED <<row, announcing, sawn, stopping, waitsClosing, silent, upsets>>

\* Mutant of Stays: the row is not compared with what was seen before.
StaysIfWaiting(w) == Waiting(Now(w))

\* The second look finds what the first one found.
Stays(w) == Now(w) = sawn[w] /\ Waiting(Now(w))

\* "Register before rechecking to close the read/subscribe race."
Recheck(w) ==
    /\ stage[w] = "registered"
    /\ IF Stays(w) /\ ~waitsClosing
       THEN /\ stage' = [stage EXCEPT ![w] = "rechecked"]
            /\ UNCHANGED <<sawn, waitCount, requesterWaits, stopping>>
       ELSE Answered({w}) /\ Clean({w})
    /\ UNCHANGED <<row, announcing, waitsClosing, silent, upsets>>

\* The row is read for its times, and the timer is set if the call is not done by then.
SetTimer(w) ==
    /\ stage[w] = "rechecked"
    /\ stage' = [stage EXCEPT ![w] = "sleeping"]
    /\ UNCHANGED <<row, announcing, sawn, stopping, waitCount, requesterWaits,
                   waitsClosing, silent, upsets>>

\* The timer, or the caller's signal.
Stop(w) ==
    /\ w \in Registered \ stopping
    /\ stopping' = stopping \cup {w}
    /\ UNCHANGED <<row, announcing, stage, sawn, waitCount, requesterWaits,
                   waitsClosing, silent, upsets>>

\* entry.stop() has read the row: timedOut, with its status.
Stopped(w) ==
    /\ w \in stopping
    /\ Answered({w}) /\ Clean({w})
    /\ UNCHANGED <<row, announcing, waitsClosing, silent, upsets>>

\* A read of the row fails: the call is rejected.
Rejected(w) ==
    /\ stage[w] \in {"registered", "rechecked"} \/ w \in stopping
    /\ upsets < MaxFailures
    /\ upsets' = upsets + 1
    /\ Answered({w}) /\ Clean({w})
    /\ UNCHANGED <<row, announcing, waitsClosing, silent>>

\* drain({ abort: true })
Drain ==
    /\ ~waitsClosing
    /\ waitsClosing' = TRUE
    /\ stopping' = stopping \cup Registered
    /\ UNCHANGED <<row, announcing, stage, sawn, waitCount, requesterWaits,
                   silent, upsets>>

-----------------------------------------------------------------------------
Next ==
    \/ \E r \in Rows, s \in Status : Commit(r, s) \/ CommitFails(r, s) \/ Announce(r, s)
    \/ \E w \in Waiters :
         \/ Look(w) \/ Refuse(w) \/ Register(w) \/ Recheck(w) \/ SetTimer(w)
         \/ Stop(w) \/ Stopped(w) \/ Rejected(w)
    \/ Drain

Spec == Init /\ [][Next]_vars

-----------------------------------------------------------------------------
(* Properties.                                                              *)

\* Every variable keeps its type.
TypeOK ==
    /\ row \in [Rows -> Status]
    /\ announcing \subseteq Rows \X Status
    /\ stage \in [Waiters ->
           {"none", "looked", "registered", "rechecked", "sleeping", "answered"}]
    /\ sawn \in [Waiters -> Status \cup {None}]
    /\ stopping \subseteq Registered
    /\ waitCount \in Nat /\ requesterWaits \in [Requesters -> Nat]
    /\ waitsClosing \in BOOLEAN
    /\ silent \subseteq Rows /\ upsets \in Nat

\* However a change falls between the two looks, the registration and the timer, no call
\* sleeps on it: what its row says now is what it saw, or the change is about to be
\* announced to it, or the call that made it failed.  No call sleeps on in a drained broker.
WokenByChange ==
    \A w \in Registered :
        /\ stage[w] # "registered" =>
             \/ Now(w) = sawn[w]
             \/ <<RowOf[w], Now(w)>> \in announcing
             \/ RowOf[w] \in silent
        /\ waitsClosing => w \in stopping

\* The counts are those of the registered calls, whatever ends them, and never exceed
\* the limits.
WaitsAreCounted ==
    /\ waitCount = Cardinality(Registered) /\ waitCount <= MaxWaits
    /\ \A q \in Requesters :
         /\ requesterWaits[q] = Cardinality({w \in Registered : RequesterOf[w] = q})
         /\ requesterWaits[q] <= MaxPerRequester
=============================================================================
