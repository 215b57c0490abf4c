----------------------------- MODULE MCExecutor -----------------------------
(***************************************************************************)
(* What the executor of authentications rests on, in one model: its        *)
(* enrollments and connections (Enrollments), the catalog of accounts      *)
(* (AccountCatalog), its state file (AuthStore), the hand-over of          *)
(* authenticated sessions (SessionHandoff) and the callers that wait for   *)
(* the outcome of their requests (BrokerWait).  They share no state, so    *)
(* each is followed by itself.  part says which; the variables of the      *)
(* others stay as they were initially.                                     *)
(***************************************************************************)
EXTENDS Enrollments, SequencesExt, TLC

CONSTANTS
    x1, x2,
    Vaults, MaxTokens, MaxContent, MaxFailures,
    Pids, MaxWrites, MaxDeaths,
    Accounts, Cookies, MaxPin, MaxImports,
    Waiters, Rows, MaxWaits, MaxPerRequester

\* Finitely many callers wait, for rows that are there, and the limits are numbers.
ASSUME WaitersAssumption ==
    /\ IsFiniteSet(Waiters) /\ {"q", "r"} \subseteq Rows
    /\ MaxWaits \in Nat /\ MaxPerRequester \in Nat

\* There are finitely many connections.
ASSUME VaultsAssumption == IsFiniteSet(Vaults)

VARIABLES
    part,
    secret, changing, content, client, version, cache, handles, search, resolution, use, made,
    health, refusals,
    lock, file, step, seen, candidate, base, begun, answered, errors, deaths, mistaken,
    profile, pin, jar, import, imports,
    row, announcing, calls, sawn, stopping, waitCount, requesterWaits, waitsClosing, silent,
    mishaps

catalogVars == <<secret, changing, content, client, version, cache, handles, search,
                 resolution, use, made, health, refusals>>
storeVars == <<lock, file, step, seen, candidate, base, begun, answered, errors, deaths,
               mistaken>>
handoffVars == <<profile, pin, jar, import, imports>>
waitVars == <<row, announcing, calls, sawn, stopping, waitCount, requesterWaits,
              waitsClosing, silent, mishaps>>

\* Searches visit the connections in one order.  Those after the first are not activated
\* again once they were listed.
Visits == SetToSeq(Vaults)
Catalog == INSTANCE AccountCatalog WITH
    token <- secret, failures <- refusals,
    Providers <- Visits, MaxMade <- [v \in Vaults |-> IF v = Head(Visits) THEN 3 ELSE 2]
Store == INSTANCE AuthStore WITH made <- begun, failures <- errors
Handoff == INSTANCE SessionHandoff

\* Two callers of one requester wait for the same row, and one of another for its own.
RowOf == [w \in Waiters |-> IF w = "w3" THEN "q" ELSE "r"]
RequesterOf == [w \in Waiters |-> IF w = "w3" THEN "b" ELSE "a"]
Waits == INSTANCE BrokerWait WITH stage <- calls, upsets <- mishaps

MCInit ==
    /\ part \in {"enrollments", "catalog", "store", "handoff", "waits"}
    /\ Init /\ Catalog!Init /\ Store!Init /\ Handoff!Init /\ Waits!Init
    /\ part # "handoff" => ~profile

MCNext ==
    \/ /\ part = "enrollments" /\ Next
       /\ UNCHANGED <<part, catalogVars, storeVars, handoffVars, waitVars>>
    \/ /\ part = "catalog" /\ Catalog!Next
       /\ UNCHANGED <<part, vars, storeVars, handoffVars, waitVars>>
    \/ /\ part = "store" /\ Store!Next
       /\ UNCHANGED <<part, vars, catalogVars, handoffVars, waitVars>>
    \/ /\ part = "handoff" /\ Handoff!Next
       /\ UNCHANGED <<part, vars, catalogVars, storeVars, waitVars>>
    \/ /\ part = "waits" /\ Waits!Next
       /\ UNCHANGED <<part, vars, catalogVars, storeVars, handoffVars>>

MCSpec == MCInit /\ [][MCNext]_<<part, vars, catalogVars, storeVars, handoffVars, waitVars>>

MCSymmetry == Permutations(Sessions)

-----------------------------------------------------------------------------
(* Properties of the other parts, under their own names.                    *)

\* An account is resolved over the connection it was listed by, with the client of the token
\* that is stored, and what is reported of a connection is about this one
\* (auth/onepassword-catalog.js, auth/onepassword.js).
CatalogIsCurrent ==
    /\ Catalog!ResolvedAsListed
    /\ [](Catalog!ClientIsStored /\ Catalog!HealthIsCurrent)

\* What a mutation of the state file was answered to have done stays (auth/store.js).
DoneStays == Store!DoneStays

\* A pin names what was handed over to its profile (auth/session-handoff.js).
PinCovers == Handoff!PinCovers

\* No caller sleeps on after the outcome it waits for, and however a call ends, its place
\* among the waiting ones is free again (auth/broker.js, wait).
WaitersAreServed == Waits!WokenByChange /\ Waits!WaitsAreCounted
=============================================================================
