----------------------------- MODULE Enrollments -----------------------------
(***************************************************************************)
(* How the executor keeps the stored enrollments, the services its browser *)
(* controller knows and the connection to the vault together:              *)
(* auth/runtime.js, with broker.putEnrollment and broker.retireProvider.   *)
(*                                                                         *)
(* An agent selects an account for a discovery browser, the owner enrolls  *)
(* a service, removes, replaces or switches off the connection.  Each is a *)
(* handler that waits between its steps, and all of them may be under way  *)
(* at once: sets of services and an epoch are what they know of each       *)
(* other.  A write may fail before or after it took effect, and the        *)
(* executor may stop at any step; what it had in memory is then rebuilt    *)
(* from what was stored.                                                   *)
(*                                                                         *)
(* One connection.  A browser is opened and closed in one step (its steps  *)
(* are those of BrowserSessions); what a handle names is chosen when it is *)
(* resolved (AccountCatalog).                                              *)
(***************************************************************************)
EXTENDS Naturals, FiniteSets

CONSTANTS
    Services,
    Sessions,      \* the browser of a requester
    Configs,       \* what an enrollment of a service may say
    MaxRemovals,   \* bound of removals of the connection
    MaxEpoch,      \* bound of discoveryEpoch
    MaxUpsets      \* bound of failing writes and restarts

\* 0 is the configuration of no enrollment.
ASSUME ConfigsAssumption == 0 \notin Configs

VARIABLES
    \* stored
    token,         \* the record of the connection has a token
    enabled,       \* discoveryEnabled
    enrolled,      \* enrolled[s]: the enrollment of s, None when there is none
    \* in memory
    map,           \* the controller's serviceMap
    epoch,         \* discoveryEpoch
    updating,      \* updatingServices
    blocked,       \* blockedServices
    discovery,     \* discoverySessions
    slots,         \* catalogWork
    session,       \* session[x]: the browser of x
    select,        \* select[x]: accounts.select under way
    put,           \* put[s]: enrollment.put under way
    change,        \* the change of the connection under way (changingProviders)
    \* bounds and history
    removals,      \* removals of the connection so far
    upsets,
    removed,       \* the last word of a change was 'removed'
    lost           \* services a retirement took away and did not report

stored == <<token, enabled, enrolled>>
catalog == <<epoch, discovery, slots>>
services == <<map, updating, blocked>>
bounds == <<removals, upsets>>
history == <<removed, lost>>
vars == <<stored, catalog, services, session, select, put, change, bounds, history>>

None == [config |-> 0, since |-> 0]
NoSession == [at |-> "none", service |-> "", config |-> 0, since |-> 0, given |-> ""]
Idle == [at |-> "idle"]

Init ==
    /\ token = TRUE /\ enabled = TRUE
    /\ enrolled = [s \in Services |-> None]
    /\ map = [s \in Services |-> 0]
    /\ epoch = 0
    /\ updating = {} /\ blocked = {} /\ discovery = {} /\ slots = {}
    /\ session = [x \in Sessions |-> NoSession]
    /\ select = [x \in Sessions |-> Idle]
    /\ put = [s \in Services |-> Idle]
    /\ change = Idle
    /\ removals = 0 /\ upsets = 0
    /\ removed = FALSE /\ lost = {}

\* controller.removeService and setService: the browsers of the services are closed.
Without(ss) ==
    [x \in Sessions |-> IF session[x].at = "bound" /\ session[x].service \in ss
                        THEN NoSession ELSE session[x]]

RemoveServices(ss) ==
    /\ map' = [s \in Services |-> IF s \in ss THEN 0 ELSE map[s]]
    /\ session' = Without(ss)

\* A write that fails has been done or not.
Fails == upsets < MaxUpsets /\ upsets' = upsets + 1

-----------------------------------------------------------------------------
(* The agent's browsers.                                                    *)

\* browser.open with a URL.
OpenDiscovery(x) ==
    /\ session[x].at = "none" /\ select[x] = Idle
    /\ session' = [session EXCEPT ![x] = [NoSession EXCEPT !.at = "discovery"]]
    /\ discovery' = discovery \cup {x}
    /\ UNCHANGED <<stored, epoch, slots, services, select, put, change, bounds,
                   history>>

\* browser.open with a service.
OpenService(x, s) ==
    /\ session[x].at = "none" /\ select[x] = Idle
    /\ s \notin updating \cup blocked
    /\ map[s] # 0
    /\ session' = [session EXCEPT ![x] = [at |-> "bound", service |-> s, config |-> map[s],
                                          since |-> enrolled[s].since, given |-> "opened"]]
    /\ UNCHANGED <<stored, catalog, services, select, put, change, bounds, history>>

\* browser.close
CloseBrowser(x) ==
    /\ session[x].at # "none"
    /\ session' = [session EXCEPT ![x] = NoSession]
    /\ discovery' = discovery \ {x}
    /\ UNCHANGED <<stored, epoch, slots, services, select, put, change, bounds,
                   history>>

-----------------------------------------------------------------------------
(* accounts.select.                                                         *)

Moves(x, at) == select' = [select EXCEPT ![x].at = at]

BeginSelect(x) ==
    /\ select[x] = Idle /\ x \in discovery /\ x \notin slots
    /\ select' = [select EXCEPT ![x] = [at |-> "resolve", epoch |-> epoch]]
    /\ slots' = slots \cup {x}
    /\ UNCHANGED <<stored, epoch, discovery, services, session, put, change, bounds, history>>

\* The caller gives up; the call to the vault can not be cancelled and keeps its slot.
SelectTimesOut(x) ==
    /\ select[x].at = "resolve"
    /\ select' = [select EXCEPT ![x] = Idle]
    /\ UNCHANGED <<stored, catalog, services, session, put, change, bounds, history>>

\* The account, which needs the token.
Resolved(x, s, c) ==
    /\ x \in slots /\ token
    /\ slots' = slots \ {x}
    /\ select' = IF select[x].at = "resolve"
                 THEN [select EXCEPT ![x] = [at |-> "check", epoch |-> select[x].epoch,
                                             service |-> s, config |-> c, since |-> removals,
                                             changing |-> FALSE]]
                 ELSE select
    /\ UNCHANGED <<stored, epoch, discovery, services, session, put, change, bounds, history>>

ResolveFails(x) ==
    /\ x \in slots
    /\ slots' = slots \ {x}
    /\ select' = IF select[x].at = "resolve" THEN [select EXCEPT ![x] = Idle] ELSE select
    /\ UNCHANGED <<stored, epoch, discovery, services, session, put, change, bounds, history>>

Discoverable == token /\ enabled

CheckSelected(x) ==
    /\ select[x].at = "check"
    /\ LET s == select[x].service
       IN  IF Discoverable /\ s \notin updating \cup blocked
           THEN updating' = updating \cup {s} /\ Moves(x, "read")
           ELSE select' = [select EXCEPT ![x] = Idle] /\ UNCHANGED updating
    /\ UNCHANGED <<stored, catalog, map, blocked, session, put, change, bounds, history>>

\* An enrollment that says something else is in the way: its browsers go first.
ReadPrevious(x) ==
    /\ select[x].at = "read"
    /\ LET s == select[x].service
           changing == enrolled[s] # None /\ enrolled[s].config # select[x].config
       IN  /\ select' = [select EXCEPT ![x].at = "save", ![x].changing = changing]
           /\ IF changing THEN blocked' = blocked \cup {s} /\ RemoveServices({s})
                          ELSE UNCHANGED <<map, blocked, session>>
    /\ UNCHANGED <<stored, catalog, updating, put, change, bounds, history>>

\* broker.putEnrollment: an enrollment that says the same is kept as it is.
Enroll(s, c, since) ==
    enrolled' = IF enrolled[s].config = c THEN enrolled
                ELSE [enrolled EXCEPT ![s] = [config |-> c, since |-> since]]

SaveSelected(x) ==
    /\ select[x].at = "save"
    /\ LET s == select[x].service
           Saved == Enroll(s, select[x].config, select[x].since)
       IN  \/ Saved /\ Moves(x, "bind") /\ UNCHANGED <<updating, upsets>>
           \/ /\ Fails
              /\ (Saved \/ UNCHANGED enrolled)
              /\ updating' = updating \ {s}
              /\ select' = [select EXCEPT ![x] = Idle]
    /\ UNCHANGED <<token, enabled, catalog, map, blocked, session, put, change, removals,
                   history>>

\* controller.bindDiscoveredAccount: the browser must be there, on its page, and free.
BindSelected(x) ==
    /\ select[x].at = "bind"
    /\ LET s == select[x].service
       IN  \/ /\ session[x].at = "discovery"
              /\ map' = [map EXCEPT ![s] = select[x].config]
              /\ session' = [session EXCEPT ![x] = [NoSession EXCEPT !.at = "bound",
                               !.service = s, !.config = select[x].config,
                               !.since = select[x].since]]
              /\ Moves(x, "final")
           \/ Moves(x, "undo") /\ UNCHANGED <<map, session>>
    /\ UNCHANGED <<stored, catalog, updating, blocked, put, change, bounds, history>>

\* The connections are read once more; then, after another wait, the epoch is compared.
ReadConnections(x) ==
    /\ select[x].at = "final"
    /\ Moves(x, IF Discoverable THEN "answer" ELSE "undo")
    /\ UNCHANGED <<stored, catalog, services, session, put, change, bounds, history>>

\* Mutant of SameEpoch: that the connection is there now is enough.
SameEpochAlways(x) == TRUE

SameEpoch(x) == select[x].epoch = epoch

Answer(x) ==
    /\ select[x].at = "answer"
    /\ IF SameEpoch(x)
       THEN /\ discovery' = discovery \ {x}
            /\ blocked' = blocked \ {select[x].service}
            /\ updating' = updating \ {select[x].service}
            /\ session' = IF session[x].at = "bound"
                          THEN [session EXCEPT ![x].given = "selected"] ELSE session
            /\ select' = [select EXCEPT ![x] = Idle]
       ELSE Moves(x, "undo") /\ UNCHANGED <<discovery, blocked, updating, session>>
    /\ UNCHANGED <<stored, epoch, slots, map, put, change, bounds, history>>

\* It was enrolled and can not be used: the browser is closed, unless its agent has an
\* operation under way in it.
\* A service that was blocked stays so.
Undo(x) ==
    /\ select[x].at = "undo"
    /\ discovery' = discovery \ {x}
    /\ session' \in {session, [session EXCEPT ![x] = NoSession]}
    /\ updating' = updating \ {select[x].service}
    /\ select' = [select EXCEPT ![x] = Idle]
    /\ UNCHANGED <<stored, epoch, slots, map, blocked, put, change, bounds, history>>

-----------------------------------------------------------------------------
(* enrollment.put.                                                          *)

BeginPut(s, c) ==
    /\ put[s] = Idle /\ s \notin updating
    /\ updating' = updating \cup {s} /\ blocked' = blocked \cup {s}
    /\ RemoveServices({s})
    /\ put' = [put EXCEPT ![s] = [at |-> "save", config |-> c, before |-> map[s]]]
    /\ UNCHANGED <<stored, catalog, select, change, bounds, history>>

\* Nothing can come between the end of a successful write and the entry setService makes.
SavePut(s) ==
    /\ put[s].at = "save"
    /\ LET Saved == Enroll(s, put[s].config, removals)
       IN  \/ /\ Saved
              /\ map' = [map EXCEPT ![s] = put[s].config]
              /\ put' = [put EXCEPT ![s].at = "set"]
              /\ UNCHANGED upsets
           \/ /\ Fails
              /\ (Saved \/ UNCHANGED enrolled)
              /\ put' = [put EXCEPT ![s].at = "undo"]
              /\ UNCHANGED map
    /\ UNCHANGED <<token, enabled, catalog, updating, blocked, session, select, change,
                   removals, history>>

\* setService has closed the browsers of the service.
SetPut(s) ==
    /\ put[s].at = "set"
    /\ session' = Without({s})
    /\ updating' = updating \ {s} /\ blocked' = blocked \ {s}
    /\ put' = [put EXCEPT ![s] = Idle]
    /\ UNCHANGED <<stored, catalog, map, select, change, bounds, history>>

\* Mutant of UndoPut: what the service was before is put back.
UndoPutRestores(s) ==
    /\ put[s].at = "undo"
    /\ map' = [map EXCEPT ![s] = put[s].before]
    /\ updating' = updating \ {s} /\ blocked' = blocked \ {s}
    /\ put' = [put EXCEPT ![s] = Idle]
    /\ UNCHANGED <<stored, catalog, session, select, change, bounds, history>>

\* It is not known what was stored: the service stays blocked until it is put again or
\* the executor starts anew.
UndoPut(s) ==
    /\ put[s].at = "undo"
    /\ RemoveServices({s})
    /\ updating' = updating \ {s}
    /\ put' = [put EXCEPT ![s] = Idle]
    /\ UNCHANGED <<stored, catalog, blocked, select, change, bounds, history>>

-----------------------------------------------------------------------------
(* provider.remove, provider.put and provider.discovery.                    *)

Change(at) == change' = [change EXCEPT !.at = at]
NewEpoch == epoch < MaxEpoch /\ epoch' = epoch + 1

BeginRemove ==
    /\ change = Idle /\ slots = {} /\ removals < MaxRemovals /\ epoch < MaxEpoch
    /\ change' = [at |-> "drop", op |-> "remove", clean |-> {}]
    /\ removed' = FALSE
    /\ UNCHANGED <<stored, catalog, services, session, select, put, bounds, lost>>

\* The token is dropped and read back.
Drop ==
    /\ change.at = "drop"
    /\ LET Dropped == token' = FALSE /\ enabled' = FALSE /\ removals' = removals + 1
           Kept == UNCHANGED <<token, enabled, removals>>
       IN  \/ Dropped /\ Change("retire") /\ UNCHANGED upsets
           \/ Fails /\ (Dropped \/ Kept) /\ change' = Idle
    /\ NewEpoch
    /\ UNCHANGED <<enrolled, discovery, slots, services, session, select, put, history>>

BeginPutConnection ==
    /\ change = Idle /\ "connection" \notin slots /\ epoch < MaxEpoch
    /\ slots' = slots \cup {"connection"}
    /\ change' = [at |-> "validate", op |-> "put", clean |-> {}]
    /\ removed' = FALSE
    /\ UNCHANGED <<stored, epoch, discovery, services, session, select, put, bounds, lost>>

\* The new token is tried; the caller may have given up by then, or the token is no good.
Validated ==
    /\ "connection" \in slots
    /\ slots' = slots \ {"connection"}
    /\ change' = IF change.at # "validate" THEN change
                 ELSE [change EXCEPT !.at = IF token THEN "store" ELSE "retire"]
    /\ UNCHANGED <<stored, epoch, discovery, services, session, select, put, bounds, history>>

ValidationFails ==
    /\ change.at = "validate"
    /\ change' = Idle
    /\ \E late \in BOOLEAN : slots' = IF late THEN slots ELSE slots \ {"connection"}
    /\ UNCHANGED <<stored, epoch, discovery, services, session, select, put, bounds, history>>

\* broker.retireProvider takes the enrollments away and returns their services.  When it
\* fails after that the list is lost: the next retirement finds nothing to report.
Retire ==
    /\ change.at = "retire"
    /\ LET retired == {s \in Services : enrolled[s] # None}
           Retired == enrolled' = [s \in Services |-> None]
       IN  \/ /\ Retired
              /\ change' = [change EXCEPT !.at = "clean", !.clean = retired]
              /\ UNCHANGED <<upsets, lost>>
           \/ /\ Fails
              /\ change' = Idle
              /\ \/ Retired /\ lost' = lost \cup retired
                 \/ UNCHANGED <<enrolled, lost>>
    /\ UNCHANGED <<token, enabled, catalog, services, session, select, put, removals,
                   removed>>

\* The running authentications of these services have ended: the services go.
CleanUp ==
    /\ change.at = "clean"
    /\ RemoveServices(change.clean)
    /\ IF change.op = "remove" THEN change' = Idle /\ removed' = TRUE
                               ELSE Change("store") /\ UNCHANGED removed
    /\ UNCHANGED <<stored, catalog, updating, blocked, select, put, bounds, lost>>

StoreToken ==
    /\ change.at = "store"
    /\ LET Stored == token' = TRUE /\ enabled' \in BOOLEAN
       IN  \/ Stored /\ UNCHANGED upsets
           \/ Fails /\ (Stored \/ UNCHANGED <<token, enabled>>)
    /\ NewEpoch
    /\ change' = Idle
    /\ UNCHANGED <<enrolled, discovery, slots, services, session, select, put, removals,
                   history>>

\* provider.discovery: the switch is stored, then the epoch moves.
Switch ==
    /\ change = Idle /\ "connection" \notin slots /\ epoch < MaxEpoch
    /\ enabled' = ~enabled
    /\ change' = [at |-> "switched", op |-> "discovery", clean |-> {}]
    /\ UNCHANGED <<token, enrolled, catalog, services, session, select, put, bounds, history>>

Switched ==
    /\ change.at = "switched"
    /\ NewEpoch
    /\ change' = Idle
    /\ UNCHANGED <<stored, discovery, slots, services, session, select, put, bounds, history>>

\* The executor stops and starts: the services come from the stored enrollments.
Restart ==
    /\ upsets < MaxUpsets
    /\ upsets' = upsets + 1
    /\ map' = [s \in Services |-> enrolled[s].config]
    /\ epoch' = 0
    /\ updating' = {} /\ blocked' = {} /\ discovery' = {} /\ slots' = {}
    /\ session' = [x \in Sessions |-> NoSession]
    /\ select' = [x \in Sessions |-> Idle]
    /\ put' = [s \in Services |-> Idle]
    /\ change' = Idle
    /\ UNCHANGED <<stored, removals, history>>

-----------------------------------------------------------------------------
Next ==
    \/ \E x \in Sessions :
         \/ OpenDiscovery(x) \/ CloseBrowser(x)
         \/ \E s \in Services : OpenService(x, s)
         \/ BeginSelect(x) \/ SelectTimesOut(x) \/ ResolveFails(x)
         \/ \E s \in Services, c \in Configs : Resolved(x, s, c)
         \/ CheckSelected(x) \/ ReadPrevious(x) \/ SaveSelected(x) \/ BindSelected(x)
         \/ ReadConnections(x) \/ Answer(x) \/ Undo(x)
    \/ \E s \in Services :
         \/ \E c \in Configs : BeginPut(s, c)
         \/ SavePut(s) \/ SetPut(s) \/ UndoPut(s)
    \/ BeginRemove \/ Drop \/ BeginPutConnection \/ Validated \/ ValidationFails
    \/ Retire \/ CleanUp \/ StoreToken \/ Switch \/ Switched
    \/ Restart

Spec == Init /\ [][Next]_vars

-----------------------------------------------------------------------------
(* Properties.                                                              *)

\* "No browser can open with a mixed configuration" (auth/runtime.js:319): unless a change
\* of its service is under way, a browser of a service that may be used, and that was given
\* to its agent, is the browser of what is enrolled.  A removal of the connection, which
\* takes enrollments away under the handlers under way, is the subject of RemovalIsComplete.
NoMixedConfiguration ==
    removals = 0 =>
        \A x \in Sessions :
            LET s == session[x].service
            IN  session[x].given # "" /\ s \notin updating \cup blocked
                  => session[x].config = enrolled[s].config

\* Whatever the selection overtook or was overtaken by: while there is a connection and no
\* change of it is under way, no browser is left whose agent was told that an account of an
\* earlier connection was selected.  Except by a retirement whose write failed after it
\* took effect, which nothing repairs before a restart.
SelectedIsConnected ==
    change = Idle /\ token =>
        \A x \in Sessions :
            session[x].given = "selected" /\ session[x].service \notin lost
              => session[x].since = removals

\* docs/authentication.md:104 says that removing the connection "removes selected accounts
\* and browser services": once that was answered, no account that was selected through the
\* connection is left.
RemovalIsComplete ==
    removed => \A s \in Services : enrolled[s] # None => enrolled[s].since = removals
=============================================================================
