------------------------------ MODULE AutoSync ------------------------------
(***************************************************************************)
(* The extension's automatic sync, src/background.js with src/autosync.js  *)
(* and src/engine.js.  A change of a cookie raises two flags in storage    *)
(* and an alarm; the alarm runs one sync for every change of the last half *)
(* minute; a periodic alarm, the start of the browser and an idle machine  *)
(* run one regardless.                                                     *)
(*                                                                         *)
(* Every handler runs from await to await beside the others, and a sync    *)
(* does not know of another one.  The service worker may be stopped with   *)
(* all of them; storage stays, alarms stay unless the browser restarts or  *)
(* the extension is updated.                                               *)
(***************************************************************************)
EXTENDS Naturals, Sequences, FiniteSets

CONSTANTS
    Slots,       \* handlers in progress at one time
    Sinks,       \* the sinks that are enabled, in the order of the registry
    MaxChanges,  \* bound of the changes of the cookies
    MaxStops,    \* bound of the stops of the service worker
    MaxFails     \* bound of the pushes that fail

Targets == {Sinks[i] : i \in 1..Len(Sinks)}

Idle == [pc |-> "idle"]

VARIABLES
    jar,         \* the version of the cookies in Chrome
    pendingSync, coalesceScheduled,   \* flags in chrome.storage.local
    throttled,   \* lastSyncAt is less than the throttle ago
    coalesce,    \* the coalescing alarm is set
    periodic,    \* the periodic alarm is set
    task,        \* the handler in each slot
    early,       \* handlers under way since before the coalescing alarm was set
    target,      \* the version each sink was given last
    collected,   \* history: the newest version a sync has read
    stops, fails

flags == <<pendingSync, coalesceScheduled>>
alarms == <<coalesce, periodic>>
bounds == <<stops, fails>>
vars == <<jar, flags, throttled, alarms, task, early, target, collected, bounds>>

Init ==
    /\ jar = 0
    /\ pendingSync = FALSE /\ coalesceScheduled = FALSE
    /\ throttled = FALSE
    /\ coalesce = FALSE /\ periodic = TRUE
    /\ task = [i \in Slots |-> Idle] /\ early = {}
    /\ target = [s \in Targets |-> 0]
    /\ collected = 0
    /\ stops = 0 /\ fails = 0

Begin(i, t) == task[i] = Idle /\ task' = [task EXCEPT ![i] = t]
Goto(i, t) == task' = [task EXCEPT ![i] = t]
At(i, pc) == task[i].pc = pc

\* Handlers that only read and write the flags: none of them takes half a minute.
Brief ==
    {i \in Slots : task[i].pc \in {"changed", "pend", "alarm", "mark",
                                  "fired", "again", "remark", "clear"}}

-----------------------------------------------------------------------------
(* cookies.onChanged.                                                       *)

\* The cookies change, and the handler starts: it reads the configuration first.
Change(i) ==
    /\ jar < MaxChanges
    /\ jar' = jar + 1
    /\ Begin(i, [pc |-> "changed"])
    /\ UNCHANGED <<flags, throttled, alarms, early, target, collected, bounds>>

\* The flags are read; whether an alarm is needed is decided on what they were.
ReadFlags(i) ==
    /\ At(i, "changed")
    /\ Goto(i, [pc |-> "pend", schedule |-> ~coalesceScheduled])
    /\ UNCHANGED <<jar, flags, throttled, alarms, early, target, collected, bounds>>

SetPending(i) ==
    /\ At(i, "pend")
    /\ pendingSync' = TRUE
    /\ IF task[i].schedule
       THEN Goto(i, [pc |-> "alarm"]) /\ UNCHANGED early
       ELSE Goto(i, Idle) /\ early' = early \ {i}
    /\ UNCHANGED <<jar, coalesceScheduled, throttled, alarms, target, collected, bounds>>

\* An alarm of the same name is replaced.
CreateAlarm(i) ==
    /\ At(i, "alarm")
    /\ coalesce' = TRUE /\ early' = Brief
    /\ Goto(i, [pc |-> "mark"])
    /\ UNCHANGED <<jar, flags, throttled, periodic, target, collected, bounds>>

MarkScheduled(i) ==
    /\ At(i, "mark")
    /\ coalesceScheduled' = TRUE /\ early' = Brief \ {i}
    /\ Goto(i, Idle)
    /\ UNCHANGED <<jar, pendingSync, throttled, alarms, target, collected, bounds>>

-----------------------------------------------------------------------------
(* The coalescing alarm, handleCoalesce.                                    *)

\* An alarm comes half a minute after it was set at the earliest: by then whoever was
\* under way when it was set, or when its creator had stored that it is, has finished.
Fire(i) ==
    /\ coalesce /\ early = {}
    /\ coalesce' = FALSE
    /\ Begin(i, [pc |-> "fired"])
    /\ UNCHANGED <<jar, flags, throttled, periodic, early, target, collected, bounds>>

\* decideCoalesceFire: nothing to do, not yet, or now.
Decide(i) ==
    /\ At(i, "fired")
    /\ Goto(i, IF ~pendingSync THEN [pc |-> "clear", sync |-> FALSE]
               ELSE IF throttled THEN [pc |-> "again"]
               ELSE [pc |-> "clear", sync |-> TRUE])
    /\ UNCHANGED <<jar, flags, throttled, alarms, early, target, collected, bounds>>

Reschedule(i) ==
    /\ At(i, "again")
    /\ coalesce' = TRUE /\ early' = Brief
    /\ Goto(i, [pc |-> "remark"])
    /\ UNCHANGED <<jar, flags, throttled, periodic, target, collected, bounds>>

MarkAgain(i) ==
    /\ At(i, "remark")
    /\ coalesceScheduled' = TRUE /\ pendingSync' = TRUE
    /\ early' = Brief \ {i}
    /\ Goto(i, Idle)
    /\ UNCHANGED <<jar, throttled, alarms, target, collected, bounds>>

\* Mutant: the pending flag alone is cleared.
ClearPendingOnly(i) ==
    /\ At(i, "clear")
    /\ pendingSync' = FALSE
    /\ early' = early \ {i}
    /\ Goto(i, IF task[i].sync THEN [pc |-> "collect"] ELSE Idle)
    /\ UNCHANGED <<jar, coalesceScheduled, throttled, alarms, target, collected, bounds>>

\* The flags are cleared before the cookies are read.
Clear(i) ==
    /\ At(i, "clear")
    /\ pendingSync' = FALSE /\ coalesceScheduled' = FALSE
    /\ early' = early \ {i}
    /\ Goto(i, IF task[i].sync THEN [pc |-> "collect"] ELSE Idle)
    /\ UNCHANGED <<jar, throttled, alarms, target, collected, bounds>>

-----------------------------------------------------------------------------
(* runSync.                                                                 *)

\* The periodic alarm; it stays set.
Periodic(i) ==
    /\ periodic
    /\ Begin(i, [pc |-> "collect"])
    /\ UNCHANGED <<jar, flags, throttled, alarms, early, target, collected, bounds>>

\* An idle machine, or "Sync now".
SyncNow(i) ==
    /\ Begin(i, [pc |-> "collect"])
    /\ UNCHANGED <<jar, flags, throttled, alarms, early, target, collected, bounds>>

\* The cookies are collected once for all sinks.
Collect(i) ==
    /\ At(i, "collect")
    /\ collected' = jar
    /\ Goto(i, [pc |-> "push", version |-> jar, left |-> Sinks])
    /\ UNCHANGED <<jar, flags, throttled, alarms, early, target, bounds>>

Pushing(i) == At(i, "push") /\ task[i].left # <<>>

Skip(i) == Goto(i, [task[i] EXCEPT !.left = Tail(@)])

\* One sink after the other is given what was collected.
Push(i) ==
    /\ Pushing(i)
    /\ target' = [target EXCEPT ![Head(task[i].left)] = task[i].version]
    /\ Skip(i)
    /\ UNCHANGED <<jar, flags, throttled, alarms, early, collected, bounds>>

\* A sink that is not valid or that fails does not keep the others from theirs.
PushFails(i) ==
    /\ Pushing(i) /\ fails < MaxFails
    /\ fails' = fails + 1
    /\ Skip(i)
    /\ UNCHANGED <<jar, flags, throttled, alarms, early, target, collected, stops>>

\* lastSyncAt, whatever the sinks answered.
Finish(i) ==
    /\ At(i, "push") /\ task[i].left = <<>>
    /\ throttled' = TRUE
    /\ Goto(i, Idle)
    /\ UNCHANGED <<jar, flags, alarms, early, target, collected, bounds>>

-----------------------------------------------------------------------------

\* The throttle window ends.
Tick ==
    /\ throttled
    /\ throttled' = FALSE
    /\ UNCHANGED <<jar, flags, alarms, task, early, target, collected, bounds>>

\* The service worker is stopped with all its handlers.
Stop ==
    /\ stops < MaxStops
    /\ stops' = stops + 1
    /\ task' = [i \in Slots |-> Idle] /\ early' = {}
    /\ UNCHANGED <<jar, flags, throttled, alarms, target, collected, fails>>

\* Mutant: nothing sets the periodic alarm again.
RestartForgetsAlarm(i) ==
    /\ stops < MaxStops
    /\ stops' = stops + 1
    /\ task' = [[j \in Slots |-> Idle] EXCEPT ![i] = [pc |-> "collect"]] /\ early' = {}
    /\ coalesce' \in {coalesce, FALSE}
    /\ periodic' \in {periodic, FALSE}
    /\ UNCHANGED <<jar, flags, throttled, target, collected, fails>>

\* The browser restarts or the extension is updated, with or without its alarms;
\* scheduleFromConfig sets the periodic one, and a sync starts.
Restart(i) ==
    /\ stops < MaxStops
    /\ stops' = stops + 1
    /\ task' = [[j \in Slots |-> Idle] EXCEPT ![i] = [pc |-> "collect"]] /\ early' = {}
    /\ coalesce' \in {coalesce, FALSE}
    /\ periodic' = TRUE
    /\ UNCHANGED <<jar, flags, throttled, target, collected, fails>>

OnChange(i) ==
    ReadFlags(i) \/ SetPending(i) \/ CreateAlarm(i) \/ MarkScheduled(i)

OnCoalesce(i) == Decide(i) \/ Reschedule(i) \/ MarkAgain(i) \/ Clear(i)

RunSync(i) == Collect(i) \/ Push(i) \/ PushFails(i) \/ Finish(i)

Step(i) == OnChange(i) \/ OnCoalesce(i) \/ RunSync(i)

Next ==
    \/ \E i \in Slots :
          Change(i) \/ Fire(i) \/ Periodic(i) \/ SyncNow(i) \/ Step(i) \/ Restart(i)
    \/ Tick
    \/ Stop

\* A handler goes on while its worker runs, and the periodic alarm comes again and
\* again; the slots only bound how many handlers the model follows at one time.
Fairness ==
    /\ \A i \in Slots : WF_vars(Step(i))
    /\ SF_vars(\E i \in Slots : Periodic(i))

Spec == Init /\ [][Next]_vars /\ Fairness

-----------------------------------------------------------------------------
(* Properties.                                                              *)

Task ==
    [pc : {"idle", "changed", "alarm", "mark", "fired", "again", "remark", "collect"}]
      \cup [pc : {"pend"}, schedule : BOOLEAN]
      \cup [pc : {"clear"}, sync : BOOLEAN]
      \cup [pc : {"push"}, version : 0..MaxChanges,
            left : {SubSeq(Sinks, n, Len(Sinks)) : n \in 1..(Len(Sinks) + 1)}]

\* Every variable keeps its type.
TypeOK ==
    /\ jar \in 0..MaxChanges
    /\ {pendingSync, coalesceScheduled, throttled, coalesce, periodic} \subseteq BOOLEAN
    /\ task \in [Slots -> Task] /\ early \subseteq Slots
    /\ target \in [Targets -> 0..MaxChanges]
    /\ collected \in 0..MaxChanges
    /\ stops \in 0..MaxStops /\ fails \in 0..MaxFails

\* A handler that has yet to take note of a change, or to run its sync.
Underway(t) ==
    \/ t.pc \in {"changed", "alarm", "fired", "again", "remark", "collect"}
    \/ t.pc = "pend" /\ t.schedule
    \/ t.pc = "clear" /\ t.sync

\* While the worker is not stopped, no change waits for the periodic alarm: until the
\* cookies have been read again an alarm is set that will find the pending flag, or a
\* handler is on its way, in whatever order handlers read and write the two flags.
ChangeNotForgotten ==
    stops = 0 /\ collected # jar =>
      \/ coalesce /\ (pendingSync \/ \E i \in Slots : At(i, "pend"))
      \/ \E i \in Slots : Underway(task[i])

\* Every sink ends up with the last cookies: syncs that overlap and push in the wrong
\* order, stops of the worker, lost alarms and failed pushes are all made good.
EventuallyPublished == \A s \in Targets : <>[](target[s] = jar)
=============================================================================
