----------------------------- MODULE CookieSync -----------------------------
(***************************************************************************)
(* A source and one receiver over the relay: SourcePublish writes, the     *)
(* relay keeps the newest blobs and expires old ones, ReceiverSync reads.  *)
(* The user of the source browses, and both sides sync again and again: the *)
(* installed service is "chromesync watch" (cli/index.js), kept alive; it   *)
(* syncs every profile at every interval and goes on after an error.  The  *)
(* pair stays paired, and no site changes cookies in the receiver's Chrome,*)
(* so that the jars can be compared.                                       *)
(***************************************************************************)
EXTENDS Snapshots

CONSTANTS
    Receiver,     \* the paired device
    RefreshAge,   \* SourcePublish
    Keep,         \* retentionPerHost of the relay: blobs kept per source
    MaxJump,      \* ReceiverSync
    MaxCounter, MaxTime, MaxBrowser,
    MaxChanges,   \* bound of the changes to the source's cookies
    MaxFaults     \* bound of the failures

ASSUME SyncAssumption ==
    /\ Keep \in Nat \ {0}
    /\ MaxChanges \in Nat
    /\ MaxFaults \in Nat

VARIABLES
    now, paired, revoked, counter, acked, pending, spc, todo, cur, collected,
    sat, emitted, stored,                                    \* the source
    relay,                                                   \* the relay
    chan, accepted, journal, seenBrowser, recovery, jar, browser, rpc, rat,
    latest, snap, client, previous, offline, imported, drift, applied,
    src,        \* the cookies of the source's Chrome
    changes,    \* how often they changed
    faults      \* how many failures happened

S == INSTANCE SourcePublish WITH
        Devices <- {Receiver}, Contents <- Jar,
        pc <- spc, at <- sat, cookies <- collected

R == INSTANCE ReceiverSync WITH
        pc <- rpc, at <- rat, published <- emitted[Receiver]

\* What only one side changes.  The clock, the ciphertexts that left the source
\* and the relay are between them.
sourceOwn == <<paired, revoked, counter, acked, pending, spc, todo, cur,
               collected, sat, stored>>
receiverOwn == <<chan, accepted, journal, seenBrowser, recovery, browser, jar,
                 rpc, rat, latest, snap, client, previous, offline, imported,
                 drift, applied>>
between == <<now, emitted, relay>>
vars == <<sourceOwn, receiverOwn, between, src, changes, faults>>

Init ==
    /\ S!Init
    /\ R!Init
    /\ src = EmptyJar
    /\ changes = 0
    /\ faults = 0

\* applyRetention: the Keep highest counters of a source stay.
Kept(blobs) ==
    {b \in blobs : Cardinality({o \in blobs : o.counter > b.counter}) < Keep}

\* A push puts the pending blob into the room; a failed one may have.
SourceAndRelay ==
    \/ /\ S!PushStored
       /\ relay' = Kept(relay \cup {pending[cur]})
       /\ UNCHANGED faults
    \/ /\ S!PushFailed
       /\ faults < MaxFaults
       /\ faults' = faults + 1
       /\ \/ stored' = stored /\ relay' = relay
          \/ /\ pending[cur] \in stored'[cur]
             /\ relay' = Kept(relay \cup {pending[cur]})
    \/ /\ S!Abort
       /\ faults < MaxFaults
       /\ faults' = faults + 1
       /\ UNCHANGED relay
    \/ /\ spc # "push"
       /\ S!RunStep \/ S!Begin(src)
       /\ UNCHANGED <<relay, faults>>

SourceStep ==
    /\ SourceAndRelay
    /\ UNCHANGED <<receiverOwn, src, changes>>

Pair ==
    /\ S!Approve(Receiver)
    /\ UNCHANGED <<receiverOwn, relay, src, changes, faults>>

ReceiverRun ==
    /\ UNCHANGED <<sourceOwn, emitted, src, changes, faults>>
    /\ R!RunStep

ReceiverFault ==
    /\ faults < MaxFaults
    /\ faults' = faults + 1
    /\ UNCHANGED <<sourceOwn, emitted, src, changes>>
    /\ R!Fault

ReceiverChromeRestarts ==
    /\ UNCHANGED <<sourceOwn, emitted, src, changes, faults>>
    /\ R!RestartChrome

\* sweepExpired: a blob older than the time to live leaves the relay.
Expire(b) ==
    /\ now - b.createdAt > SnapshotTtl
    /\ relay' = relay \ {b}
    /\ UNCHANGED <<sourceOwn, receiverOwn, now, emitted, src, changes, faults>>

Browse ==
    /\ changes < MaxChanges
    /\ src' \in Jar \ {src}
    /\ changes' = changes + 1
    /\ UNCHANGED <<sourceOwn, receiverOwn, between, faults>>

Tick ==
    /\ S!Tick
    /\ UNCHANGED <<receiverOwn, relay, src, changes, faults>>

Next ==
    \/ Pair
    \/ SourceStep
    \/ ReceiverRun
    \/ ReceiverFault
    \/ ReceiverChromeRestarts
    \/ \E b \in relay : Expire(b)
    \/ Browse
    \/ Tick

Spec == Init /\ [][Next]_vars

\* Both services keep running, every run goes on to its end, and the relay's
\* sweeper runs: the fairness of programs that are started again and again.
\* Nothing makes the user pair or browse, the clock pass or a failure happen.
Fairness ==
    /\ WF_vars(SourceStep /\ faults' = faults)
    /\ WF_vars(ReceiverRun)

FairSpec == Spec /\ Fairness

-----------------------------------------------------------------------------
(* Properties.                                                              *)

\* What the receiver assumes of its surroundings holds behind this source and
\* this relay: the pair implements ReceiverSync, and so its invariants.
ImplementsReceiver == R!Spec

\* The cookies of the receiver are those of the source at last, whatever pushes,
\* lists, runs and browsers failed on the way, once both are left alone.
EventuallyMirrors == <>(Receiver \in paired) => <>[](jar = src)

=============================================================================
