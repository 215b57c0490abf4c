------------------------------- MODULE MCRelay -------------------------------
(***************************************************************************)
(* What carries the blobs, in one model: the blob store of the relay       *)
(* server, the relay on Cloudflare, the gate in front of the server, and   *)
(* the shared folder.  They share no state, so each is followed by itself. *)
(* part says which; the variables of the others stay as they were          *)
(* initially.                                                              *)
(***************************************************************************)
EXTENDS RelayStore, TLC

CONSTANTS
    h1, h2, w1, r1, r2,
    Requests, WorkerHosts, WorkerSizes, WorkerKeep, WorkerBlobs, WorkerBytes, WorkerCounter,
    MaxBody, Overlap, MaxCuts, MaxLate,
    Addresses, Rooms, Admitted, Token, IpCapacity, RoomCapacity, MaxBuckets, GateTime,
    DropCounter, MaxFaults

VARIABLES
    part,
    objects, reqs, late, cuts, sent, owed, newest,
    clock, ips, rooms, ipLedger, roomLedger, forgot, answer,
    exported, exporting, versions, folder, arrived, saved, replay, queue, injecting, injected,
    faults

workerVars == <<objects, reqs, late, cuts, sent, owed, newest>>
gateVars == <<clock, ips, rooms, ipLedger, roomLedger, forgot, answer>>
dropVars == <<exported, exporting, versions, folder, arrived, saved, replay, queue, injecting,
              injected, faults>>

Worker == INSTANCE WorkerStore WITH
    Hosts <- WorkerHosts, Sizes <- WorkerSizes, Keep <- WorkerKeep, MaxBlobs <- WorkerBlobs,
    MaxBytes <- WorkerBytes, MaxCounter <- WorkerCounter, acked <- owed
Gate == INSTANCE RelayGate WITH now <- clock, MaxTime <- GateTime
Drop == INSTANCE FileDrop WITH MaxCounter <- DropCounter, files <- queue

ASSUME PartsAssumption ==
    /\ IsFiniteSet(Requests)
    /\ WorkerSizes \subseteq Nat
    /\ {WorkerKeep, WorkerBlobs, WorkerBytes, WorkerCounter, Overlap} \subseteq Nat
    /\ {Token, IpCapacity, RoomCapacity, MaxBuckets} \subseteq Nat
    /\ DropCounter \in Nat

MCInit ==
    /\ part \in {"server", "worker", "gate", "drop"}
    /\ Init /\ Worker!Init /\ Gate!Init /\ Drop!Init

MCNext ==
    \/ part = "server" /\ Next /\ UNCHANGED <<part, workerVars, gateVars, dropVars>>
    \/ part = "worker" /\ Worker!Next /\ UNCHANGED <<part, vars, gateVars, dropVars>>
    \/ part = "gate" /\ Gate!Next /\ UNCHANGED <<part, vars, workerVars, dropVars>>
    \/ part = "drop" /\ Drop!Next /\ UNCHANGED <<part, vars, workerVars, gateVars>>

MCSpec == MCInit /\ [][MCNext]_<<part, vars, workerVars, gateVars, dropVars>>

\* The hosts of the server are those of the folder.
MCSymmetry == Permutations(Hosts) \cup Permutations(Requests)

-----------------------------------------------------------------------------
(* Properties of both stores, and of the other parts under their own names. *)

\* A room keeps within its quotas (server/store.js, and worker/index.js when no PUT is
\* under way).
RoomsWithinQuota == WithinQuota /\ Worker!QuietWithinQuota

\* What either relay answered 204 is in the capped listing until something newer of its
\* own host, a PUT of its own name, a DELETE or its age takes it away.  A late deletion of
\* what had expired (the worker's forgetKeys) takes only what was answered while that
\* deletion was waiting for its name.
PutsAreListed == AckedIsListed /\ Worker!AckedIsListed

\* No host is erased.  No PUT to the server costs a host its newest blob, but a refused
\* PUT of that blob's own name (see RefusalKeepsNewest for when that can be); and neither
\* PUTs to the worker that overlap, nor its late deletions, take a host's newest object
\* and all newer ones (see Worker!HostKeepsNewest for what is promised).
HostKeepsNewest ==
    /\ RefusalKeepsNewest
    /\ [][Worker!HostKeepsNewest']_workerVars

\* Forgetting idle buckets makes the rate limits of the server neither weaker nor, through
\* the requests of others, stronger.
LimitsAreExact == Gate!ForgettingIsLossless /\ Gate!RefusedWhenSpent

\* The browser is never behind the replay counters (companion/drop.js).
NeverBehind == Drop!NeverBehind
=============================================================================
