--------------------------- MODULE SourcePublish ---------------------------
(***************************************************************************)
(* The writer shared by every source of cookies, publishSnapshot of        *)
(* cli/sync.js: it runs under the profile lock, walks the paired receivers *)
(* one at a time and, for each, encrypts the collected cookies under the   *)
(* next counter of that receiver's key chain, makes the ciphertext and the *)
(* advanced chain durable in that order, pushes it to the relay and        *)
(* records the acknowledgement.  approvePairing and revokeDevice of        *)
(* cli/pairing.js take the same lock and change the set of receivers.      *)
(*                                                                         *)
(* Every write the code makes to disk, to the OS vault or to the relay is  *)
(* a step of its own, and a run may stop after any of them: an exception   *)
(* (a full disk, a locked vault), a kill or a reboot all end the run, give *)
(* the OS lock back and leave exactly what was durable.                    *)
(*                                                                         *)
(* What is collected is an element of Contents; the stored hash is an HMAC *)
(* of the canonical cookies, so two hashes are equal iff the contents are. *)
(***************************************************************************)
EXTENDS Integers, FiniteSets

CONSTANTS
    Devices,      \* identities a receiver may be paired under
    Contents,     \* what a source can collect: sets of cookies, opaque here
    None,         \* the absence of a file, a hash or a current receiver
    RefreshAge,   \* age at which unchanged cookies are sent again (one hour)
    MaxCounter,   \* the last counter of a chain ("Counter exhausted")
    MaxTime       \* bound of the clock

ASSUME CountsAssumption ==
    /\ RefreshAge \in Nat \ {0}
    /\ MaxCounter \in Nat
    /\ MaxTime \in Nat

\* An encrypted snapshot as the relay and the pending file hold it.
Blob == [counter : Nat, cookies : Contents, createdAt : Nat]

ASSUME NoneAssumption ==
    /\ None \notin Contents
    /\ None \notin Devices
    /\ None \notin Blob

VARIABLES
    now,        \* the source's clock
    paired,     \* receivers with a channel in the vault
    revoked,    \* receivers whose channel was deleted
    counter,    \* counter[d]: counter of d's chain in the vault
    acked,      \* acked[d]: hash and pushedAt of the channel in the vault
    pending,    \* pending[d]: the pending file of d, or None
    pc,         \* where the holder of the profile lock is
    todo,       \* receivers the run has not come to
    cur,        \* receiver the run is at
    cookies,    \* the cookies the run publishes
    at,         \* the time the run began
    emitted,    \* history: emitted[d], every ciphertext that left the process
    stored      \* history: stored[d], every ciphertext the relay stored

vars == <<now, paired, revoked, counter, acked, pending, pc, todo, cur,
          cookies, at, emitted, stored>>

durable == <<paired, revoked, counter, acked, pending>>
history == <<emitted, stored>>

Init ==
    /\ now = 0
    /\ paired = {}
    /\ revoked = {}
    /\ counter = [d \in Devices |-> 0]
    /\ acked = [d \in Devices |-> [hash |-> None, pushedAt |-> 0]]
    /\ pending = [d \in Devices |-> None]
    /\ pc = "idle"
    /\ todo = {}
    /\ cur = None
    /\ cookies = None
    /\ at = 0
    /\ emitted = [d \in Devices |-> {}]
    /\ stored = [d \in Devices |-> {}]

-----------------------------------------------------------------------------
(* Pairing, as far as the writer sees it: the channel appears with counter  *)
(* zero and no hash.  A device identity is drawn at random for a request    *)
(* and is never paired a second time.                                       *)

Approve(d) ==
    /\ pc = "idle"
    /\ d \notin paired \cup revoked
    /\ paired' = paired \cup {d}
    /\ UNCHANGED <<now, revoked, counter, acked, pending, pc, todo, cur,
                   cookies, at, emitted, stored>>

\* The channel leaves the vault first; the pending file goes afterwards, and
\* stays behind when the command stops in between.
Revoke(d) ==
    /\ pc = "idle"
    /\ d \in paired
    /\ paired' = paired \ {d}
    /\ revoked' = revoked \cup {d}
    /\ pc' = "revoking"
    /\ cur' = d
    /\ UNCHANGED <<now, counter, acked, pending, todo, cookies, at,
                   emitted, stored>>

DropRevokedPending ==
    /\ pc = "revoking"
    /\ pending' = [pending EXCEPT ![cur] = None]
    /\ pc' = "idle"
    /\ cur' = None
    /\ UNCHANGED <<now, paired, revoked, counter, acked, todo, cookies, at,
                   emitted, stored>>

-----------------------------------------------------------------------------
(* One run of publishSnapshot.                                              *)

\* Mutant: every pending file found is retried, channel or not.
BeginWithPendingFiles(s) ==
    /\ pc = "idle"
    /\ pc' = "next"
    /\ todo' = paired \cup {d \in Devices : pending[d] # None}
    /\ cookies' = s
    /\ at' = now
    /\ UNCHANGED <<now, paired, revoked, counter, acked, pending, cur,
                   emitted, stored>>

Begin(s) ==
    /\ pc = "idle"
    /\ pc' = "next"
    /\ todo' = paired
    /\ cookies' = s
    /\ at' = now
    /\ UNCHANGED <<now, paired, revoked, counter, acked, pending, cur,
                   emitted, stored>>

\* The loop over Object.entries(secrets.channels); the order is the order of
\* pairing in the code and any order here.
NextChannel(d) ==
    /\ pc = "next"
    /\ d \in todo
    /\ todo' = todo \ {d}
    /\ cur' = d
    /\ pc' = "channel"
    /\ UNCHANGED <<now, paired, revoked, counter, acked, pending, cookies, at,
                   emitted, stored>>

\* A pending file whose counter is not the channel's was written by a run that
\* stopped before the chain advanced: nothing of it ever left this process.
DiscardStale ==
    /\ pc = "channel"
    /\ pending[cur] # None
    /\ pending[cur].counter # counter[cur]
    /\ pending' = [pending EXCEPT ![cur] = None]
    /\ UNCHANGED <<now, paired, revoked, counter, acked, pc, todo, cur,
                   cookies, at, emitted, stored>>

IsFreshCopy(d) == acked[d].hash = cookies /\ at - acked[d].pushedAt < RefreshAge

SkipUnchanged ==
    /\ pc = "channel"
    /\ pending[cur] = None
    /\ IsFreshCopy(cur)
    /\ pc' = "next"
    /\ cur' = None
    /\ UNCHANGED <<now, paired, revoked, counter, acked, pending, todo,
                   cookies, at, emitted, stored>>

WritePending ==
    /\ pc = "channel"
    /\ pending[cur] = None
    /\ ~IsFreshCopy(cur)
    /\ counter[cur] < MaxCounter
    /\ pending' = [pending EXCEPT ![cur] =
         [counter |-> counter[cur] + 1, cookies |-> cookies, createdAt |-> at]]
    /\ pc' = "advance"
    /\ UNCHANGED <<now, paired, revoked, counter, acked, todo, cur, cookies,
                   at, emitted, stored>>

\* Mutant: the next chain stays in memory.
AdvanceInMemory ==
    /\ pc = "advance"
    /\ pc' = "push"
    /\ UNCHANGED <<now, paired, revoked, counter, acked, pending, todo, cur,
                   cookies, at, emitted, stored>>

\* storeCredentials with the next chain key: the old one is gone for good.
Advance ==
    /\ pc = "advance"
    /\ counter' = [counter EXCEPT ![cur] = counter[cur] + 1]
    /\ pc' = "push"
    /\ UNCHANGED <<now, paired, revoked, acked, pending, todo, cur, cookies,
                   at, emitted, stored>>

\* Mutant: any pending file is pushed again, whatever its counter.
RetryAnyPending ==
    /\ pc = "channel"
    /\ pending[cur] # None
    /\ pc' = "push"
    /\ UNCHANGED <<now, paired, revoked, counter, acked, pending, todo, cur,
                   cookies, at, emitted, stored>>

RetryPending ==
    /\ pc = "channel"
    /\ pending[cur] # None
    /\ pending[cur].counter = counter[cur]
    /\ pc' = "push"
    /\ UNCHANGED <<now, paired, revoked, counter, acked, pending, todo, cur,
                   cookies, at, emitted, stored>>

Emit == emitted' = [emitted EXCEPT ![cur] = @ \cup {pending[cur]}]

\* The relay stored the blob and its answer arrived.
PushStored ==
    /\ pc = "push"
    /\ Emit
    /\ stored' = [stored EXCEPT ![cur] = @ \cup {pending[cur]}]
    /\ pc' = "ack"
    /\ UNCHANGED <<now, paired, revoked, counter, acked, pending, todo, cur,
                   cookies, at>>

\* Mutant: the pending file of a failed push is removed.
PushFailedDropsPending ==
    /\ pc = "push"
    /\ Emit
    /\ pending' = [pending EXCEPT ![cur] = None]
    /\ pc' = "next"
    /\ cur' = None
    /\ UNCHANGED <<now, paired, revoked, counter, acked, todo, cookies, at,
                   stored>>

\* The push failed for this receiver, before or after the relay stored the
\* blob; the run goes on to the next receiver and the pending file stays.
PushFailed ==
    /\ pc = "push"
    /\ Emit
    /\ \/ stored' = stored
       \/ stored' = [stored EXCEPT ![cur] = @ \cup {pending[cur]}]
    /\ pc' = "next"
    /\ cur' = None
    /\ UNCHANGED <<now, paired, revoked, counter, acked, pending, todo,
                   cookies, at>>

\* Mutant: after a retry too, this run's cookies are recorded as sent.
RecordCollected ==
    /\ pc = "ack"
    /\ acked' = [acked EXCEPT ![cur] = [hash |-> cookies, pushedAt |-> at]]
    /\ pc' = "clean"
    /\ UNCHANGED <<now, paired, revoked, counter, pending, todo, cur, cookies,
                   at, emitted, stored>>

\* The hash and time recorded are those of what was pushed, which after a
\* retry is not what this run collected.
RecordAck ==
    /\ pc = "ack"
    /\ acked' = [acked EXCEPT ![cur] =
         [hash |-> pending[cur].cookies, pushedAt |-> pending[cur].createdAt]]
    /\ pc' = "clean"
    /\ UNCHANGED <<now, paired, revoked, counter, pending, todo, cur, cookies,
                   at, emitted, stored>>

RemovePending ==
    /\ pc = "clean"
    /\ pending' = [pending EXCEPT ![cur] = None]
    /\ pc' = "next"
    /\ cur' = None
    /\ UNCHANGED <<now, paired, revoked, counter, acked, todo, cookies, at,
                   emitted, stored>>

Finish ==
    /\ pc = "next"
    /\ todo = {}
    /\ pc' = "idle"
    /\ cookies' = None
    /\ at' = 0
    /\ UNCHANGED <<now, paired, revoked, counter, acked, pending, todo, cur,
                   emitted, stored>>

-----------------------------------------------------------------------------

\* An exception, a kill or a crash: memory is lost, the lock is released.
Abort ==
    /\ pc # "idle"
    /\ pc' = "idle"
    /\ todo' = {}
    /\ cur' = None
    /\ cookies' = None
    /\ at' = 0
    /\ UNCHANGED <<now, paired, revoked, counter, acked, pending, emitted,
                   stored>>

Tick ==
    /\ now < MaxTime
    /\ now' = now + 1
    /\ UNCHANGED <<paired, revoked, counter, acked, pending, pc, todo, cur,
                   cookies, at, emitted, stored>>

\* What a run does once it holds the lock, faults apart.
RunStep ==
    \/ \E d \in Devices : NextChannel(d)
    \/ DiscardStale
    \/ SkipUnchanged
    \/ WritePending
    \/ Advance
    \/ RetryPending
    \/ PushStored
    \/ RecordAck
    \/ RemovePending
    \/ Finish

Next ==
    \/ \E d \in Devices : Approve(d) \/ Revoke(d)
    \/ DropRevokedPending
    \/ \E s \in Contents : Begin(s)
    \/ RunStep
    \/ PushFailed
    \/ Abort
    \/ Tick

Spec == Init /\ [][Next]_vars

-----------------------------------------------------------------------------
(* Properties.                                                              *)

PcValues == {"idle", "revoking", "next", "channel", "advance", "push", "ack",
             "clean"}

\* Every variable keeps its type; between runs the locals are empty.
TypeOK ==
    /\ now \in Nat
    /\ paired \in SUBSET Devices
    /\ revoked \in SUBSET Devices
    /\ counter \in [Devices -> Nat]
    /\ acked \in [Devices -> [hash : Contents \cup {None}, pushedAt : Nat]]
    /\ pending \in [Devices -> Blob \cup {None}]
    /\ pc \in PcValues
    /\ todo \in SUBSET Devices
    /\ cur \in Devices \cup {None}
    /\ cookies \in Contents \cup {None}
    /\ at \in Nat
    /\ emitted \in [Devices -> SUBSET Blob]
    /\ stored \in [Devices -> SUBSET Blob]

\* A counter names one snapshot: whatever crashes, failed pushes and retries
\* happened, two ciphertexts that left the process for one receiver under the
\* same counter are the same ciphertext (the receiver derives the key from the
\* counter, and its replay check would drop one of two different snapshots).
CounterNamesOneSnapshot ==
    \A d \in Devices : \A a, b \in emitted[d] : a.counter = b.counter => a = b

\* "Erase the previous chain before ciphertext can leave this process": when a
\* ciphertext has left, the vault already holds a chain past its key.
ChainErasedFirst ==
    \A d \in Devices : \A b \in emitted[d] : b.counter <= counter[d]

\* No consumed counter is lost: the snapshot under the newest counter of a
\* paired receiver is at the relay, or its pending file still holds it.
NewestNotLost ==
    \A d \in paired : counter[d] > 0 =>
        \/ \E b \in stored[d] : b.counter = counter[d]
        \/ pending[d] # None /\ pending[d].counter = counter[d]

\* A run that skips a receiver as unchanged is right: when no retry is due, the
\* recorded hash and time are those of the newest snapshot the relay got.
SkipIsSafe ==
    \A d \in paired :
        /\ acked[d].hash # None
        /\ pending[d] = None \/ pending[d].counter # counter[d]
        => \E b \in stored[d] : /\ b.counter = counter[d]
                               /\ b.cookies = acked[d].hash
                               /\ b.createdAt = acked[d].pushedAt

\* Nothing is encrypted or sent for a receiver once it is revoked, whatever
\* pending file the revocation left behind.
RevokedIsSilent ==
    [][\A d \in revoked : emitted'[d] = emitted[d] /\ counter'[d] = counter[d]]_vars

Ledger == INSTANCE SnapshotLedger WITH ledger <- emitted

\* The writer is a ledger with one entry per counter, written in counter order.
ImplementsLedger == Ledger!Spec
=============================================================================
