----------------------------- MODULE RelayStore -----------------------------
(***************************************************************************)
(* One room of the self-hosted relay: server/store.js behind the handlers  *)
(* of server/server.js.  A request is handled without an await once its    *)
(* body is read, so PUT, DELETE, LIST and the sweeper are atomic; but a    *)
(* PUT writes the blob, then applies retention, then measures the quota,   *)
(* and the process may be killed between any two of these.                 *)
(*                                                                         *)
(* A blob is opaque: its name holds the source's host id and a counter.    *)
(* The clock advances with every write, so no two blobs have one mtime.    *)
(***************************************************************************)
EXTENDS Integers, FiniteSets, FiniteSetsExt

CONSTANTS
    Hosts,         \* source host ids
    Sizes,         \* sizes of blobs
    Keep,          \* retentionPerHost
    MaxBlobs,      \* maxBlobsPerRoom
    MaxBytes,      \* maxRoomBytes
    Ttl,           \* blobTtlMs
    MaxCounter,    \* bound of the counters
    MaxTime        \* bound of the clock

ASSUME StoreAssumption ==
    /\ Sizes \subseteq Nat \ {0}
    /\ Keep \in Nat \ {0}
    /\ MaxBlobs \in Nat \ {0}
    /\ MaxBytes \in Nat \ {0}
    /\ Ttl \in Nat
    /\ MaxCounter \in Nat
    /\ MaxTime \in Nat

Name == [host : Hosts, counter : Nat]

VARIABLES
    files,     \* the blobs of the room
    now,       \* the clock
    killed,    \* the process was killed within a PUT at least once
    acked      \* history: names answered 204, and owed to the readers since

vars == <<files, now, killed, acked>>

Init ==
    /\ files = {}
    /\ now = 0
    /\ killed = FALSE
    /\ acked = {}

NameOf(f) == [host |-> f.host, counter |-> f.counter]
Names(F) == {NameOf(f) : f \in F}

\* atomicWriteFile: a blob of the same name is replaced.
Written(h, n, size) ==
    {f \in files : NameOf(f) # [host |-> h, counter |-> n]}
      \cup {[host |-> h, counter |-> n, size |-> size, mtime |-> now]}

\* applyRetention: the Keep highest counters of the host stay.
Newer(F, f) == {o \in F : o.host = f.host /\ o.counter > f.counter}

\* Mutant of Retained: one blob too few is kept.
RetainedOneLess(F, h) == {f \in F : f.host = h => Cardinality(Newer(F, f)) < Keep - 1}

Retained(F, h) == {f \in F : f.host = h => Cardinality(Newer(F, f)) < Keep}

Bytes(F) == MapThenSumSet(LAMBDA f : f.size, F)

OverQuota(F) == Cardinality(F) > MaxBlobs \/ Bytes(F) > MaxBytes

\* Mutant: the quota is measured before the blob is written.
PutMeasuresFirst(h, n, size) ==
    LET kept == Retained(Written(h, n, size), h)
        new  == [host |-> h, counter |-> n]
    IN  /\ now < MaxTime
        /\ now' = now + 1
        /\ files' = IF OverQuota(files) THEN files ELSE kept
        /\ acked' = IF OverQuota(files) THEN acked
                    ELSE (acked \cup {new}) \cap Names(kept)
        /\ UNCHANGED killed

\* Mutant: a blob that is replaced still counts when the quota is measured.
PutCountsReplaced(h, n, size) ==
    LET written == Written(h, n, size)
        kept    == Retained(written, h)
        new     == [host |-> h, counter |-> n]
        evicted == {NameOf(f) : f \in written \ kept}
        counted == kept \cup {f \in files : NameOf(f) = new}
    IN  /\ now < MaxTime
        /\ now' = now + 1
        /\ files' = IF OverQuota(counted) THEN {f \in kept : NameOf(f) # new} ELSE kept
        /\ acked' = IF OverQuota(counted) THEN acked \ (evicted \cup {new})
                                          ELSE (acked \cup {new}) \ evicted
        /\ UNCHANGED killed

Put(h, n, size) ==
    LET written == Written(h, n, size)
        kept    == Retained(written, h)
        new     == [host |-> h, counter |-> n]
        evicted == {NameOf(f) : f \in written \ kept}
    IN  /\ now < MaxTime
        /\ now' = now + 1
        /\ files' = IF OverQuota(kept) THEN {f \in kept : NameOf(f) # new}
                                       ELSE kept
        /\ acked' = IF OverQuota(kept) THEN acked \ (evicted \cup {new})
                                       ELSE (acked \cup {new}) \ evicted
        /\ UNCHANGED killed

\* The process is killed after the rename, before or after the retention.
PutKilled(h, n, size) ==
    LET written == Written(h, n, size)
        kept    == Retained(written, h)
    IN  /\ now < MaxTime
        /\ now' = now + 1
        /\ files' \in {written, kept}
        /\ killed' = TRUE
        /\ acked' = acked \ ({NameOf(f) : f \in written \ kept}
                               \cup {[host |-> h, counter |-> n]})

Delete(f) ==
    /\ files' = files \ {f}
    /\ acked' = acked \ {NameOf(f)}
    /\ UNCHANGED <<now, killed>>

\* sweepExpired, every sweep interval.
Sweep ==
    LET old == {f \in files : now - f.mtime > Ttl}
    IN  /\ old # {}
        /\ files' = files \ old
        /\ acked' = acked \ Names(old)
        /\ UNCHANGED <<now, killed>>

Tick ==
    /\ now < MaxTime
    /\ now' = now + 1
    /\ UNCHANGED <<files, killed, acked>>

\* LIST and GET change nothing.
Read == UNCHANGED vars

\* Mutant: the newest blobs are listed.
ListedNewest ==
    {f \in files : Cardinality({o \in files : o.mtime > f.mtime}) < MaxBlobs}

\* list: the oldest MaxBlobs blobs of the room.
Listed ==
    {f \in files : Cardinality({o \in files : o.mtime < f.mtime}) < MaxBlobs}

Next ==
    \/ \E h \in Hosts, n \in 1..MaxCounter, size \in Sizes :
          Put(h, n, size) \/ PutKilled(h, n, size)
    \/ \E f \in files : Delete(f)
    \/ Sweep
    \/ Read
    \/ Tick

Spec == Init /\ [][Next]_vars

-----------------------------------------------------------------------------
(* Properties.                                                              *)

\* Every variable keeps its type, and a name is stored once.
TypeOK ==
    /\ files \subseteq [host : Hosts, counter : Nat, size : Sizes, mtime : Nat]
    /\ now \in Nat
    /\ killed \in BOOLEAN
    /\ acked \subseteq Name
    /\ \A f, g \in files : NameOf(f) = NameOf(g) => f = g

\* A room is within its quotas whatever was put, replaced and refused, unless
\* the process was killed in the middle of a PUT.
WithinQuota == ~killed => ~OverQuota(files)

\* What was answered 204 stays and is listed until it is deleted, expires, or is
\* replaced or outnumbered by newer blobs of its own host: not even the blobs
\* that killed PUTs left behind push it out of the capped listing.
AckedIsListed == acked \subseteq Names(Listed)

\* With two blobs kept per host, no PUT of any host, accepted, refused or killed, costs a
\* host its newest blob, although a PUT evicts before it measures.  There is one exception,
\* a refused PUT of that blob's own name, which has replaced what it then unlinks: it takes
\* a room that was over its quota before (a killed PUT left it so) or a blob larger than
\* the one it replaces.
RefusalKeepsNewest ==
    [][\A f \in files, h \in Hosts, n \in 1..MaxCounter, size \in Sizes :
          (/\ Keep > 1
           /\ Newer(files, f) = {}
           /\ NameOf(f) \notin Names(files')
           /\ Put(h, n, size) \/ PutKilled(h, n, size))
          => /\ NameOf(f) = [host |-> h, counter |-> n]
             /\ OverQuota(files) \/ size > f.size]_vars
=============================================================================
