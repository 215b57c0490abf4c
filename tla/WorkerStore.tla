---------------------------- MODULE WorkerStore ----------------------------
(***************************************************************************)
(* One room of the relay deployed as a Cloudflare worker: worker/store.js  *)
(* behind the handler of worker/index.js.  The bucket is an object store   *)
(* without transactions, and every call to it is an await: a PUT writes    *)
(* its object, lists, deletes what retention drops one object at a time,   *)
(* lists again to measure the quota, and takes its own object back when    *)
(* the room is over it.  Requests interleave between any two calls, and a  *)
(* call that fails ends its request where it stands.                       *)
(*                                                                         *)
(* Objects are kept in the order of their upload.  The clock is not        *)
(* modelled: an object may expire at any time after it was written.        *)
(***************************************************************************)
EXTENDS Integers, FiniteSets, FiniteSetsExt, Sequences, SequencesExt

CONSTANTS
    Requests,      \* requests in progress at one time
    Hosts,         \* source host ids
    Sizes,         \* sizes of blobs
    Keep,          \* retentionPerHost
    MaxBlobs,      \* maxBlobsPerRoom
    MaxBytes,      \* maxRoomBytes
    MaxBody,       \* maxBodyBytes
    Overlap,       \* PUTs of one host in progress at one time
    MaxCounter,    \* bound of the counters
    MaxCuts,       \* bound of the requests that end in the middle
    MaxLate        \* bound of the deletions that wait at one time

Counter == 1..MaxCounter
Name == [host : Hosts, counter : Counter]

Idle == [pc |-> "idle"]

VARIABLES
    objects,   \* the bucket: the objects of the room, the oldest upload first
    reqs,      \* the PUT each slot is serving
    late,      \* deletions of names read as expired, handed to ctx.waitUntil
    cuts,      \* how many requests ended in the middle
    sent,      \* the highest counter a host has put: a source never goes back
    acked,     \* history: names answered 204 and still owed to the readers
    newest     \* history: the newest counter of a host answered 204 and owed

vars == <<objects, reqs, late, cuts, sent, acked, newest>>

Init ==
    /\ objects = <<>>
    /\ reqs = [r \in Requests |-> Idle]
    /\ late = {}
    /\ cuts = 0
    /\ sent = [h \in Hosts |-> 1]
    /\ acked = {}
    /\ newest = [h \in Hosts |-> 0]

NameOf(o) == [host |-> o.host, counter |-> o.counter]
Stored == ToSet(objects)
Names == {NameOf(o) : o \in Stored}
At(n) == CHOOSE i \in DOMAIN objects : NameOf(objects[i]) = n
Without(n) == IF n \in Names THEN RemoveAt(objects, At(n)) ELSE objects
Goto(r, pc) == reqs' = [reqs EXCEPT ![r].pc = pc]
Finish(r) == reqs' = [reqs EXCEPT ![r] = Idle]

\* What is stored under a name is owed no longer, nor is what it had outnumbered: the name
\* is put again, or somebody asked for its deletion.
Release(n) ==
    /\ acked' = acked \ {n}
    /\ newest' = [newest EXCEPT ![n.host] = IF n \in Names /\ n.counter >= @ THEN 0 ELSE @]

Writing(h) == {r \in Requests : reqs[r].pc # "idle" /\ reqs[r].host = h}

\* A PUT whose body fits.
StartPut(r, n, size) ==
    /\ reqs[r] = Idle
    /\ size <= MaxBody
    /\ n.counter >= sent[n.host]
    /\ Cardinality(Writing(n.host)) < Overlap
    /\ sent' = [sent EXCEPT ![n.host] = n.counter]
    /\ reqs' = [reqs EXCEPT ![r] =
          [pc |-> "write", host |-> n.host, counter |-> n.counter,
           size |-> size, todo |-> {}]]
    /\ UNCHANGED <<objects, late, cuts, acked, newest>>

\* bucket.put: an object of the same name is replaced, and no longer owed.
Write(r) ==
    /\ reqs[r].pc = "write"
    /\ LET n == NameOf(reqs[r])
       IN  /\ objects' = Append(Without(n),
                 [host |-> n.host, counter |-> n.counter,
                  size |-> reqs[r].size, expired |-> FALSE])
           /\ Release(n)
    /\ Goto(r, "retain")
    /\ UNCHANGED <<late, cuts, sent>>

\* applyRetention lists the room and picks what is beyond the Keep newest.
Newer(o) == {p \in Stored : p.host = o.host /\ p.counter > o.counter}
Beyond(h, k) == {o.counter : o \in {p \in Stored : p.host = h /\ Cardinality(Newer(p)) >= k}}

\* Mutant: one object less stays.
ListOneExtraMore(r) ==
    /\ reqs[r].pc = "retain"
    /\ reqs' = [reqs EXCEPT ![r].pc = "trim", ![r].todo = Beyond(reqs[r].host, Keep - 1)]
    /\ UNCHANGED <<objects, late, cuts, sent, acked, newest>>

ListExtras(r) ==
    /\ reqs[r].pc = "retain"
    /\ reqs' = [reqs EXCEPT ![r].pc = "trim", ![r].todo = Beyond(reqs[r].host, Keep)]
    /\ UNCHANGED <<objects, late, cuts, sent, acked, newest>>

\* One deletion per call, the highest counter first.
Trim(r) ==
    /\ reqs[r].pc = "trim"
    /\ reqs[r].todo # {}
    /\ LET c == CHOOSE x \in reqs[r].todo : \A y \in reqs[r].todo : y <= x
           n == [host |-> reqs[r].host, counter |-> c]
       IN  /\ objects' = Without(n)
           /\ acked' = acked \ {n}
           /\ reqs' = [reqs EXCEPT ![r].todo = @ \ {c}]
    /\ UNCHANGED <<late, cuts, sent, newest>>

Bytes(S) == MapThenSumSet(LAMBDA o : o.size, S)
OverQuota(S) == Cardinality(S) > MaxBlobs \/ Bytes(S) > MaxBytes

\* No other PUT can undo this one: none has its name, which the loser of the two would
\* take back, and none is still deleting what was newer when it listed the room.
Settled(r, n) ==
    \A q \in Writing(n.host) \ {r} :
       reqs[q].counter # n.counter /\ \A c \in reqs[q].todo : c < n.counter

\* Deletions that wait may reach this name, or what outnumbers it.
Threatened(n) == \E m \in late : m.host = n.host /\ m.counter >= n.counter

\* The room is measured after the object is written; within the quota the PUT is
\* answered 204, even if somebody has deleted the object meanwhile.
Accept(r) ==
    /\ reqs[r].pc = "trim"
    /\ reqs[r].todo = {}
    /\ ~OverQuota(Stored)
    /\ LET n == NameOf(reqs[r])
           owed == n \in Names /\ Settled(r, n) /\ ~Threatened(n)
       IN  /\ acked' = acked \cup {m \in {n} \ late : \E o \in Stored : NameOf(o) = m /\ ~o.expired}
           /\ newest' = IF owed /\ n.counter > newest[n.host]
                        THEN [newest EXCEPT ![n.host] = n.counter] ELSE newest
    /\ Finish(r)
    /\ UNCHANGED <<objects, late, cuts, sent>>

OverLimit(r) ==
    /\ reqs[r].pc = "trim"
    /\ reqs[r].todo = {}
    /\ OverQuota(Stored)
    /\ Goto(r, "undo")
    /\ UNCHANGED <<objects, late, cuts, sent, acked, newest>>

\* Mutant: the refused object stays.
TakeBackNothing(r) ==
    /\ reqs[r].pc = "undo"
    /\ Finish(r)
    /\ UNCHANGED <<objects, late, cuts, sent, acked, newest>>

\* The refused PUT deletes its own key, and is answered 507.
TakeBack(r) ==
    /\ reqs[r].pc = "undo"
    /\ objects' = Without(NameOf(reqs[r]))
    /\ acked' = acked \ {NameOf(reqs[r])}
    /\ Finish(r)
    /\ UNCHANGED <<late, cuts, sent, newest>>

\* A call to the bucket fails, or the isolate ends: 500, and nothing is undone.
Cut(r) ==
    /\ reqs[r] # Idle
    /\ cuts < MaxCuts
    /\ cuts' = cuts + 1
    /\ Finish(r)
    /\ UNCHANGED <<objects, late, sent, acked, newest>>

\* What is found expired is owed no longer, nor is what it had outnumbered.
Aged(S) ==
    newest' = [h \in Hosts |->
                 IF \E o \in S : o.expired /\ o.host = h /\ o.counter >= newest[h] THEN 0 ELSE newest[h]]

\* Mutant: the expiry of what is handed over is not looked at.
FindAny(S) ==
    /\ \E o \in S : NameOf(o) \notin late
    /\ late' = late \cup {NameOf(o) : o \in S}
    /\ Cardinality(late') <= MaxLate
    /\ Aged(S)
    /\ UNCHANGED <<objects, reqs, cuts, sent, acked>>

\* LIST hands the names it finds expired to ctx.waitUntil, GET its own.
FindExpired(S) ==
    /\ \E o \in S : NameOf(o) \notin late
    /\ \A o \in S : o.expired
    /\ late' = late \cup {NameOf(o) : o \in S}
    /\ Cardinality(late') <= MaxLate
    /\ Aged(S)
    /\ UNCHANGED <<objects, reqs, cuts, sent, acked>>

List == FindExpired({o \in Stored : o.expired})
Get(o) == FindExpired({o})

\* forgetKeys: the deletion comes later, whatever the name holds by then; it releases
\* nothing that is owed.
Forget(n) ==
    /\ late' = late \ {n}
    /\ objects' = Without(n)
    /\ UNCHANGED <<reqs, cuts, sent, acked, newest>>

\* The isolate ends before the deletion.
Lose(n) ==
    /\ late' = late \ {n}
    /\ UNCHANGED <<objects, reqs, cuts, sent, acked, newest>>

\* DELETE, after a head that found an object: what replaced it in between is
\* deleted as well, as it would be by a DELETE that came a moment later.
Delete(o) ==
    /\ objects' = Without(NameOf(o))
    /\ Release(NameOf(o))
    /\ UNCHANGED <<reqs, late, cuts, sent>>

\* Its expiresAt has come.
Expire(i) ==
    /\ ~objects[i].expired
    /\ objects' = [objects EXCEPT ![i].expired = TRUE]
    /\ acked' = acked \ {NameOf(objects[i])}
    /\ UNCHANGED <<reqs, late, cuts, sent, newest>>

Next ==
    \/ \E r \in Requests :
          \/ \E n \in Name, size \in Sizes : StartPut(r, n, size)
          \/ Write(r) \/ ListExtras(r) \/ Trim(r)
          \/ Accept(r) \/ OverLimit(r) \/ TakeBack(r) \/ Cut(r)
    \/ List
    \/ \E o \in Stored : Get(o) \/ Delete(o)
    \/ \E n \in late : Forget(n) \/ Lose(n)
    \/ \E i \in 1..Len(objects) : Expire(i)

Spec == Init /\ [][Next]_vars

\* What was uploaded before the object at i and has not expired.
Before(i) == {objects[k] : k \in {j \in DOMAIN objects : j < i /\ ~objects[j].expired}}
After(i) == {objects[k] : k \in {j \in DOMAIN objects : j > i /\ ~objects[j].expired}}

\* Mutant: the newest objects are listed.
ListedNewest ==
    {objects[i] : i \in {j \in DOMAIN objects :
                           ~objects[j].expired /\ Cardinality(After(j)) < MaxBlobs}}

\* list: the oldest MaxBlobs objects that have not expired.
Listed ==
    {objects[i] : i \in {j \in DOMAIN objects :
                           ~objects[j].expired /\ Cardinality(Before(j)) < MaxBlobs}}

-----------------------------------------------------------------------------
(* Properties.                                                              *)

Request ==
    {Idle} \cup
    [pc : {"write", "retain", "trim", "undo"}, host : Hosts, counter : Counter,
     size : Sizes, todo : SUBSET Counter]

\* Every variable keeps its type, and a name is stored once.
TypeOK ==
    /\ objects \in Seq([host : Hosts, counter : Counter, size : Sizes, expired : BOOLEAN])
    /\ \A i, j \in 1..Len(objects) : NameOf(objects[i]) = NameOf(objects[j]) => i = j
    /\ reqs \in [Requests -> Request]
    /\ late \subseteq Name
    /\ cuts \in 0..MaxCuts
    /\ sent \in [Hosts -> Nat]
    /\ acked \subseteq Names
    /\ newest \in [Hosts -> Nat]

\* However PUTs interleave, a room that no PUT is working on is within its quotas,
\* unless one ended in the middle: each measures after its own write, and takes its
\* own object back.
QuietWithinQuota ==
    cuts = 0 /\ (\A r \in Requests : reqs[r] = Idle) => ~OverQuota(Stored)

\* An object answered 204 that has not expired is in the capped listing the
\* receivers read, whatever refused or unfinished PUTs have piled up beside it and
\* whatever expired names are being deleted: it leaves when it is deleted on request,
\* outnumbered, put again or expired, and in no other way.  What was answered while a
\* deletion of an expired object of its name was waiting is not promised, for that
\* deletion takes the new object (Forget).
AckedIsListed == acked \subseteq {NameOf(o) : o \in Listed}

\* As long as fewer PUTs of a host overlap than objects are kept, retention, refusals and
\* late deletions never erase a host: its newest object answered 204, or a newer one, is
\* there until one of these is deleted on request, put again or found expired.  What was
\* answered while another PUT could still undo it (Settled), or while a deletion of an
\* expired object of its name or a newer one was waiting (Threatened), is not promised.
HostKeepsNewest ==
    Overlap < Keep =>
      \A h \in Hosts : newest[h] = 0
                       \/ \E n \in Names : n.host = h /\ n.counter >= newest[h]
=============================================================================
