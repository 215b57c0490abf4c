----------------------------- MODULE RelayGate -----------------------------
(***************************************************************************)
(* What a request passes before it reaches the store: onRequest of         *)
(* server/server.js (and handleRequest of worker/index.js, which is the    *)
(* same but for one await while the token is hashed).  In this order: the  *)
(* health page, the token bucket of the client's address, the path, the    *)
(* bearer token, the list of admitted rooms, the token bucket of the room. *)
(* Then the operation runs, or the method is refused.                      *)
(*                                                                         *)
(* Both buckets are the TokenBucket of server/ratelimit.js: a Map that is  *)
(* capped, and forgets keys when it overflows.  Beside each the module     *)
(* keeps a ledger that never forgets a key and, for rooms, that counts     *)
(* only requests with the room's own token.                                *)
(*                                                                         *)
(* Levels are counted in parts of a token: a tick of the clock adds one    *)
(* part, and a request takes Token parts.                                  *)
(***************************************************************************)
EXTENDS Integers, FiniteSets, FiniteSetsExt

CONSTANTS
    Addresses,     \* client addresses
    Rooms,         \* well-formed room ids
    Admitted,      \* ALLOWED_ROOMS
    Token,         \* ticks in which one token is refilled
    IpCapacity,    \* rateIpCapacity, in tokens
    RoomCapacity,  \* rateRoomCapacity, in tokens
    MaxBuckets,    \* keys a TokenBucket keeps
    MaxTime        \* bound of the clock

VARIABLES
    now,         \* the clock
    ips,         \* buckets of ipLimiter
    rooms,       \* buckets of roomLimiter
    ipLedger,    \* every address since its first request
    roomLedger,  \* every room since its first request with its own token
    forgot,      \* history: a key had to go though it had been in use of late
    answer       \* what the last request was answered, or that it was served

vars == <<now, ips, rooms, ipLedger, roomLedger, forgot, answer>>

Empty == [k \in {} |-> 0]

Init ==
    /\ now = 0
    /\ ips = Empty
    /\ rooms = Empty
    /\ ipLedger = Empty
    /\ roomLedger = Empty
    /\ forgot = FALSE
    /\ answer = [status |-> "none"]

Level(b, capacity) == Min({capacity * Token, b.level + now - b.last})

\* The level of a key, that of a full bucket when the key is unknown.
LevelOf(buckets, key, capacity) ==
    IF key \in DOMAIN buckets THEN Level(buckets[key], capacity) ELSE capacity * Token

Allows(buckets, key, capacity) == LevelOf(buckets, key, capacity) >= Token

\* What take leaves of the key's own bucket.
Spent(buckets, key, capacity) ==
    [level |-> LevelOf(buckets, key, capacity)
                 - (IF Allows(buckets, key, capacity) THEN Token ELSE 0),
     last |-> now]

Without(buckets, keys) == [k \in DOMAIN buckets \ keys |-> buckets[k]]

\* Mutant: a key is idle one refill of a token after its last request.
IdleTooSoon(buckets, capacity) ==
    {k \in DOMAIN buckets : now - buckets[k].last > Token}

\* Keys whose bucket would be full again.
IdleKeys(buckets, capacity) ==
    {k \in DOMAIN buckets : now - buckets[k].last > capacity * Token}

\* evictOverflow: the idle keys go; if that is not enough the oldest go, ties in
\* the order of the keys, here in any order.
Kept(buckets, capacity) ==
    IF Cardinality(DOMAIN buckets) <= MaxBuckets THEN {buckets}
    ELSE LET rest == Without(buckets, IdleKeys(buckets, capacity))
             over == Cardinality(DOMAIN rest) - MaxBuckets
         IN  IF over <= 0 THEN {rest}
             ELSE {Without(rest, old) : old \in
                     {S \in kSubset(over, DOMAIN rest) :
                        \A k \in S, l \in DOMAIN rest \ S : rest[k].last <= rest[l].last}}

\* take: a new key starts full, an overflow is dealt with before the token is
\* taken, and the bucket that was dropped is charged all the same.
Taken(buckets, key, capacity) ==
    LET fresh == [level |-> capacity * Token, last |-> now]
        known == [k \in DOMAIN buckets \cup {key} |->
                    IF k \in DOMAIN buckets THEN buckets[k] ELSE fresh]
        kept  == IF key \in DOMAIN buckets THEN {buckets} ELSE Kept(known, capacity)
    IN  {[k \in DOMAIN b |-> IF k = key THEN Spent(known, key, capacity) ELSE b[k]] : b \in kept}

\* More keys than the limiter keeps have been in use of late: the oldest of them must go.
Crowded(buckets, key, capacity) ==
    key \notin DOMAIN buckets /\
      Cardinality({k \in DOMAIN buckets : now - buckets[k].last <= capacity * Token}) >= MaxBuckets

\* The ledger is charged what the limiter served.
Charged(ledger, key, capacity, served) ==
    LET level == LevelOf(ledger, key, capacity) - (IF served THEN Token ELSE 0)
    IN  [k \in DOMAIN ledger \cup {key} |->
            IF k = key THEN [level |-> IF level < 0 THEN 0 ELSE level, last |-> now]
                       ELSE ledger[k]]

Health == answer' = [status |-> "served"]
          /\ UNCHANGED <<now, ips, rooms, ipLedger, roomLedger, forgot>>

\* ipLimiter.take: the rest of the handler runs only within the address's rate.
TakeIp(ip, served) ==
    /\ served = Allows(ips, ip, IpCapacity)
    /\ ips' \in Taken(ips, ip, IpCapacity)
    /\ ipLedger' = Charged(ipLedger, ip, IpCapacity, served)
    /\ UNCHANGED now

IpsCrowded(ip) == Crowded(ips, ip, IpCapacity)

IpLimited(ip) ==
    /\ TakeIp(ip, FALSE)
    /\ forgot' = (forgot \/ IpsCrowded(ip))
    /\ answer' = [status |-> "limited", spent |-> ~Allows(ipLedger, ip, IpCapacity)]
    /\ UNCHANGED <<rooms, roomLedger>>

\* Mutant: the room's bucket is charged before the token is verified.
RejectedAndCharged(ip, room) ==
    /\ TakeIp(ip, TRUE)
    /\ rooms' \in Taken(rooms, room, RoomCapacity)
    /\ forgot' = (forgot \/ IpsCrowded(ip) \/ Crowded(rooms, room, RoomCapacity))
    /\ answer' = [status |-> "refused"]
    /\ UNCHANGED roomLedger

\* A path that is no blob path, a room id or a blob name that is none, a token that is
\* missing or another room's, and a room that is not admitted: all are refused, each with a
\* status of its own, before the room's bucket.
Rejected(ip, room) ==
    /\ TakeIp(ip, TRUE)
    /\ forgot' = (forgot \/ IpsCrowded(ip))
    /\ answer' = [status |-> "refused"]
    /\ UNCHANGED <<rooms, roomLedger>>

\* With the token of an admitted room its bucket decides; then the operation runs or its
\* method is refused.
Authorized(ip, room) ==
    /\ TakeIp(ip, TRUE)
    /\ room \in Admitted
    /\ LET served == Allows(rooms, room, RoomCapacity)
       IN  /\ rooms' \in Taken(rooms, room, RoomCapacity)
           /\ roomLedger' = Charged(roomLedger, room, RoomCapacity, served)
           /\ answer' = IF served THEN [status |-> "served"]
                        ELSE [status |-> "limited",
                              spent |-> ~Allows(roomLedger, room, RoomCapacity)]
    /\ forgot' = (forgot \/ IpsCrowded(ip) \/ Crowded(rooms, room, RoomCapacity))

Tick ==
    /\ now < MaxTime
    /\ now' = now + 1
    /\ UNCHANGED <<ips, rooms, ipLedger, roomLedger, forgot, answer>>

Next ==
    \/ Health
    \/ \E ip \in Addresses :
          \/ IpLimited(ip)
          \/ \E room \in Rooms : Rejected(ip, room) \/ Authorized(ip, room)
    \/ Tick

Spec == Init /\ [][Next]_vars

-----------------------------------------------------------------------------
(* Properties.                                                              *)

AreBuckets(b, keys, capacity) ==
    /\ DOMAIN b \subseteq keys
    /\ b \in [DOMAIN b -> [level : 0..(capacity * Token), last : 0..MaxTime]]

\* Every variable keeps its type, and the limiters stay within their cap.
TypeOK ==
    /\ now \in 0..MaxTime
    /\ \A b \in {ips, ipLedger} : AreBuckets(b, Addresses, IpCapacity)
    /\ \A b \in {rooms, roomLedger} : AreBuckets(b, Rooms, RoomCapacity)
    /\ {Cardinality(DOMAIN b) : b \in {ips, rooms}} \subseteq 0..MaxBuckets
    /\ forgot \in BOOLEAN

\* A request is refused for its rate only if the address, or the requests that held
\* the room's own token, spent it: neither a crowd of addresses that overflows the
\* limiter nor requests without the token take anything from anybody.
RefusedWhenSpent ==
    answer.status = "limited" => answer.spent

\* Until more keys are in use than the limiter keeps, forgetting idle keys loses
\* nothing: the limiter is as strict as one that remembers every key.
ForgettingIsLossless ==
    ~forgot =>
      /\ \A k \in Addresses : LevelOf(ips, k, IpCapacity) = LevelOf(ipLedger, k, IpCapacity)
      /\ \A k \in Rooms : LevelOf(rooms, k, RoomCapacity) = LevelOf(roomLedger, k, RoomCapacity)
=============================================================================
