-------------------------- MODULE ExtensionsProofs --------------------------
(***************************************************************************)
(* Proofs about the two browser extensions: the passkey session with its   *)
(* hub, and automatic sync, for every number of requests, leases and       *)
(* changes.                                                                *)
(*                                                                         *)
(* They share no state, so each has an inductive invariant of its own:     *)
(* PassInv and SyncInv.                                                    *)
(***************************************************************************)
EXTENDS MCExtensions, SequenceTheorems, TLAPS

-----------------------------------------------------------------------------
(* The passkey session.                                                    *)

\* The request the sender works on is not answered yet, and no request is answered twice.
SenderInv ==
    /\ sender # Idle => chrome[sender.id] = "open"
    /\ \A c \in Requests : chrome[c] # "twice"

\* What runs in the page is the request of the receiver, or is waited for; while a request
\* runs, none is waited for.
PageInv ==
    /\ \A c \in page : c \in draining \/ (receiver # Idle /\ receiver.phase = "running" /\ receiver.id = c)
    /\ receiver # Idle /\ receiver.phase = "running" => draining = {}

\* Requests the hub has not heard of.
Looking(c) == sender # Idle /\ sender.id = c /\ sender.phase = "looking"
Asked(c) == \E n \in DOMAIN toHub : toHub[n] = Msg("get", c)
Unheard(c) == chrome[c] = "new" \/ Looking(c) \/ Asked(c)

\* A request the hub has not heard of has left no trace there, and is asked once; a result in
\* the mail is not of the pending request, and one that is being checked is not pending.
HeardOnce ==
    /\ \A c \in Requests : Asked(c) => chrome[c] # "new" /\ ~Looking(c)
    /\ \A m, n \in DOMAIN toHub : toHub[m].type = "get" /\ toHub[m] = toHub[n] => m = n
    /\ \A c \in Requests : Unheard(c) =>
         /\ pending.id # c
         /\ \A k \in checks : k.id # c
         /\ \A x \in dispatched : x[1] # c
         /\ \A n \in DOMAIN fromHub : fromHub[n].id # c
    /\ \A n \in DOMAIN fromHub : fromHub[n].id # pending.id
    /\ sender # Idle /\ sender.phase = "checking" =>
         pending.id # sender.id /\ ~Asked(sender.id)

\* No get is read after the n-th message before the sender has given up c.
GivenUp(c, n, q, s) ==
    \/ /\ s # Idle /\ s.id = c /\ s.phase # "looking"
       /\ \A j \in DOMAIN q : j > n => q[j].type # "get"
    \/ \E m \in DOMAIN q :
         /\ m > n /\ q[m] = Msg("cancel", c)
         /\ \A j \in DOMAIN q : n < j /\ j < m => q[j].type # "get"

\* Each request the hub has, or is about to read, was given up before the next get.
GetsInOrder ==
    /\ pending # Idle => GivenUp(pending.id, 0, toHub, sender)
    /\ \A n \in DOMAIN toHub : toHub[n].type = "get" => GivenUp(toHub[n].id, n, toHub, sender)

\* A check of the pending request is of the lease that authenticates, and is the only one.
ChecksAreOwn ==
    /\ \A k \in checks : k.id = pending.id =>
         /\ k.lease = auth
         /\ k.for = "dispatch" => pending.validating /\ ~pending.dispatched
         /\ k.for = "result" => pending.completing /\ pending.dispatched
    /\ \A k, l \in checks : k.id = pending.id /\ l.id = pending.id => k = l

\* What was asked and what was asserted, against what became of the leases: a lease is asked
\* for one request, and the pending one is the last that was asked.
LeaseInv ==
    /\ auth # None => lease[auth] = "waiting"
    /\ asserted \subseteq dispatched
    /\ \A x, y \in dispatched : x[1] = y[1] \/ x[2] = y[2] => x = y
    /\ \A a \in Leases : lease[a] = "completed" <=> \E x \in asserted : x[2] = a
    /\ \A x \in dispatched : lease[x[2]] # "unused"
    /\ pending # Idle /\ pending.dispatched => auth # None /\ <<pending.id, auth>> \in dispatched
    /\ \A x \in dispatched : x[1] = pending.id => pending.dispatched
    /\ \A x \in dispatched : x[2] = auth => x[1] = pending.id

\* What the records of the hub hold.
Peers == {"sender", "receiver", "nobody"}
HubRequests == [id : Requests, dispatched : BOOLEAN, validating : BOOLEAN, completing : BOOLEAN]
Checked == [id : Requests, lease : Leases, for : {"dispatch", "result"}, peer : Peers]

\* The type of every variable, histories included.
PassType == TypeOK /\ dispatched \subseteq Requests \X Leases

\* The inductive invariant of the passkey session.
PassInv ==
    /\ PassType /\ SenderInv /\ PageInv /\ HeardOnce /\ GetsInOrder /\ ChecksAreOwn /\ LeaseInv

\* A message is sent: it comes last, and the others stay.
LEMMA Appended ==
    ASSUME NEW S, NEW q \in Seq(S), NEW e \in S
    PROVE  /\ Append(q, e) \in Seq(S) /\ Len(q) \in Nat
           /\ DOMAIN q = 1..Len(q) /\ DOMAIN Append(q, e) = 1..(Len(q) + 1)
           /\ Append(q, e)[Len(q) + 1] = e
           /\ \A n \in DOMAIN q : n \in DOMAIN Append(q, e) /\ Append(q, e)[n] = q[n]
           /\ \A n \in DOMAIN Append(q, e) : n \in DOMAIN q \/ n = Len(q) + 1
OBVIOUS

\* A message is read: the others move up.
LEMMA Popped ==
    ASSUME NEW S, NEW q \in Seq(S), q # <<>>
    PROVE  /\ Tail(q) \in Seq(S) /\ Head(q) \in S /\ Head(q) = q[1]
           /\ DOMAIN q \subseteq Nat \ {0} /\ 1 \in DOMAIN q
           /\ \A n \in DOMAIN Tail(q) :
                n \in Nat \ {0} /\ n + 1 \in DOMAIN q /\ Tail(q)[n] = q[n + 1]
           /\ \A n \in DOMAIN q \ {1} :
                n - 1 \in DOMAIN Tail(q) /\ Tail(q)[n - 1] = q[n]
<1>1. Len(q) \in Nat \ {0} /\ DOMAIN q = 1..Len(q)
  OBVIOUS
<1>2. Tail(q) \in Seq(S) /\ Len(Tail(q)) = Len(q) - 1 /\ DOMAIN Tail(q) = 1..(Len(q) - 1)
  BY <1>1
<1>3. \A n \in 1..(Len(q) - 1) : Tail(q)[n] = q[n + 1]
  BY <1>1
<1> QED BY <1>1, <1>2, <1>3

\* What a message is made of.
LEMMA MessageFields ==
    ASSUME NEW type, NEW c
    PROVE  Msg(type, c).type = type /\ Msg(type, c).id = c
BY DEF Msg

\* A message that is read changes nothing for the requests behind it.
LEMMA GivenUpBehind ==
    ASSUME NEW S, NEW q \in Seq(S), q # <<>>, NEW c, NEW s, NEW n \in Nat \ {0},
           GivenUp(c, n, q, s)
    PROVE  GivenUp(c, n - 1, Tail(q), s)
<1>1. CASE s # Idle /\ s.id = c /\ s.phase # "looking" /\ \A j \in DOMAIN q : j > n => q[j].type # "get"
  <2>1. \A j \in DOMAIN Tail(q) : j > n - 1 => Tail(q)[j].type # "get"
    BY <1>1, Popped
  <2> QED BY <1>1, <2>1 DEF GivenUp
<1>2. ASSUME NEW m \in DOMAIN q, m > n, q[m] = Msg("cancel", c),
             \A j \in DOMAIN q : n < j /\ j < m => q[j].type # "get"
      PROVE  GivenUp(c, n - 1, Tail(q), s)
  <2>1. m \in Nat /\ m # 1
    BY <1>2, Popped
  <2>2. m - 1 \in DOMAIN Tail(q) /\ Tail(q)[m - 1] = Msg("cancel", c) /\ m - 1 > n - 1
    BY <1>2, <2>1, Popped
  <2>3. ASSUME NEW j \in DOMAIN Tail(q), n - 1 < j, j < m - 1
        PROVE  Tail(q)[j].type # "get"
    <3>1. j \in Nat \ {0} /\ j + 1 \in DOMAIN q /\ Tail(q)[j] = q[j + 1]
      BY Popped
    <3>2. n < j + 1 /\ j + 1 < m
      BY <2>1, <2>3, <3>1
    <3> QED BY <1>2, <3>1, <3>2
  <2> QED BY <2>2, <2>3 DEF GivenUp
<1> QED BY <1>1, <1>2 DEF GivenUp

\* Nor for the hub's own request, unless it is its cancellation.
LEMMA GivenUpStill ==
    ASSUME NEW S, NEW q \in Seq(S), q # <<>>, NEW c, NEW s, Head(q) # Msg("cancel", c),
           GivenUp(c, 0, q, s)
    PROVE  GivenUp(c, 0, Tail(q), s)
<1>1. CASE s # Idle /\ s.id = c /\ s.phase # "looking" /\ \A j \in DOMAIN q : j > 0 => q[j].type # "get"
  <2>1. \A j \in DOMAIN Tail(q) : j > 0 => Tail(q)[j].type # "get"
    BY <1>1, Popped
  <2> QED BY <1>1, <2>1 DEF GivenUp
<1>2. ASSUME NEW m \in DOMAIN q, m > 0, q[m] = Msg("cancel", c),
             \A j \in DOMAIN q : 0 < j /\ j < m => q[j].type # "get"
      PROVE  GivenUp(c, 0, Tail(q), s)
  <2>1. m \in Nat /\ m # 1
    BY <1>2, Popped
  <2>2. m - 1 \in DOMAIN Tail(q) /\ Tail(q)[m - 1] = Msg("cancel", c) /\ m - 1 > 0
    BY <1>2, <2>1, Popped
  <2>3. ASSUME NEW j \in DOMAIN Tail(q), 0 < j, j < m - 1
        PROVE  Tail(q)[j].type # "get"
    <3>1. j \in Nat \ {0} /\ j + 1 \in DOMAIN q /\ Tail(q)[j] = q[j + 1]
      BY Popped
    <3>2. 0 < j + 1 /\ j + 1 < m
      BY <2>1, <2>3, <3>1
    <3> QED BY <1>2, <3>1, <3>2
  <2> QED BY <2>2, <2>3 DEF GivenUp
<1> QED BY <1>1, <1>2 DEF GivenUp

\* A cancellation of what the sender gives up takes the place of the sender.
LEMMA GivenUpByCancel ==
    ASSUME NEW S, NEW q \in Seq(S), NEW c, NEW s, s # Idle, NEW n \in Nat, n <= Len(q),
           Msg("cancel", s.id) \in S, GivenUp(c, n, q, s)
    PROVE  GivenUp(c, n, Append(q, Msg("cancel", s.id)), Idle)
<1> DEFINE e == Msg("cancel", s.id)
           r == Append(q, e)
<1>1. /\ Len(q) \in Nat /\ DOMAIN q = 1..Len(q) /\ DOMAIN r = 1..(Len(q) + 1)
      /\ r[Len(q) + 1] = e /\ \A j \in DOMAIN q : r[j] = q[j]
  BY Appended
<1> HIDE DEF r
<1>2. CASE s.id = c /\ \A j \in DOMAIN q : j > n => q[j].type # "get"
  <2>1. Len(q) + 1 \in DOMAIN r /\ Len(q) + 1 > n /\ r[Len(q) + 1] = Msg("cancel", c)
    BY <1>1, <1>2
  <2>2. \A j \in DOMAIN r : n < j /\ j < Len(q) + 1 => r[j].type # "get"
    BY <1>1, <1>2
  <2> QED BY <2>1, <2>2 DEF GivenUp, r
<1>3. ASSUME NEW m \in DOMAIN q, m > n, q[m] = Msg("cancel", c),
             \A j \in DOMAIN q : n < j /\ j < m => q[j].type # "get"
      PROVE  GivenUp(c, n, r, Idle)
  <2>1. m \in DOMAIN r /\ r[m] = Msg("cancel", c)
    BY <1>1, <1>3
  <2>2. \A j \in DOMAIN r : n < j /\ j < m => r[j].type # "get"
    BY <1>1, <1>3
  <2> QED BY <1>3, <2>1, <2>2 DEF GivenUp
<1> QED BY <1>2, <1>3 DEF GivenUp, r

\* A request that goes out comes behind the cancellations of those before it.
LEMMA GivenUpBeforeGet ==
    ASSUME NEW S, NEW q \in Seq(S), NEW c, NEW s, NEW t, s.phase = "looking",
           NEW n \in Nat, NEW e \in S, GivenUp(c, n, q, s)
    PROVE  GivenUp(c, n, Append(q, e), t)
<1> DEFINE r == Append(q, e)
<1>1. /\ Len(q) \in Nat /\ DOMAIN q = 1..Len(q) /\ DOMAIN r = 1..(Len(q) + 1)
      /\ \A j \in DOMAIN q : r[j] = q[j]
  BY Appended
<1> HIDE DEF r
<1>2. PICK m \in DOMAIN q :
        /\ m > n /\ q[m] = Msg("cancel", c)
        /\ \A j \in DOMAIN q : n < j /\ j < m => q[j].type # "get"
  BY DEF GivenUp
<1>3. m \in DOMAIN r /\ r[m] = Msg("cancel", c)
  BY <1>1, <1>2
<1>4. \A j \in DOMAIN r : n < j /\ j < m => r[j].type # "get"
  BY <1>1, <1>2
<1> QED BY <1>2, <1>3, <1>4 DEF GivenUp, r

\* A sender that goes on with the same request has given up none.
LEMMA GivenUpSame ==
    ASSUME NEW q, NEW c, NEW s, NEW t, NEW n, GivenUp(c, n, q, s),
           s # Idle /\ s.id = c /\ s.phase # "looking" => t # Idle /\ t.id = c /\ t.phase # "looking"
    PROVE  GivenUp(c, n, q, t)
BY DEF GivenUp

\* Cancel: the hub forgets its request and its lease, and tells the sender.
LEMMA Emptied ==
    ASSUME PassType, NEW mail \in Seq(Message({"get", "cancel"})), Cancel(mail)
    PROVE  /\ pending' = Idle /\ auth' = None
           /\ fromHub' \in Seq(Message({"assertion", "error"}))
           /\ toReceiver' \in Seq(Message({"get", "cancel"}))
           /\ lease' = [a \in Leases |-> IF a = auth THEN "failed" ELSE lease[a]]
           /\ \A n \in DOMAIN fromHub' :
                \/ n \in DOMAIN fromHub /\ fromHub'[n] = fromHub[n]
                \/ pending # Idle /\ fromHub'[n].id = pending.id
<1>1. pending' = Idle /\ auth' = None
      /\ lease' = [a \in Leases |-> IF a = auth THEN "failed" ELSE lease[a]]
  BY DEF Cancel, Settle
<1>2. fromHub \in Seq(Message({"assertion", "error"}))
  BY DEF PassType, TypeOK
<1>3. CASE pending = Idle
  BY <1>1, <1>2, <1>3 DEF Cancel
<1>4. CASE pending # Idle
  <2>1. pending.id \in Requests
    BY <1>4 DEF PassType, TypeOK
  <2>2. Msg("error", pending.id) \in Message({"assertion", "error"})
        /\ Msg("cancel", pending.id) \in Message({"get", "cancel"})
        /\ Msg("error", pending.id).id = pending.id
    BY <2>1 DEF Msg, Message
  <2>3. fromHub' = Append(fromHub, Msg("error", pending.id))
        /\ toReceiver' \in {mail, Append(mail, Msg("cancel", pending.id))}
    BY <1>4 DEF Cancel
  <2>4. /\ fromHub' \in Seq(Message({"assertion", "error"}))
        /\ \A n \in DOMAIN fromHub' :
             \/ n \in DOMAIN fromHub /\ fromHub'[n] = fromHub[n]
             \/ fromHub'[n].id = pending.id
    BY <1>2, <2>2, <2>3, Appended
  <2>5. toReceiver' \in Seq(Message({"get", "cancel"}))
    BY <2>2, <2>3, Appended
  <2> QED BY <1>1, <1>4, <2>4, <2>5
<1> QED BY <1>3, <1>4

\* Dispatch: the hub keeps the request it was given, and may begin to ask the lease.
LEMMA Handed ==
    ASSUME PassType, NEW p \in {Idle} \cup HubRequests, NEW a \in Leases \cup {None},
           NEW peer \in Peers, Dispatch(p, a, peer)
    PROVE  /\ pending' \in {Idle} \cup HubRequests /\ checks' \subseteq Checked
           /\ pending'.id = p.id
           /\ \/ pending' = p /\ checks' = checks
              \/ /\ p # Idle /\ a # None /\ ~p.dispatched /\ ~p.validating
                 /\ pending' # Idle /\ pending'.validating /\ ~pending'.dispatched
                 /\ checks' = checks \cup {Check(p.id, a, "dispatch", peer)}
<1>1. checks \subseteq Checked
  BY DEF PassType, TypeOK, Checked, Peers
<1>2. CASE pending' = p /\ checks' = checks
  BY <1>1, <1>2
<1>3. CASE /\ p # Idle /\ a # None /\ ~p.dispatched /\ ~p.validating
           /\ pending' = [p EXCEPT !.validating = TRUE]
           /\ checks' = checks \cup {Check(p.id, a, "dispatch", peer)}
  <2>1. p \in HubRequests
    BY <1>3
  <2>2. /\ pending' \in HubRequests /\ pending'.id = p.id
        /\ pending'.validating /\ ~pending'.dispatched
    BY <1>3, <2>1 DEF HubRequests
  <2>3. pending' # Idle
    BY <2>1, <2>2, PasskeysAssumption DEF Idle, HubRequests
  <2>4. Check(p.id, a, "dispatch", peer) \in Checked
    BY <1>3, <2>1 DEF Check, Checked, HubRequests
  <2> QED BY <1>1, <1>3, <2>2, <2>3, <2>4
<1> QED BY <1>2, <1>3 DEF Dispatch

\* What a step of the hub may do to its messages and its request.
LEMMA HubHears ==
    ASSUME PassInv, PassType', UNCHANGED <<chrome, sender>>,
           toHub' = toHub \/ (toHub # <<>> /\ toHub' = Tail(toHub)),
           pending'.id \in {pending.id, None},
           \A k \in checks' : k \in checks \/ (pending # Idle /\ k.id = pending.id),
           \A x \in dispatched' : x \in dispatched \/ (pending # Idle /\ x[1] = pending.id),
           \A n \in DOMAIN fromHub' :
              \/ n \in DOMAIN fromHub /\ fromHub'[n] = fromHub[n]
              \/ pending # Idle /\ fromHub'[n].id = pending.id /\ pending' = Idle
    PROVE  HeardOnce'
<1>1. toHub \in Seq(Message({"get", "cancel"})) /\ HeardOnce
  BY DEF PassInv, PassType, TypeOK
<1>2. /\ \A n \in DOMAIN toHub' : toHub'[n].type = "get" =>
           \/ n \in DOMAIN toHub /\ toHub'[n] = toHub[n] /\ toHub' = toHub
           \/ n \in Nat /\ n + 1 \in DOMAIN toHub /\ toHub'[n] = toHub[n + 1] /\ toHub' # toHub
      /\ \A c \in Requests : Asked(c)' => Asked(c)
  <2>1. CASE toHub' = toHub
    BY <2>1 DEF Asked
  <2>2. CASE toHub # <<>> /\ toHub' = Tail(toHub) /\ toHub' # toHub
    BY <1>1, <2>2, Popped DEF Asked
  <2> QED BY <2>1, <2>2
<1>3. \A c \in Requests : Unheard(c)' => Unheard(c)
  BY <1>2 DEF Unheard, Looking
<1>4. \A m, n \in DOMAIN toHub' : toHub'[m].type = "get" /\ toHub'[m] = toHub'[n] => m = n
  <2>1. CASE toHub' = toHub
    BY <1>1, <2>1 DEF HeardOnce
  <2>2. CASE toHub # <<>> /\ toHub' = Tail(toHub)
    <3>1. \A n \in DOMAIN toHub' : n \in Nat /\ n + 1 \in DOMAIN toHub /\ toHub'[n] = toHub[n + 1]
      BY <1>1, <2>2, Popped
    <3>2. \A m, n \in DOMAIN toHub : toHub[m].type = "get" /\ toHub[m] = toHub[n] => m = n
      BY <1>1 DEF HeardOnce
    <3> SUFFICES ASSUME NEW m \in DOMAIN toHub', NEW n \in DOMAIN toHub',
                        toHub'[m].type = "get", toHub'[m] = toHub'[n]
                 PROVE  m = n
      OBVIOUS
    <3>3. m + 1 = n + 1
      BY <3>1, <3>2
    <3> QED BY <3>1, <3>3
  <2> QED BY <2>1, <2>2
<1>5. pending.id \in Requests \cup {None} /\ (pending # Idle => pending.id \in Requests)
      /\ None \notin Requests /\ Idle.id = None
  BY PasskeysAssumption DEF PassInv, PassType, TypeOK, Idle
<1>6. ASSUME NEW c \in Requests, Unheard(c)'
      PROVE  /\ pending'.id # c
             /\ \A k \in checks' : k.id # c
             /\ \A x \in dispatched' : x[1] # c
             /\ \A n \in DOMAIN fromHub' : fromHub'[n].id # c
  <2>1. /\ pending.id # c
        /\ \A k \in checks : k.id # c
        /\ \A x \in dispatched : x[1] # c
        /\ \A n \in DOMAIN fromHub : fromHub[n].id # c
    BY <1>1, <1>3, <1>6 DEF HeardOnce
  <2> QED BY <1>5, <2>1
<1>7. \A n \in DOMAIN fromHub' : fromHub'[n].id # pending'.id
  <2> SUFFICES ASSUME NEW n \in DOMAIN fromHub' PROVE fromHub'[n].id # pending'.id
    OBVIOUS
  <2>1. CASE n \in DOMAIN fromHub /\ fromHub'[n] = fromHub[n]
    <3>1. fromHub[n].id # pending.id
      BY <1>1, <2>1 DEF HeardOnce
    <3>2. fromHub[n].id \in Requests
      <4>1. fromHub \in Seq(Message({"assertion", "error"}))
        BY DEF PassInv, PassType, TypeOK
      <4>2. fromHub[n] \in Message({"assertion", "error"})
        BY <2>1, <4>1
      <4> QED BY <4>2 DEF Message
    <3> QED BY <1>5, <2>1, <3>1, <3>2
  <2>2. CASE pending # Idle /\ fromHub'[n].id = pending.id /\ pending' = Idle
    BY <1>5, <2>2
  <2> QED BY <2>1, <2>2
<1>8. sender # Idle /\ sender.phase = "checking" =>
        pending'.id # sender.id /\ ~Asked(sender.id)'
  <2>1. sender # Idle => sender.id \in Requests
    BY DEF PassInv, PassType, TypeOK
  <2>2. sender # Idle /\ sender.phase = "checking" => pending.id # sender.id /\ ~Asked(sender.id)
    BY <1>1 DEF HeardOnce
  <2> QED BY <1>2, <1>5, <2>1, <2>2
<1>9. \A c \in Requests : Asked(c)' => chrome'[c] # "new" /\ ~Looking(c)'
  BY <1>1, <1>2 DEF HeardOnce, Looking
<1> QED BY <1>4, <1>6, <1>7, <1>8, <1>9 DEF HeardOnce

\* The request of the hub goes, and with it its lease.
LEMMA CancelledLeases ==
    ASSUME PassInv, pending' = Idle, auth' = None, checks' \subseteq checks,
           UNCHANGED <<dispatched, asserted>>,
           lease' = [a \in Leases |-> IF a = auth THEN "failed" ELSE lease[a]]
    PROVE  ChecksAreOwn' /\ LeaseInv'
<1>1. /\ \A k \in checks' : k.id # pending'.id
      /\ \A x \in dispatched : x[1] # pending'.id /\ x[2] # auth' /\ x[2] \in Leases
  BY PasskeysAssumption DEF PassInv, PassType, TypeOK, Idle
<1>2. \A x \in asserted : lease[x[2]] = "completed" /\ x[2] \in Leases
  BY <1>1 DEF PassInv, LeaseInv
<1>3. auth # None => lease[auth] = "waiting"
  BY DEF PassInv, LeaseInv
<1>4. \A a \in Leases : lease'[a] = "completed" <=> \E x \in asserted' : x[2] = a
  <2>1. \A a \in Leases : lease[a] = "completed" <=> \E x \in asserted : x[2] = a
    BY DEF PassInv, LeaseInv
  <2>2. \A a \in Leases : lease'[a] = "completed" <=> lease[a] = "completed" /\ a # auth
    OBVIOUS
  <2>3. auth \in Leases => lease[auth] # "completed"
    BY <1>3, PasskeysAssumption
  <2> QED BY <2>1, <2>2, <2>3
<1>5. \A x \in dispatched' : lease'[x[2]] # "unused"
  BY <1>1 DEF PassInv, LeaseInv
<1> QED BY <1>1, <1>4, <1>5 DEF PassInv, LeaseInv, ChecksAreOwn

\* Messages of the sender that are not read stay in order.
LEMMA OrderStays ==
    ASSUME PassInv, UNCHANGED <<toHub, sender>>,
           pending' # Idle => pending # Idle /\ pending'.id = pending.id
    PROVE  GetsInOrder'
BY DEF PassInv, GetsInOrder

\* Each step of the sender keeps the invariant.
LEMMA DeclineStep == ASSUME PassInv, NEW c \in Requests, Decline(c) PROVE PassInv'
<1>1. PassType'
  BY DEF PassInv, PassType, TypeOK, Decline, hubVars, receiverVars
<1>2. SenderInv'
  BY DEF PassInv, SenderInv, Decline
<1>3. PageInv'
  BY DEF PassInv, PageInv, Decline, receiverVars
<1>4. HeardOnce'
  BY DEF PassInv, HeardOnce, Looking, Asked, Unheard, Decline, hubVars
<1>5. GetsInOrder'
  BY DEF PassInv, GetsInOrder, Decline, hubVars
<1>6. ChecksAreOwn'
  BY DEF PassInv, ChecksAreOwn, Decline, hubVars
<1>7. LeaseInv'
  BY DEF PassInv, LeaseInv, Decline, hubVars
<1> QED BY <1>1, <1>2, <1>3, <1>4, <1>5, <1>6, <1>7 DEF PassInv

LEMMA TakeStep == ASSUME PassInv, NEW c \in Requests, Take(c) PROVE PassInv'
<1>1. PassType'
  BY DEF PassInv, PassType, TypeOK, Take, hubVars, receiverVars
<1>2. SenderInv'
  BY DEF PassInv, PassType, TypeOK, SenderInv, Take
<1>3. PageInv'
  BY DEF PassInv, PageInv, Take, receiverVars
<1>4. HeardOnce'
  <2>1. /\ chrome[c] = "new" /\ sender = Idle
        /\ \A d \in Requests : chrome'[d] = IF d = c THEN "open" ELSE chrome[d]
        /\ sender' # Idle /\ sender'.id = c /\ sender'.phase = "looking"
    BY DEF PassInv, PassType, TypeOK, Take, Idle
  <2>2. UNCHANGED <<toHub, fromHub, pending, checks, dispatched>>
    BY DEF Take, hubVars
  <2>3. \A d \in Requests : (Unheard(d)' => Unheard(d)) /\ (Asked(d)' => Asked(d) /\ d # c)
    BY <2>1, <2>2 DEF PassInv, HeardOnce, Unheard, Looking, Asked
  <2> QED BY <2>1, <2>2, <2>3 DEF PassInv, HeardOnce, Looking
<1>5. GetsInOrder'
  BY DEF PassInv, GetsInOrder, GivenUp, Take, hubVars
<1>6. ChecksAreOwn'
  BY DEF PassInv, ChecksAreOwn, Take, hubVars
<1>7. LeaseInv'
  BY DEF PassInv, LeaseInv, Take, hubVars
<1> QED BY <1>1, <1>2, <1>3, <1>4, <1>5, <1>6, <1>7 DEF PassInv

LEMMA SendGetStep == ASSUME PassInv, SendGet PROVE PassInv'
<1>1. PassType'
  BY DEF PassInv, PassType, TypeOK, Message, SendGet, hubVars, receiverVars, Msg
<1>2. SenderInv'
  BY DEF PassInv, SenderInv, SendGet
<1>3. PageInv'
  BY DEF PassInv, PageInv, SendGet, receiverVars
<1>4. HeardOnce'
  BY <1>1
     DEF PassInv, PassType, TypeOK, SenderInv, HeardOnce, Looking, Asked, Unheard, SendGet,
         hubVars, Msg
<1>5. GetsInOrder'
  <2>1. /\ toHub \in Seq(Message({"get", "cancel"})) /\ sender # Idle /\ sender.phase = "looking"
        /\ sender.id \in Requests
    BY DEF PassInv, PassType, TypeOK, SendGet
  <2>2. toHub' = Append(toHub, Msg("get", sender.id)) /\ UNCHANGED pending
    BY DEF SendGet, hubVars
  <2>3. Msg("get", sender.id) \in Message({"get", "cancel"})
    BY <2>1 DEF Msg, Message
  <2>4. sender' # Idle /\ sender'.id = sender.id /\ sender'.phase = "sent"
    BY DEF PassInv, PassType, TypeOK, SendGet, Idle
  <2>5. pending # Idle => GivenUp(pending.id, 0, toHub', sender')
    BY <2>1, <2>2, <2>3, GivenUpBeforeGet DEF PassInv, GetsInOrder
  <2>6. ASSUME NEW n \in DOMAIN toHub', toHub'[n].type = "get"
        PROVE  GivenUp(toHub'[n].id, n, toHub', sender')
    <3>1. CASE n \in DOMAIN toHub /\ toHub'[n] = toHub[n]
      <4>1. GivenUp(toHub[n].id, n, toHub, sender) /\ n \in Nat
        BY <2>1, <2>6, <3>1 DEF PassInv, GetsInOrder
      <4> QED BY <2>1, <2>2, <2>3, <3>1, <4>1, GivenUpBeforeGet
    <3>2. CASE n = Len(toHub) + 1 /\ toHub'[n] = Msg("get", sender.id)
      <4>1. toHub'[n].id = sender.id /\ \A j \in DOMAIN toHub' : ~(j > n)
        BY <2>1, <2>2, <2>3, <3>2, Appended, MessageFields
      <4> QED BY <2>4, <4>1 DEF GivenUp
    <3> QED BY <2>1, <2>2, <2>3, <3>1, <3>2, Appended
  <2> QED BY <2>2, <2>5, <2>6 DEF GetsInOrder
<1>6. ChecksAreOwn'
  BY DEF PassInv, ChecksAreOwn, SendGet, hubVars
<1>7. LeaseInv'
  BY DEF PassInv, LeaseInv, SendGet, hubVars
<1> QED BY <1>1, <1>2, <1>3, <1>4, <1>5, <1>6, <1>7 DEF PassInv

LEMMA LookFailsStep == ASSUME PassInv, LookFails PROVE PassInv'
<1>1. PassType'
  BY DEF PassInv, PassType, TypeOK, LookFails, Answer, hubVars, receiverVars
<1>2. SenderInv'
  BY DEF PassInv, SenderInv, LookFails, Answer
<1>3. PageInv'
  BY DEF PassInv, PageInv, LookFails, receiverVars
<1>4. HeardOnce'
  BY DEF PassInv, HeardOnce, Looking, Asked, Unheard, LookFails, Answer, hubVars
<1>5. GetsInOrder'
  BY DEF PassInv, GetsInOrder, GivenUp, LookFails, hubVars
<1>6. ChecksAreOwn'
  BY DEF PassInv, ChecksAreOwn, LookFails, hubVars
<1>7. LeaseInv'
  BY DEF PassInv, LeaseInv, LookFails, hubVars
<1> QED BY <1>1, <1>2, <1>3, <1>4, <1>5, <1>6, <1>7 DEF PassInv

LEMMA SenderAbortsStep ==
    ASSUME PassInv, NEW how \in {"cancelled", "error"}, SenderAborts(how)
    PROVE  PassInv'
<1>1. PassType'
  BY DEF PassInv, PassType, TypeOK, Message, SenderAborts, Answer, hubVars, receiverVars, Msg
<1>2. SenderInv'
  BY DEF PassInv, SenderInv, SenderAborts, Answer
<1>3. PageInv'
  BY DEF PassInv, PageInv, SenderAborts, receiverVars
<1>4. HeardOnce'
  <2>1. toHub \in Seq(Message({"get", "cancel"})) /\ sender # Idle /\ sender.id \in Requests
    BY DEF PassInv, PassType, TypeOK, SenderAborts
  <2>2. /\ toHub' = Append(toHub, Msg("cancel", sender.id)) /\ sender' = Idle
        /\ UNCHANGED <<fromHub, pending, checks, dispatched>>
        /\ \A d \in Requests : chrome'[d] = "new" <=> chrome[d] = "new"
    BY DEF SenderAborts, Answer, hubVars, PassInv, SenderInv
  <2>3. /\ Msg("cancel", sender.id) \in Message({"get", "cancel"})
        /\ Msg("cancel", sender.id).type # "get"
        /\ \A d \in Requests : Msg("get", d).type = "get"
    BY <2>1 DEF Msg, Message
  <2>4. /\ \A n \in DOMAIN toHub : n \in DOMAIN toHub' /\ toHub'[n] = toHub[n]
        /\ \A n \in DOMAIN toHub' : toHub'[n].type = "get" => n \in DOMAIN toHub
    BY <2>1, <2>2, <2>3, Appended
  <2>5. \A d \in Requests : (Unheard(d)' => Unheard(d)) /\ (Asked(d)' => Asked(d))
    BY <2>2, <2>3, <2>4 DEF Unheard, Looking, Asked
  <2> QED BY <2>2, <2>4, <2>5 DEF PassInv, HeardOnce, Looking
<1>5. GetsInOrder'
  <2>1. toHub \in Seq(Message({"get", "cancel"})) /\ sender # Idle /\ sender.id \in Requests
    BY DEF PassInv, PassType, TypeOK, SenderAborts
  <2>2. toHub' = Append(toHub, Msg("cancel", sender.id)) /\ sender' = Idle /\ UNCHANGED pending
    BY DEF SenderAborts, hubVars
  <2>3. /\ Msg("cancel", sender.id) \in Message({"get", "cancel"})
        /\ Msg("cancel", sender.id).type # "get"
    BY <2>1 DEF Msg, Message
  <2>4. pending # Idle => GivenUp(pending.id, 0, toHub', sender')
    <3>1. 0 \in Nat /\ 0 <= Len(toHub)
      BY <2>1
    <3> QED BY <2>1, <2>2, <2>3, <3>1, GivenUpByCancel DEF PassInv, GetsInOrder
  <2>5. ASSUME NEW n \in DOMAIN toHub', toHub'[n].type = "get"
        PROVE  GivenUp(toHub'[n].id, n, toHub', sender')
    <3>1. n \in DOMAIN toHub /\ toHub'[n] = toHub[n]
      BY <2>1, <2>2, <2>3, <2>5, Appended
    <3>2. GivenUp(toHub[n].id, n, toHub, sender) /\ n \in Nat /\ n <= Len(toHub)
      BY <2>1, <2>5, <3>1 DEF PassInv, GetsInOrder
    <3> QED BY <2>1, <2>2, <2>3, <3>1, <3>2, GivenUpByCancel
  <2> QED BY <2>2, <2>4, <2>5 DEF GetsInOrder
<1>6. ChecksAreOwn'
  BY DEF PassInv, ChecksAreOwn, SenderAborts, hubVars
<1>7. LeaseInv'
  BY DEF PassInv, LeaseInv, SenderAborts, hubVars
<1> QED BY <1>1, <1>2, <1>3, <1>4, <1>5, <1>6, <1>7 DEF PassInv

LEMMA SenderReceivesStep == ASSUME PassInv, SenderReceives PROVE PassInv'
<1>1. /\ fromHub \in Seq(Message({"assertion", "error"})) /\ fromHub # <<>>
      /\ fromHub' = Tail(fromHub) /\ UNCHANGED <<toHub, pending, checks, dispatched>>
  BY DEF PassInv, PassType, TypeOK, SenderReceives, hubVars
<1>2. /\ fromHub' \in Seq(Message({"assertion", "error"}))
      /\ Head(fromHub).id \in Requests
      /\ Head(fromHub).id # pending.id /\ ~Unheard(Head(fromHub).id)
      /\ \A n \in DOMAIN fromHub' : \E m \in DOMAIN fromHub : fromHub'[n] = fromHub[m]
  <2>1. /\ Head(fromHub) \in Message({"assertion", "error"}) /\ Head(fromHub) = fromHub[1]
        /\ 1 \in DOMAIN fromHub
    BY <1>1, Popped
  <2>2. Head(fromHub).id \in Requests
    BY <2>1 DEF Message
  <2> QED BY <1>1, <2>1, <2>2, Popped DEF PassInv, HeardOnce
<1>3. \/ UNCHANGED <<chrome, sender>>
      \/ /\ sender # Idle /\ sender.id = Head(fromHub).id
         /\ Answer(sender.id, "error") /\ sender' = Idle
      \/ /\ sender # Idle /\ sender.id = Head(fromHub).id
         /\ sender' = [sender EXCEPT !.phase = "checking"] /\ UNCHANGED chrome
  BY <1>1, <1>2 DEF SenderReceives, senderVars
<1>4. sender # Idle => sender.id \in Requests /\ chrome[sender.id] = "open"
  BY DEF PassInv, PassType, TypeOK, SenderInv
<1>5. /\ sender' # Idle => sender # Idle /\ sender'.id = sender.id
      /\ sender' # Idle => sender'.phase = sender.phase
                            \/ (sender'.phase = "checking" /\ sender.id = Head(fromHub).id)
      /\ \A d \in Requests : chrome'[d] = "new" => chrome[d] = "new"
      /\ sender' \in {Idle} \cup [id : Requests, phase : {"looking", "sent", "checking"}]
      /\ chrome' \in [Requests -> {"new", "open", "cancelled", "error", "assertion", "twice"}]
  BY <1>3, <1>4 DEF PassInv, PassType, TypeOK, Answer
<1>6. PassType'
  BY <1>5 DEF PassInv, PassType, TypeOK, SenderReceives, hubVars, receiverVars
<1>7. SenderInv'
  BY DEF PassInv, PassType, TypeOK, SenderInv, SenderReceives, Answer, senderVars
<1>8. PageInv'
  BY DEF PassInv, PageInv, SenderReceives, receiverVars
<1>9. HeardOnce'
  <2>1. \A d \in Requests : (Asked(d)' <=> Asked(d)) /\ (Unheard(d)' => Unheard(d)) /\ (Looking(d)' => Looking(d))
    BY <1>1, <1>5 DEF Unheard, Looking, Asked
  <2>2. Asked(Head(fromHub).id) => Unheard(Head(fromHub).id)
    BY DEF Unheard
  <2> QED BY <1>1, <1>2, <1>4, <1>5, <2>1, <2>2 DEF PassInv, HeardOnce
<1>10. GetsInOrder'
  <2>1. ASSUME NEW c, NEW n, GivenUp(c, n, toHub, sender), c # Head(fromHub).id
        PROVE  GivenUp(c, n, toHub, sender')
    <3>1. sender # Idle /\ sender.id = c => sender' = sender
      BY <1>3, <2>1
    <3> QED BY <2>1, <3>1, GivenUpSame
  <2>2. \A n \in DOMAIN toHub : toHub[n].type = "get" => toHub[n].id # Head(fromHub).id
    <3> SUFFICES ASSUME NEW n \in DOMAIN toHub, toHub[n].type = "get",
                        toHub[n].id = Head(fromHub).id
                 PROVE  FALSE
      OBVIOUS
    <3>1. toHub[n] \in Message({"get", "cancel"})
      BY DEF PassInv, PassType, TypeOK
    <3>2. toHub[n] = Msg("get", Head(fromHub).id)
      BY <3>1 DEF Message, Msg
    <3> QED BY <1>2, <3>2 DEF Unheard, Asked
  <2> QED BY <1>1, <1>2, <2>1, <2>2 DEF PassInv, GetsInOrder
<1>11. ChecksAreOwn'
  BY DEF PassInv, ChecksAreOwn, SenderReceives, hubVars
<1>12. LeaseInv'
  BY DEF PassInv, LeaseInv, SenderReceives, hubVars
<1> QED BY <1>6, <1>7, <1>8, <1>9, <1>10, <1>11, <1>12 DEF PassInv

LEMMA SenderCheckedStep == ASSUME PassInv, SenderChecked PROVE PassInv'
<1>1. PassType'
  BY DEF PassInv, PassType, TypeOK, SenderChecked, Answer, hubVars, receiverVars
<1>2. SenderInv'
  BY DEF PassInv, SenderInv, SenderChecked, Answer
<1>3. PageInv'
  BY DEF PassInv, PageInv, SenderChecked, receiverVars
<1>4. HeardOnce'
  <2>1. /\ sender # Idle /\ sender.id \in Requests /\ sender' = Idle
        /\ UNCHANGED <<toHub, fromHub, pending, checks, dispatched>>
        /\ \A d \in Requests : chrome'[d] = "new" => chrome[d] = "new"
    BY DEF SenderChecked, Answer, hubVars, PassInv, PassType, TypeOK
  <2>2. \A d \in Requests : (Unheard(d)' => Unheard(d)) /\ (Asked(d)' => Asked(d)) /\ ~Looking(d)'
    BY <2>1 DEF Unheard, Looking, Asked
  <2> QED BY <2>1, <2>2 DEF PassInv, HeardOnce
<1>5. GetsInOrder'
  <2>1. /\ sender # Idle /\ sender.phase = "checking" /\ sender.id \in Requests /\ sender' = Idle
        /\ UNCHANGED <<toHub, pending>>
    BY DEF SenderChecked, hubVars, PassInv, PassType, TypeOK
  <2>2. pending.id # sender.id /\ ~Asked(sender.id)
    BY <2>1 DEF PassInv, HeardOnce
  <2>3. ASSUME NEW n \in DOMAIN toHub, toHub[n].type = "get" PROVE toHub[n].id # sender.id
    <3>1. toHub[n] \in Message({"get", "cancel"})
      BY DEF PassInv, PassType, TypeOK
    <3>2. toHub[n] = Msg("get", toHub[n].id)
      BY <2>3, <3>1 DEF Message, Msg
    <3> QED BY <2>2, <3>2 DEF Asked
  <2>4. ASSUME NEW c, NEW n, GivenUp(c, n, toHub, sender), c # sender.id
        PROVE  GivenUp(c, n, toHub, sender')
    BY <2>4, GivenUpSame
  <2> QED BY <2>1, <2>2, <2>3, <2>4 DEF PassInv, GetsInOrder
<1>6. ChecksAreOwn'
  BY DEF PassInv, ChecksAreOwn, SenderChecked, hubVars
<1>7. LeaseInv'
  BY DEF PassInv, LeaseInv, SenderChecked, hubVars
<1> QED BY <1>1, <1>2, <1>3, <1>4, <1>5, <1>6, <1>7 DEF PassInv

\* So does each step of the hub.
LEMMA HubGetStep == ASSUME PassInv, HubGet PROVE PassInv'
<1>1. /\ toHub \in Seq(Message({"get", "cancel"})) /\ toHub # <<>> /\ Head(toHub).type = "get"
      /\ pending = Idle /\ toHub' = Tail(toHub)
      /\ UNCHANGED <<chrome, sender, fromHub, auth, lease, dispatched, asserted>>
  BY DEF HubGet, senderVars, PassInv, PassType, TypeOK
<1>2. /\ Head(toHub) = toHub[1] /\ 1 \in DOMAIN toHub /\ Head(toHub).id \in Requests
      /\ Head(toHub) = Msg("get", Head(toHub).id) /\ toHub' \in Seq(Message({"get", "cancel"}))
  <2>1. Head(toHub) \in Message({"get", "cancel"}) /\ Head(toHub) = toHub[1] /\ 1 \in DOMAIN toHub
        /\ Tail(toHub) \in Seq(Message({"get", "cancel"}))
    BY <1>1, Popped
  <2> QED BY <1>1, <2>1 DEF Message, Msg
<1>3. /\ pending' \in {Idle} \cup HubRequests /\ checks' \subseteq Checked
      /\ pending' # Idle /\ pending'.id = Head(toHub).id /\ ~pending'.dispatched
      /\ \/ checks' = checks
         \/ /\ auth # None /\ pending'.validating
            /\ checks' = checks \cup {Check(pending'.id, auth, "dispatch", "sender")}
  <2> DEFINE p == [id |-> Head(toHub).id, dispatched |-> FALSE, validating |-> FALSE,
                   completing |-> FALSE]
  <2>1. p \in HubRequests /\ p.id = Head(toHub).id /\ ~p.dispatched
    BY <1>2 DEF HubRequests
  <2>2. Dispatch(p, auth, "sender") /\ auth \in Leases \cup {None} /\ "sender" \in Peers
    BY DEF HubGet, PassInv, PassType, TypeOK, Peers
  <2> HIDE DEF p
  <2>3. pending' \in {Idle} \cup HubRequests /\ checks' \subseteq Checked /\ pending'.id = p.id
        /\ \/ pending' = p /\ checks' = checks
           \/ /\ auth # None /\ pending'.validating /\ ~pending'.dispatched
              /\ checks' = checks \cup {Check(p.id, auth, "dispatch", "sender")}
    BY <2>1, <2>2, Handed DEF PassInv
  <2>4. pending' # Idle
    BY <1>2, <2>1, <2>3, PasskeysAssumption DEF Idle
  <2> QED BY <2>1, <2>3, <2>4
<1>4. /\ Unheard(Head(toHub).id)
      /\ \A k \in checks : k.id # Head(toHub).id
      /\ \A x \in dispatched : x[1] # Head(toHub).id
      /\ \A n \in DOMAIN fromHub : fromHub[n].id # Head(toHub).id
  BY <1>2 DEF PassInv, HeardOnce, Unheard, Asked
<1>5. PassType'
  <2>1. UNCHANGED <<toReceiver, fromReceiver, receiver, draining, page>>
    BY DEF HubGet, receiverVars
  <2> QED BY <1>1, <1>2, <1>3, <2>1 DEF PassInv, PassType, TypeOK, HubRequests, Checked, Peers
<1>6. SenderInv'
  BY DEF PassInv, SenderInv, HubGet, senderVars
<1>7. PageInv'
  BY DEF PassInv, PageInv, HubGet, receiverVars
<1>8. HeardOnce'
  <2>1. /\ \A n \in DOMAIN toHub' :
             n \in Nat \ {0} /\ n + 1 \in DOMAIN toHub /\ toHub'[n] = toHub[n + 1]
        /\ \A c \in Requests : Asked(c)' => Asked(c)
    BY <1>1, Popped DEF Asked
  <2>2. \A m, n \in DOMAIN toHub : toHub[m].type = "get" /\ toHub[m] = toHub[n] => m = n
    BY DEF PassInv, HeardOnce
  <2>3. \A c \in Requests : Unheard(c)' => Unheard(c) /\ c # Head(toHub).id
    <3>1. ASSUME NEW n \in DOMAIN toHub', toHub'[n] = Msg("get", Head(toHub).id)
          PROVE  FALSE
      <4>1. n + 1 \in DOMAIN toHub /\ toHub[n + 1] = toHub[1] /\ toHub[n + 1].type = "get"
        BY <1>1, <1>2, <2>1, <3>1
      <4>2. n + 1 = 1
        BY <1>2, <2>2, <4>1
      <4> QED BY <2>1, <4>2
    <3>2. Asked(Head(toHub).id)
      BY <1>2 DEF Asked
    <3>3. \A c \in Requests : Asked(c) => chrome[c] # "new" /\ ~Looking(c)
      BY DEF PassInv, HeardOnce
    <3>4. chrome[Head(toHub).id] # "new" /\ ~Looking(Head(toHub).id)
      BY <1>2, <3>2, <3>3
    <3>5. \A c \in Requests : Asked(c)' => c # Head(toHub).id
      BY <3>1 DEF Asked
    <3>6. \A c \in Requests : (Looking(c)' <=> Looking(c)) /\ chrome'[c] = chrome[c]
      BY <1>1 DEF Looking
    <3> QED BY <2>1, <3>4, <3>5, <3>6 DEF Unheard
  <2>4. \A m, n \in DOMAIN toHub' : toHub'[m].type = "get" /\ toHub'[m] = toHub'[n] => m = n
    <3> SUFFICES ASSUME NEW m \in DOMAIN toHub', NEW n \in DOMAIN toHub',
                        toHub'[m].type = "get", toHub'[m] = toHub'[n]
                 PROVE  m = n
      OBVIOUS
    <3>1. m + 1 = n + 1
      BY <2>1, <2>2
    <3> QED BY <2>1, <3>1
  <2>5. ASSUME NEW c \in Requests, Unheard(c)'
        PROVE  /\ pending'.id # c
               /\ \A k \in checks' : k.id # c
               /\ \A x \in dispatched' : x[1] # c
               /\ \A n \in DOMAIN fromHub' : fromHub'[n].id # c
    <3>1. Unheard(c) /\ c # Head(toHub).id
      BY <2>3, <2>5
    <3>2. Check(Head(toHub).id, auth, "dispatch", "sender").id # c
      BY <3>1 DEF Check
    <3> QED BY <1>1, <1>3, <3>1, <3>2 DEF PassInv, HeardOnce
  <2>6. sender # Idle /\ sender.phase = "checking" =>
          pending'.id # sender.id /\ ~Asked(sender.id)'
    <3>1. sender # Idle => sender.id \in Requests
      BY DEF PassInv, PassType, TypeOK
    <3>2. sender # Idle /\ sender.phase = "checking" => ~Asked(sender.id)
      BY DEF PassInv, HeardOnce
    <3>3. Asked(Head(toHub).id)
      BY <1>2 DEF Asked
    <3>4. sender # Idle /\ sender.phase = "checking" => ~Asked(sender.id)'
      BY <1>1, <2>1, <3>1, <3>2
    <3> QED BY <1>3, <3>2, <3>3, <3>4
  <2>7. \A c \in Requests : Asked(c)' => chrome'[c] # "new" /\ ~Looking(c)'
    BY <1>1, <2>1 DEF PassInv, HeardOnce, Looking
  <2> QED BY <1>1, <1>3, <1>4, <2>4, <2>5, <2>6, <2>7 DEF HeardOnce
<1>9. GetsInOrder'
  <2>1. GivenUp(pending'.id, 0, toHub', sender)
    <3>1. GivenUp(Head(toHub).id, 1, toHub, sender)
      BY <1>1, <1>2 DEF PassInv, GetsInOrder
    <3>2. GivenUp(Head(toHub).id, 1 - 1, toHub', sender)
      BY <1>1, <3>1, GivenUpBehind
    <3> QED BY <1>3, <3>2
  <2>2. ASSUME NEW n \in DOMAIN toHub', toHub'[n].type = "get"
        PROVE  GivenUp(toHub'[n].id, n, toHub', sender)
    <3>1. n \in Nat \ {0} /\ n + 1 \in DOMAIN toHub /\ toHub'[n] = toHub[n + 1]
      BY <1>1, Popped
    <3>2. GivenUp(toHub'[n].id, n + 1, toHub, sender) /\ n + 1 \in Nat \ {0}
      BY <2>2, <3>1 DEF PassInv, GetsInOrder
    <3>3. GivenUp(toHub'[n].id, (n + 1) - 1, toHub', sender)
      BY <1>1, <3>2, GivenUpBehind
    <3> QED BY <3>1, <3>3
  <2> QED BY <1>1, <2>1, <2>2 DEF GetsInOrder
<1>10. ChecksAreOwn'
  <2>1. \A k \in checks' : k.id = pending'.id =>
          /\ auth # None /\ pending'.validating
          /\ k = Check(pending'.id, auth, "dispatch", "sender")
    BY <1>3, <1>4
  <2> QED BY <1>1, <1>3, <2>1 DEF ChecksAreOwn, Check
<1>11. LeaseInv'
  <2>1. \A x \in dispatched : x[2] # auth \/ auth = None
    BY <1>1, PasskeysAssumption DEF PassInv, PassType, LeaseInv, Idle
  <2>2. \A x \in dispatched : x[2] # None
    BY PasskeysAssumption DEF PassInv, PassType
  <2> QED BY <1>1, <1>3, <1>4, <2>1, <2>2 DEF PassInv, LeaseInv
<1> QED BY <1>5, <1>6, <1>7, <1>8, <1>9, <1>10, <1>11 DEF PassInv

LEMMA SenderCancelStep == ASSUME PassInv, SenderCancel PROVE PassInv'
<1>1. /\ toHub \in Seq(Message({"get", "cancel"})) /\ toHub # <<>> /\ Head(toHub).type = "cancel"
      /\ toHub' = Tail(toHub) /\ Head(toHub).id \in Requests
      /\ toHub' \in Seq(Message({"get", "cancel"}))
      /\ UNCHANGED <<chrome, sender, checks, dispatched, asserted, fromReceiver, receiver,
                     draining, page>>
  <2>1. toHub \in Seq(Message({"get", "cancel"})) /\ toHub # <<>>
    BY DEF SenderCancel, PassInv, PassType, TypeOK
  <2>2. /\ Head(toHub) \in Message({"get", "cancel"})
        /\ Tail(toHub) \in Seq(Message({"get", "cancel"}))
    BY <2>1, Popped
  <2> QED BY <2>1, <2>2 DEF SenderCancel, senderVars, hubVars, receiverVars, Message
<1>2. \/ /\ pending.id # Head(toHub).id
         /\ UNCHANGED <<pending, auth, lease, fromHub, toReceiver>>
      \/ pending.id = Head(toHub).id /\ Cancel(toReceiver)
  BY DEF SenderCancel, hubVars
<1>3. toReceiver \in Seq(Message({"get", "cancel"}))
  BY DEF PassInv, PassType, TypeOK
<1>4. ASSUME pending.id = Head(toHub).id, Cancel(toReceiver)
      PROVE  PassType' /\ HeardOnce' /\ ChecksAreOwn' /\ LeaseInv'
  <2>1. /\ pending' = Idle /\ auth' = None
        /\ fromHub' \in Seq(Message({"assertion", "error"}))
        /\ toReceiver' \in Seq(Message({"get", "cancel"}))
        /\ lease' = [a \in Leases |-> IF a = auth THEN "failed" ELSE lease[a]]
        /\ \A n \in DOMAIN fromHub' :
             \/ n \in DOMAIN fromHub /\ fromHub'[n] = fromHub[n]
             \/ pending # Idle /\ fromHub'[n].id = pending.id
    BY <1>3, <1>4, Emptied DEF PassInv
  <2>2. PassType'
    BY <1>1, <2>1 DEF PassInv, PassType, TypeOK
  <2>3. HeardOnce'
    BY <1>1, <2>1, <2>2, HubHears DEF Idle
  <2>4. ChecksAreOwn' /\ LeaseInv'
    BY <1>1, <2>1, CancelledLeases
  <2> QED BY <2>1, <2>2, <2>3, <2>4
<1>5. ASSUME pending.id # Head(toHub).id, UNCHANGED <<pending, auth, lease, fromHub,
                                                      toReceiver>>
      PROVE  PassType' /\ HeardOnce' /\ ChecksAreOwn' /\ LeaseInv'
  <2>1. PassType'
    BY <1>1, <1>5 DEF PassInv, PassType, TypeOK
  <2>2. HeardOnce'
    BY <1>1, <1>5, <2>1, HubHears
  <2>3. ChecksAreOwn' /\ LeaseInv'
    BY <1>1, <1>5 DEF PassInv, ChecksAreOwn, LeaseInv
  <2> QED BY <2>1, <2>2, <2>3
<1>6. SenderInv'
  BY DEF PassInv, SenderInv, SenderCancel, senderVars
<1>7. PageInv'
  BY DEF PassInv, PageInv, SenderCancel, receiverVars
<1>8. GetsInOrder'
  <2>1. ASSUME pending' # Idle PROVE GivenUp(pending'.id, 0, toHub', sender)
    <3>1. pending' = pending /\ pending.id # Head(toHub).id
      BY <1>2, <2>1, Emptied, <1>3 DEF PassInv
    <3>2. Head(toHub) # Msg("cancel", pending.id)
      BY <3>1, MessageFields
    <3> QED BY <1>1, <2>1, <3>1, <3>2, GivenUpStill DEF PassInv, GetsInOrder
  <2>2. ASSUME NEW n \in DOMAIN toHub', toHub'[n].type = "get"
        PROVE  GivenUp(toHub'[n].id, n, toHub', sender)
    <3>1. n \in Nat \ {0} /\ n + 1 \in DOMAIN toHub /\ toHub'[n] = toHub[n + 1]
      BY <1>1, Popped
    <3>2. GivenUp(toHub'[n].id, n + 1, toHub, sender) /\ n + 1 \in Nat \ {0}
      BY <2>2, <3>1 DEF PassInv, GetsInOrder
    <3>3. GivenUp(toHub'[n].id, (n + 1) - 1, toHub', sender)
      BY <1>1, <3>2, GivenUpBehind
    <3> QED BY <3>1, <3>3
  <2> QED BY <1>1, <2>1, <2>2 DEF GetsInOrder
<1> QED BY <1>6, <1>7, <1>8, <1>2, <1>4, <1>5 DEF PassInv

LEMMA HubCancelsStep == ASSUME PassInv, HubCancels PROVE PassInv'
<1>1. Cancel(toReceiver) /\ toReceiver \in Seq(Message({"get", "cancel"}))
  BY DEF HubCancels, PassInv, PassType, TypeOK
<1>2. UNCHANGED <<chrome, sender, toHub, checks, dispatched, asserted, fromReceiver, receiver,
                  draining, page>>
  BY DEF HubCancels, senderVars, receiverVars
<1>3. /\ pending' = Idle /\ auth' = None
      /\ fromHub' \in Seq(Message({"assertion", "error"}))
      /\ toReceiver' \in Seq(Message({"get", "cancel"}))
      /\ lease' = [a \in Leases |-> IF a = auth THEN "failed" ELSE lease[a]]
      /\ \A n \in DOMAIN fromHub' :
           \/ n \in DOMAIN fromHub /\ fromHub'[n] = fromHub[n]
           \/ pending # Idle /\ fromHub'[n].id = pending.id
  BY <1>1, Emptied DEF PassInv
<1>4. PassType'
  BY <1>2, <1>3 DEF PassInv, PassType, TypeOK
<1>5. SenderInv'
  BY DEF PassInv, SenderInv, HubCancels, senderVars
<1>6. PageInv'
  BY DEF PassInv, PageInv, HubCancels, receiverVars
<1>7. HeardOnce'
  BY <1>4, <1>2, <1>3, HubHears DEF Idle
<1>8. GetsInOrder'
  BY <1>2, <1>3, OrderStays
<1>9. ChecksAreOwn' /\ LeaseInv'
  BY <1>2, <1>3, CancelledLeases
<1> QED BY <1>4, <1>5, <1>6, <1>7, <1>8, <1>9 DEF PassInv

LEMMA HubResultStep == ASSUME PassInv, HubResult PROVE PassInv'
<1>1. /\ fromReceiver \in Seq(Message({"assertion", "error"})) /\ fromReceiver # <<>>
      /\ fromReceiver' \in Seq(Message({"assertion", "error"}))
      /\ Head(fromReceiver).id \in Requests
      /\ toReceiver \in Seq(Message({"get", "cancel"}))
  <2>1. /\ fromReceiver \in Seq(Message({"assertion", "error"})) /\ fromReceiver # <<>>
        /\ toReceiver \in Seq(Message({"get", "cancel"}))
    BY DEF HubResult, PassInv, PassType, TypeOK
  <2>2. fromReceiver' = Tail(fromReceiver) /\ Head(fromReceiver) \in Message({"assertion", "error"})
    BY <2>1, Popped DEF HubResult
  <2> QED BY <2>1, <2>2, Popped DEF Message
<1>2. UNCHANGED <<chrome, sender, toHub, dispatched, asserted, receiver, draining, page>>
  BY DEF HubResult, senderVars, receiverVars, hubVars
<1>3. \/ UNCHANGED <<fromHub, pending, auth, checks, lease, toReceiver>>
      \/ Cancel(toReceiver) /\ UNCHANGED checks
      \/ /\ pending # Idle /\ auth # None /\ pending.dispatched /\ ~pending.completing
         /\ pending' = [pending EXCEPT !.completing = TRUE]
         /\ checks' = checks \cup {Check(pending.id, auth, "result", "receiver")}
         /\ UNCHANGED <<fromHub, toReceiver, auth, lease>>
  BY <1>1, PasskeysAssumption DEF HubResult, hubVars, Idle
<1>4. ASSUME UNCHANGED <<fromHub, pending, auth, checks, lease, toReceiver>>
      PROVE  PassType' /\ HeardOnce' /\ GetsInOrder' /\ ChecksAreOwn' /\ LeaseInv'
  <2>1. PassType'
    BY <1>1, <1>2, <1>4 DEF PassInv, PassType, TypeOK
  <2>2. HeardOnce'
    BY <1>2, <1>4, <2>1, HubHears
  <2>3. ChecksAreOwn' /\ LeaseInv' /\ GetsInOrder'
    BY <1>2, <1>4 DEF PassInv, ChecksAreOwn, LeaseInv, GetsInOrder
  <2> QED BY <2>1, <2>2, <2>3
<1>5. ASSUME Cancel(toReceiver), UNCHANGED checks
      PROVE  PassType' /\ HeardOnce' /\ GetsInOrder' /\ ChecksAreOwn' /\ LeaseInv'
  <2>1. /\ pending' = Idle /\ auth' = None
       /\ fromHub' \in Seq(Message({"assertion", "error"}))
       /\ toReceiver' \in Seq(Message({"get", "cancel"}))
       /\ lease' = [a \in Leases |-> IF a = auth THEN "failed" ELSE lease[a]]
       /\ \A n \in DOMAIN fromHub' :
            \/ n \in DOMAIN fromHub /\ fromHub'[n] = fromHub[n]
            \/ pending # Idle /\ fromHub'[n].id = pending.id
    BY <1>1, <1>5, Emptied DEF PassInv
  <2>2. PassType'
    BY <1>1, <1>2, <1>5, <2>1 DEF PassInv, PassType, TypeOK
  <2>3. HeardOnce'
    BY <1>2, <1>5, <2>1, <2>2, HubHears DEF Idle
  <2>4. ChecksAreOwn' /\ LeaseInv'
    BY <1>2, <1>5, <2>1, CancelledLeases
  <2>5. GetsInOrder'
    BY <1>2, <2>1, OrderStays
  <2> QED BY <2>2, <2>3, <2>4, <2>5
<1>6. ASSUME pending # Idle, auth # None, pending.dispatched, ~pending.completing,
             pending' = [pending EXCEPT !.completing = TRUE],
             checks' = checks \cup {Check(pending.id, auth, "result", "receiver")},
             UNCHANGED <<fromHub, toReceiver, auth, lease>>
      PROVE  PassType' /\ HeardOnce' /\ GetsInOrder' /\ ChecksAreOwn' /\ LeaseInv'
  <2>1. pending \in HubRequests /\ auth \in Leases /\ checks \subseteq Checked
    BY <1>6 DEF PassInv, PassType, TypeOK, HubRequests, Checked, Peers
  <2>2. /\ pending' \in HubRequests /\ pending'.id = pending.id /\ pending'.completing
        /\ pending'.dispatched
    BY <1>6, <2>1 DEF HubRequests
  <2>3. /\ Check(pending.id, auth, "result", "receiver") \in Checked
        /\ Check(pending.id, auth, "result", "receiver").id = pending.id
        /\ Check(pending.id, auth, "result", "receiver").lease = auth
        /\ Check(pending.id, auth, "result", "receiver").for = "result"
    BY <2>1 DEF Check, Checked, Peers, HubRequests
  <2>4. PassType'
    BY <1>1, <1>2, <1>6, <2>3 DEF PassInv, PassType, TypeOK, Checked, Peers
  <2>5. HeardOnce'
    BY <1>2, <1>6, <2>2, <2>3, <2>4, HubHears
  <2>6. \A k \in checks : k.id # pending.id
    BY <1>6, <2>1 DEF PassInv, ChecksAreOwn, Checked
  <2>7. ChecksAreOwn'
    BY <1>6, <2>2, <2>3, <2>6 DEF ChecksAreOwn
  <2>8. LeaseInv'
    BY <1>2, <1>6, <2>1, <2>2 DEF PassInv, LeaseInv
  <2>9. GetsInOrder'
    BY <1>2, <1>6, <2>2, OrderStays
  <2> QED BY <2>4, <2>5, <2>7, <2>8, <2>9
<1>7. SenderInv'
  BY DEF PassInv, SenderInv, HubResult, senderVars
<1>8. PageInv'
  BY DEF PassInv, PageInv, HubResult, receiverVars
<1> QED BY <1>7, <1>8, <1>3, <1>4, <1>5, <1>6 DEF PassInv

LEMMA AuthenticateStep == ASSUME PassInv, NEW a \in Leases, Authenticate(a) PROVE PassInv'
<1>1. /\ auth = None /\ lease[a] = "unused" /\ auth' = a
      /\ lease' = [lease EXCEPT ![a] = "waiting"] /\ Dispatch(pending, a, "nobody")
  BY DEF Authenticate
<1>2. UNCHANGED <<chrome, sender, toHub, fromHub, dispatched, asserted, toReceiver, fromReceiver,
                  receiver, draining, page>>
  BY DEF Authenticate, senderVars, receiverVars
<1>3. /\ pending \in {Idle} \cup HubRequests /\ checks \subseteq Checked
      /\ lease \in [Leases -> {"unused", "waiting", "completed", "failed"}]
      /\ dispatched \subseteq Requests \X Leases /\ a # None
  BY PasskeysAssumption DEF PassInv, PassType, TypeOK, HubRequests, Checked, Peers
<1>4. /\ pending' \in {Idle} \cup HubRequests /\ checks' \subseteq Checked
      /\ pending'.id = pending.id
      /\ \/ pending' = pending /\ checks' = checks
         \/ /\ pending # Idle /\ ~pending.dispatched
            /\ pending' # Idle /\ pending'.validating /\ ~pending'.dispatched
            /\ checks' = checks \cup {Check(pending.id, a, "dispatch", "nobody")}
  <2>1. "nobody" \in Peers /\ a \in Leases \cup {None} /\ PassType
    BY DEF Peers, PassInv
  <2> QED BY <1>1, <1>3, <2>1, Handed
<1>5. pending # Idle => ~pending.dispatched
  BY <1>1 DEF PassInv, LeaseInv
<1>6. \A k \in checks : k.id # pending.id
  <2>1. \A k \in checks : k.id = pending.id => k.lease = auth
    BY DEF PassInv, ChecksAreOwn
  <2>2. \A k \in checks : k.lease \in Leases
    BY <1>3 DEF Checked
  <2> QED BY <1>1, <2>1, <2>2, PasskeysAssumption
<1>7. LET k == Check(pending.id, a, "dispatch", "nobody")
      IN  k.id = pending.id /\ k.lease = a /\ k.for = "dispatch"
  BY DEF Check
<1>8. PassType'
  BY <1>1, <1>2, <1>4 DEF PassInv, PassType, TypeOK, HubRequests, Checked, Peers
<1>9. SenderInv'
  BY DEF PassInv, SenderInv, Authenticate, senderVars
<1>10. PageInv'
  BY DEF PassInv, PageInv, Authenticate, receiverVars
<1>11. HeardOnce'
  BY <1>8, <1>2, <1>4, <1>7, HubHears
<1>12. GetsInOrder'
  BY <1>2, <1>4, OrderStays DEF Idle
<1>13. ChecksAreOwn'
  BY <1>1, <1>4, <1>6, <1>7 DEF ChecksAreOwn
<1>14. LeaseInv'
  <2>1. \A x \in dispatched : x[2] # a /\ x[2] \in Leases
    BY <1>1, <1>3 DEF PassInv, LeaseInv
  <2>2. \A d \in Leases : lease'[d] = IF d = a THEN "waiting" ELSE lease[d]
    BY <1>1, <1>3
  <2>3. \A d \in Leases : lease'[d] = "completed" <=> \E x \in asserted' : x[2] = d
    <3>1. \A x \in asserted : x[2] # a
      BY <2>1 DEF PassInv, LeaseInv
    <3> QED BY <1>2, <2>2, <3>1 DEF PassInv, LeaseInv
  <2>4. \A x \in dispatched' : lease'[x[2]] # "unused" /\ x[2] # auth'
    BY <1>1, <1>2, <2>1, <2>2 DEF PassInv, LeaseInv
  <2>5. pending' # Idle => ~pending'.dispatched
    BY <1>4, <1>5
  <2>6. \A x \in dispatched' : x[1] # pending'.id
    <3>1. \A x \in dispatched : x[1] = pending.id => pending # Idle
      BY <1>3, PasskeysAssumption DEF Idle
    <3> QED BY <1>2, <1>4, <1>5, <3>1 DEF PassInv, LeaseInv
  <2> QED BY <1>1, <1>2, <2>2, <2>3, <2>4, <2>5, <2>6 DEF PassInv, LeaseInv
<1> QED BY <1>8, <1>9, <1>10, <1>11, <1>12, <1>13, <1>14 DEF PassInv

LEMMA DispatchedStep == ASSUME PassInv, NEW k \in checks, Dispatched(k) PROVE PassInv'
<1>1. /\ k \in checks /\ k.for = "dispatch" /\ pending.id = k.id /\ auth = k.lease
      /\ checks' = checks \ {k}
      /\ UNCHANGED <<chrome, sender, toHub, asserted, fromReceiver, receiver, draining, page>>
  BY DEF Dispatched, Current, senderVars, receiverVars
<1>2. /\ k \in Checked /\ checks \subseteq Checked /\ k.id \in Requests /\ k.lease \in Leases
      /\ pending # Idle /\ pending \in HubRequests
      /\ toReceiver \in Seq(Message({"get", "cancel"})) /\ dispatched \subseteq Requests \X Leases
      /\ auth # None
  BY <1>1, PasskeysAssumption DEF PassInv, PassType, TypeOK, HubRequests, Checked, Peers, Idle
<1>3. ~pending.dispatched /\ \A l \in checks' : l.id # pending.id
  BY <1>1 DEF PassInv, ChecksAreOwn
<1>4. ASSUME /\ pending' = [pending EXCEPT !.dispatched = TRUE, !.validating = FALSE]
             /\ toReceiver' = Append(toReceiver, Msg("get", k.id))
             /\ dispatched' = dispatched \cup {<<k.id, k.lease>>}
             /\ UNCHANGED <<fromHub, auth, lease>>
      PROVE  PassType' /\ HeardOnce' /\ GetsInOrder' /\ ChecksAreOwn' /\ LeaseInv'
  <2>1. /\ pending' \in HubRequests /\ pending'.id = k.id /\ pending'.dispatched
    BY <1>1, <1>2, <1>4 DEF HubRequests
  <2>2. pending' # Idle
    BY <1>2, <2>1, PasskeysAssumption DEF Idle
  <2>3. toReceiver' \in Seq(Message({"get", "cancel"}))
    <3>1. Msg("get", k.id) \in Message({"get", "cancel"})
      BY <1>2 DEF Msg, Message
    <3> QED BY <1>2, <1>4, <3>1, Appended
  <2>4. /\ dispatched' \subseteq Requests \X Leases /\ <<k.id, k.lease>>[1] = k.id
        /\ <<k.id, k.lease>>[2] = auth
    BY <1>1, <1>2, <1>4
  <2>5. PassType'
    BY <1>1, <1>4, <2>1, <2>3, <2>4 DEF PassInv, PassType, TypeOK, HubRequests
  <2>6. HeardOnce'
    BY <1>1, <1>2, <1>4, <2>1, <2>4, <2>5, HubHears
  <2>7. GetsInOrder'
    BY <1>1, <1>2, <2>1, OrderStays
  <2>8. ChecksAreOwn'
    BY <1>1, <1>3, <2>1 DEF ChecksAreOwn
  <2>9. \A x \in dispatched : x[1] # k.id /\ x[2] # auth
    BY <1>1, <1>2, <1>3 DEF PassInv, LeaseInv
  <2>10. LeaseInv'
    <3>1. auth \in Leases /\ lease[auth] = "waiting"
      BY <1>1, <1>2 DEF PassInv, LeaseInv
    <3>2. \A x \in dispatched' : x \in dispatched \/ (x[1] = k.id /\ x[2] = auth /\ x = <<k.id, auth>>)
      BY <1>1, <1>4, <2>4
    <3>3. asserted' \subseteq dispatched' /\ <<k.id, auth>> \in dispatched'
      BY <1>1, <1>4 DEF PassInv, LeaseInv
    <3>4. \A x, y \in dispatched' : x[1] = y[1] \/ x[2] = y[2] => x = y
      BY <2>9, <3>2 DEF PassInv, LeaseInv
    <3>5. \A d \in Leases : lease'[d] = "completed" <=> \E x \in asserted' : x[2] = d
      BY <1>1, <1>4 DEF PassInv, LeaseInv
    <3>6. \A x \in dispatched' : lease'[x[2]] # "unused"
      BY <1>4, <3>1, <3>2 DEF PassInv, LeaseInv
    <3>7. \A x \in dispatched' : x[2] = auth => x[1] = k.id
      BY <2>9, <3>2
    <3> QED BY <1>1, <1>2, <1>4, <2>1, <3>1, <3>3, <3>4, <3>5, <3>6, <3>7 DEF LeaseInv
  <2> QED BY <2>5, <2>6, <2>7, <2>8, <2>10
<1>5. ASSUME Cancel(toReceiver), UNCHANGED dispatched
      PROVE  PassType' /\ HeardOnce' /\ GetsInOrder' /\ ChecksAreOwn' /\ LeaseInv'
  <2>1. /\ pending' = Idle /\ auth' = None
       /\ fromHub' \in Seq(Message({"assertion", "error"}))
       /\ toReceiver' \in Seq(Message({"get", "cancel"}))
       /\ lease' = [a \in Leases |-> IF a = auth THEN "failed" ELSE lease[a]]
       /\ \A n \in DOMAIN fromHub' :
            \/ n \in DOMAIN fromHub /\ fromHub'[n] = fromHub[n]
            \/ pending # Idle /\ fromHub'[n].id = pending.id
    BY <1>2, <1>5, Emptied DEF PassInv
  <2>2. PassType'
    BY <1>1, <1>5, <2>1 DEF PassInv, PassType, TypeOK
  <2>3. HeardOnce'
    BY <1>1, <1>5, <2>1, <2>2, HubHears DEF Idle
  <2>4. ChecksAreOwn' /\ LeaseInv'
    BY <1>1, <1>5, <2>1, CancelledLeases
  <2>5. GetsInOrder'
    BY <1>1, <2>1, OrderStays
  <2> QED BY <2>2, <2>3, <2>4, <2>5
<1>6. PassType' /\ HeardOnce' /\ GetsInOrder' /\ ChecksAreOwn' /\ LeaseInv'
  BY <1>4, <1>5 DEF Dispatched
<1>7. SenderInv'
  BY DEF PassInv, SenderInv, Dispatched, senderVars
<1>8. PageInv'
  BY DEF PassInv, PageInv, Dispatched, receiverVars
<1> QED BY <1>7, <1>8, <1>6 DEF PassInv

LEMMA CompletedStep == ASSUME PassInv, NEW k \in checks, Completed(k) PROVE PassInv'
<1>1. /\ k \in checks /\ k.for = "result" /\ pending.id = k.id /\ auth = k.lease
      /\ checks' = checks \ {k} /\ fromHub' = Append(fromHub, Msg("assertion", k.id))
      /\ pending' = Idle /\ asserted' = asserted \cup {<<k.id, auth>>}
      /\ auth' = None /\ lease' = [a \in Leases |-> IF a = auth THEN "completed" ELSE lease[a]]
      /\ UNCHANGED <<chrome, sender, toHub, dispatched>>
  BY DEF Completed, Current, senderVars, Settle
<1>2. /\ k.id \in Requests /\ k.lease \in Leases /\ pending # Idle /\ auth # None
      /\ fromHub \in Seq(Message({"assertion", "error"})) /\ dispatched \subseteq Requests \X Leases
      /\ Idle.id = None /\ None \notin Requests
  BY <1>1, PasskeysAssumption DEF PassInv, PassType, TypeOK, Idle
<1>3. pending.dispatched /\ <<k.id, auth>> \in dispatched
  <2>1. pending.dispatched
    BY <1>1 DEF PassInv, ChecksAreOwn
  <2> QED BY <1>1, <1>2, <2>1 DEF PassInv, LeaseInv
<1>4. PassType'
  BY DEF PassInv, PassType, TypeOK, Message, Completed, Settle, senderVars, receiverVars, Msg
<1>5. SenderInv'
  BY DEF PassInv, SenderInv, Completed, senderVars
<1>6. PageInv'
  BY DEF PassInv, PageInv, Completed, receiverVars
<1>7. HeardOnce'
  <2>1. /\ Msg("assertion", k.id) \in Message({"assertion", "error"})
        /\ Msg("assertion", k.id).id = k.id
    BY <1>2 DEF Msg, Message
  <2>2. \A n \in DOMAIN fromHub' :
           \/ n \in DOMAIN fromHub /\ fromHub'[n] = fromHub[n]
           \/ fromHub'[n].id = pending.id
    BY <1>1, <1>2, <2>1, Appended
  <2>3. \A l \in checks' : l \in checks
    BY <1>1
  <2> QED BY <1>4, <1>1, <1>2, <2>2, <2>3, HubHears
<1>8. GetsInOrder'
  BY <1>1, OrderStays
<1>9. ChecksAreOwn'
  BY PasskeysAssumption DEF PassInv, PassType, TypeOK, ChecksAreOwn, Completed, Idle
<1>10. LeaseInv'
  <2>1. asserted' \subseteq dispatched' /\ \A x \in dispatched : x[1] # None /\ x[2] # None /\ x[2] \in Leases
    BY <1>1, <1>2, <1>3, PasskeysAssumption DEF PassInv, LeaseInv
  <2>2. \A d \in Leases : lease'[d] = "completed" <=> \E x \in asserted' : x[2] = d
    <3>1. <<k.id, auth>>[2] = auth /\ auth \in Leases
      BY <1>1, <1>2
    <3>2. \A d \in Leases : lease'[d] = "completed" <=> d = auth \/ lease[d] = "completed"
      BY <1>1
    <3> QED BY <1>1, <3>1, <3>2 DEF PassInv, LeaseInv
  <2>3. \A x \in dispatched' : lease'[x[2]] # "unused"
    BY <1>1, <2>1 DEF PassInv, LeaseInv
  <2> QED BY <1>1, <1>2, <2>1, <2>2, <2>3 DEF PassInv, LeaseInv
<1> QED BY <1>4, <1>5, <1>6, <1>7, <1>8, <1>9, <1>10 DEF PassInv

LEMMA RefusedStep == ASSUME PassInv, NEW k \in checks, Refused(k) PROVE PassInv'
<1>1. /\ k \in checks /\ checks' = checks \ {k} /\ toReceiver \in Seq(Message({"get", "cancel"}))
      /\ UNCHANGED <<chrome, sender, toHub, dispatched, asserted, fromReceiver, receiver,
                     draining, page>>
  BY DEF Refused, senderVars, receiverVars, PassInv, PassType, TypeOK
<1>2. ASSUME Cancel(toReceiver)
      PROVE  PassType' /\ HeardOnce' /\ GetsInOrder' /\ ChecksAreOwn' /\ LeaseInv'
  <2>1. /\ pending' = Idle /\ auth' = None
       /\ fromHub' \in Seq(Message({"assertion", "error"}))
       /\ toReceiver' \in Seq(Message({"get", "cancel"}))
       /\ lease' = [a \in Leases |-> IF a = auth THEN "failed" ELSE lease[a]]
       /\ \A n \in DOMAIN fromHub' :
            \/ n \in DOMAIN fromHub /\ fromHub'[n] = fromHub[n]
            \/ pending # Idle /\ fromHub'[n].id = pending.id
    BY <1>1, <1>2, Emptied DEF PassInv
  <2>2. PassType'
    BY <1>1, <2>1 DEF PassInv, PassType, TypeOK
  <2>3. HeardOnce'
    BY <1>1, <2>1, <2>2, HubHears DEF Idle
  <2>4. ChecksAreOwn' /\ LeaseInv'
    BY <1>1, <2>1, CancelledLeases
  <2>5. GetsInOrder'
    BY <1>1, <2>1, OrderStays
  <2> QED BY <2>2, <2>3, <2>4, <2>5
<1>3. ASSUME UNCHANGED <<pending, auth, lease, fromHub, toReceiver>>
      PROVE  PassType' /\ HeardOnce' /\ GetsInOrder' /\ ChecksAreOwn' /\ LeaseInv'
  <2>1. PassType'
    BY <1>1, <1>3 DEF PassInv, PassType, TypeOK
  <2>2. HeardOnce'
    BY <1>1, <1>3, <2>1, HubHears
  <2>3. ChecksAreOwn' /\ LeaseInv' /\ GetsInOrder'
    BY <1>1, <1>3 DEF PassInv, ChecksAreOwn, LeaseInv, GetsInOrder
  <2> QED BY <2>1, <2>2, <2>3
<1>4. PassType' /\ HeardOnce' /\ GetsInOrder' /\ ChecksAreOwn' /\ LeaseInv'
  BY <1>2, <1>3 DEF Refused
<1>5. SenderInv'
  BY DEF PassInv, SenderInv, Refused, senderVars
<1>6. PageInv'
  BY DEF PassInv, PageInv, Refused, receiverVars
<1> QED BY <1>5, <1>6, <1>4 DEF PassInv

LEMMA OvertakenStep == ASSUME PassInv, NEW k \in checks, Overtaken(k) PROVE PassInv'
<1>1. PassType'
  BY DEF PassInv, PassType, TypeOK, Overtaken, senderVars, receiverVars, Idle
<1>2. SenderInv'
  BY DEF PassInv, SenderInv, Overtaken, senderVars
<1>3. PageInv'
  BY DEF PassInv, PageInv, Overtaken, receiverVars
<1>4. HeardOnce'
  <2>1. /\ UNCHANGED <<chrome, sender, toHub, fromHub, dispatched>> /\ checks' \subseteq checks
        /\ pending'.id = pending.id
    BY DEF Overtaken, senderVars
  <2> QED BY <1>1, <2>1, HubHears
<1>5. GetsInOrder'
  BY DEF PassInv, GetsInOrder, Overtaken, senderVars, Idle
<1>6. ChecksAreOwn'
  BY DEF PassInv, ChecksAreOwn, Overtaken
<1>7. LeaseInv'
  BY DEF PassInv, LeaseInv, Overtaken, Idle
<1> QED BY <1>1, <1>2, <1>3, <1>4, <1>5, <1>6, <1>7 DEF PassInv

\* And each step of the receiver and its page.
LEMMA ReceiverReceivesStep == ASSUME PassInv, ReceiverReceives PROVE PassInv'
<1>1. /\ toReceiver # <<>> /\ toReceiver' = Tail(toReceiver)
      /\ toReceiver \in Seq(Message({"get", "cancel"}))
      /\ fromReceiver \in Seq(Message({"assertion", "error"}))
      /\ UNCHANGED <<chrome, sender, toHub, fromHub, pending, auth, checks, lease, dispatched,
                     asserted, page>>
  BY DEF ReceiverReceives, senderVars, hubVars, PassInv, PassType, TypeOK
<1>2. toReceiver' \in Seq(Message({"get", "cancel"})) /\ Head(toReceiver).id \in Requests
  <2>1. /\ Head(toReceiver) \in Message({"get", "cancel"})
        /\ Tail(toReceiver) \in Seq(Message({"get", "cancel"}))
    BY <1>1, Popped
  <2> QED BY <1>1, <2>1 DEF Message
<1>3. \/ receiver.id = Head(toReceiver).id /\ Drop /\ UNCHANGED fromReceiver
      \/ UNCHANGED <<receiver, draining, fromReceiver>>
      \/ /\ UNCHANGED <<receiver, draining>>
         /\ fromReceiver' = Append(fromReceiver, Msg("error", Head(toReceiver).id))
      \/ /\ receiver = Idle /\ receiver' = [id |-> Head(toReceiver).id, phase |-> "waiting"]
         /\ UNCHANGED <<draining, fromReceiver>>
  BY DEF ReceiverReceives, Reply
<1>4. fromReceiver' \in Seq(Message({"assertion", "error"}))
  <2>1. Msg("error", Head(toReceiver).id) \in Message({"assertion", "error"})
    BY <1>2 DEF Msg, Message
  <2>2. Append(fromReceiver, Msg("error", Head(toReceiver).id)) \in Seq(Message({"assertion", "error"}))
    BY <1>1, <2>1, Appended
  <2>3. fromReceiver' \in {fromReceiver, Append(fromReceiver, Msg("error", Head(toReceiver).id))}
    BY <1>3
  <2> QED BY <1>1, <2>2, <2>3
<1>5. /\ receiver' \in {Idle} \cup [id : Requests, phase : {"waiting", "running"}]
      /\ draining' \subseteq Requests
  BY <1>2, <1>3 DEF PassInv, PassType, TypeOK, Drop, Drain
<1>6. PassType'
  BY <1>1, <1>2, <1>4, <1>5 DEF PassInv, PassType, TypeOK
<1>7. SenderInv'
  BY DEF PassInv, SenderInv, ReceiverReceives, senderVars
<1>8. PageInv'
  <2>1. CASE receiver.id = Head(toReceiver).id /\ Drop
    <3>1. receiver # Idle
      BY <1>2, <2>1, PasskeysAssumption DEF Idle
    <3> QED BY <1>1, <2>1, <3>1 DEF PassInv, PassType, TypeOK, PageInv, Drop, Drain
  <2>2. CASE UNCHANGED <<receiver, draining>>
    BY <1>1, <2>2 DEF PassInv, PageInv
  <2>3. CASE receiver = Idle /\ receiver' = [id |-> Head(toReceiver).id, phase |-> "waiting"]
             /\ UNCHANGED draining
    BY <1>1, <2>3 DEF PassInv, PageInv
  <2> QED BY <1>3, <2>1, <2>2, <2>3
<1>9. HeardOnce'
  BY DEF PassInv, HeardOnce, Looking, Asked, Unheard, ReceiverReceives, senderVars, hubVars
<1>10. GetsInOrder'
  BY DEF PassInv, GetsInOrder, ReceiverReceives, senderVars, hubVars
<1>11. ChecksAreOwn'
  BY DEF PassInv, ChecksAreOwn, ReceiverReceives, hubVars
<1>12. LeaseInv'
  BY DEF PassInv, LeaseInv, ReceiverReceives, hubVars
<1> QED BY <1>6, <1>7, <1>8, <1>9, <1>10, <1>11, <1>12 DEF PassInv

LEMMA EnterStep == ASSUME PassInv, Enter PROVE PassInv'
<1>1. PassType'
  <2>1. /\ receiver \in [id : Requests, phase : {"waiting", "running"}]
        /\ fromReceiver \in Seq(Message({"assertion", "error"}))
    BY DEF Enter, PassInv, PassType, TypeOK
  <2>2. Msg("error", receiver.id) \in Message({"assertion", "error"})
    BY <2>1 DEF Msg, Message
  <2>3. /\ receiver' \in {Idle} \cup [id : Requests, phase : {"waiting", "running"}]
        /\ page' \subseteq Requests
    BY <2>1 DEF Enter, PassInv, PassType, TypeOK
  <2>4. fromReceiver' \in Seq(Message({"assertion", "error"}))
    BY <2>1, <2>2, Appended DEF Enter, Reply
  <2> QED BY <2>3, <2>4 DEF Enter, PassInv, PassType, TypeOK, senderVars, hubVars
<1>2. SenderInv'
  BY DEF PassInv, SenderInv, Enter, senderVars
<1>3. PageInv'
  BY DEF PassInv, PassType, TypeOK, PageInv, Enter, Idle
<1>4. HeardOnce'
  BY DEF PassInv, HeardOnce, Looking, Asked, Unheard, Enter, senderVars, hubVars
<1>5. GetsInOrder'
  BY DEF PassInv, GetsInOrder, Enter, senderVars, hubVars
<1>6. ChecksAreOwn'
  BY DEF PassInv, ChecksAreOwn, Enter, hubVars
<1>7. LeaseInv'
  BY DEF PassInv, LeaseInv, Enter, hubVars
<1> QED BY <1>1, <1>2, <1>3, <1>4, <1>5, <1>6, <1>7 DEF PassInv

LEMMA ReceiverFailsStep == ASSUME PassInv, ReceiverFails PROVE PassInv'
<1>1. PassType'
  BY DEF PassInv, PassType, TypeOK, Message, ReceiverFails, Reply, senderVars, hubVars, Msg
<1>2. SenderInv'
  BY DEF PassInv, SenderInv, ReceiverFails, senderVars
<1>3. PageInv'
  BY DEF PassInv, PageInv, ReceiverFails
<1>4. HeardOnce'
  BY DEF PassInv, HeardOnce, Looking, Asked, Unheard, ReceiverFails, senderVars, hubVars
<1>5. GetsInOrder'
  BY DEF PassInv, GetsInOrder, ReceiverFails, senderVars, hubVars
<1>6. ChecksAreOwn'
  BY DEF PassInv, ChecksAreOwn, ReceiverFails, hubVars
<1>7. LeaseInv'
  BY DEF PassInv, LeaseInv, ReceiverFails, hubVars
<1> QED BY <1>1, <1>2, <1>3, <1>4, <1>5, <1>6, <1>7 DEF PassInv

LEMMA ReceiverTimesOutStep == ASSUME PassInv, ReceiverTimesOut PROVE PassInv'
<1>1. PassType'
  BY DEF PassInv, PassType, TypeOK, Message, ReceiverTimesOut, Drop, Drain, Reply, senderVars,
         hubVars, Msg
<1>2. SenderInv'
  BY DEF PassInv, SenderInv, ReceiverTimesOut, senderVars
<1>3. PageInv'
  BY DEF PassInv, PageInv, ReceiverTimesOut, Drop, Drain
<1>4. HeardOnce'
  BY DEF PassInv, HeardOnce, Looking, Asked, Unheard, ReceiverTimesOut, senderVars, hubVars
<1>5. GetsInOrder'
  BY DEF PassInv, GetsInOrder, ReceiverTimesOut, senderVars, hubVars
<1>6. ChecksAreOwn'
  BY DEF PassInv, ChecksAreOwn, ReceiverTimesOut, hubVars
<1>7. LeaseInv'
  BY DEF PassInv, LeaseInv, ReceiverTimesOut, hubVars
<1> QED BY <1>1, <1>2, <1>3, <1>4, <1>5, <1>6, <1>7 DEF PassInv

LEMMA PageSettlesStep == ASSUME PassInv, NEW id \in page, PageSettles(id) PROVE PassInv'
<1>1. PassType'
  <2>1. /\ fromReceiver \in Seq(Message({"assertion", "error"})) /\ id \in Requests
        /\ receiver' \in {Idle, receiver}
    BY DEF PageSettles, PassInv, PassType, TypeOK
  <2>2. \A type \in {"assertion", "error"} : Msg(type, id) \in Message({"assertion", "error"})
    BY <2>1 DEF Msg, Message
  <2>3. fromReceiver' \in Seq(Message({"assertion", "error"}))
    BY <2>1, <2>2, Appended DEF PageSettles, Reply
  <2> QED BY <2>1, <2>3 DEF PageSettles, PassInv, PassType, TypeOK, senderVars, hubVars
<1>2. SenderInv'
  BY DEF PassInv, SenderInv, PageSettles, senderVars
<1>3. PageInv'
  BY DEF PassInv, PageInv, PageSettles
<1>4. HeardOnce'
  BY DEF PassInv, HeardOnce, Looking, Asked, Unheard, PageSettles, senderVars, hubVars
<1>5. GetsInOrder'
  BY DEF PassInv, GetsInOrder, PageSettles, senderVars, hubVars
<1>6. ChecksAreOwn'
  BY DEF PassInv, ChecksAreOwn, PageSettles, hubVars
<1>7. LeaseInv'
  BY DEF PassInv, LeaseInv, PageSettles, hubVars
<1> QED BY <1>1, <1>2, <1>3, <1>4, <1>5, <1>6, <1>7 DEF PassInv

LEMMA ReceiverExitsStep == ASSUME PassInv, ReceiverExits PROVE PassInv'
<1>1. /\ pending' = Idle /\ auth' = None
      /\ receiver' = Idle /\ draining' = {} /\ page' = {}
      /\ fromReceiver' = <<>> /\ toReceiver' = <<>>
      /\ lease' = [a \in Leases |-> IF a = auth THEN "failed" ELSE lease[a]]
      /\ UNCHANGED <<chrome, sender, toHub, checks, dispatched, asserted>>
      /\ fromHub' = IF pending = Idle THEN fromHub ELSE Append(fromHub, Msg("error", pending.id))
  BY DEF ReceiverExits, Settle, senderVars
<1>2. /\ fromHub' \in Seq(Message({"assertion", "error"}))
      /\ \A n \in DOMAIN fromHub' :
           \/ n \in DOMAIN fromHub /\ fromHub'[n] = fromHub[n]
           \/ pending # Idle /\ fromHub'[n].id = pending.id
  <2>1. fromHub \in Seq(Message({"assertion", "error"})) /\ (pending # Idle => pending.id \in Requests)
    BY DEF PassInv, PassType, TypeOK
  <2>2. pending # Idle => Msg("error", pending.id) \in Message({"assertion", "error"}) /\ Msg("error", pending.id).id = pending.id
    BY <2>1 DEF Msg, Message
  <2> QED BY <1>1, <2>1, <2>2, Appended
<1>3. PassType'
  BY <1>1, <1>2 DEF PassInv, PassType, TypeOK
<1>4. SenderInv'
  BY DEF PassInv, SenderInv, ReceiverExits, senderVars
<1>5. PageInv'
  BY DEF PageInv, ReceiverExits
<1>6. HeardOnce'
  BY <1>3, <1>1, <1>2, HubHears DEF Idle
<1>7. GetsInOrder'
  BY <1>1, OrderStays
<1>8. ChecksAreOwn' /\ LeaseInv'
  BY <1>1, CancelledLeases
<1> QED BY <1>3, <1>4, <1>5, <1>6, <1>7, <1>8 DEF PassInv

LEMMA ReceiverReturnsStep == ASSUME PassInv, ReceiverReturns PROVE PassInv'
<1>1. UNCHANGED <<chrome, sender, toHub, fromHub, auth, lease, dispatched, asserted, toReceiver,
                  fromReceiver, receiver, draining, page>>
  BY DEF ReceiverReturns, senderVars
<1>2. ASSUME /\ pending # Idle /\ auth # None /\ ~pending.dispatched /\ ~pending.validating
             /\ pending' = [pending EXCEPT !.validating = TRUE]
             /\ checks' = checks \cup {Check(pending.id, auth, "dispatch", "receiver")}
      PROVE  PassType' /\ HeardOnce' /\ GetsInOrder' /\ ChecksAreOwn' /\ LeaseInv'
  <2>1. pending \in HubRequests /\ auth \in Leases /\ checks \subseteq Checked
    BY <1>2 DEF PassInv, PassType, TypeOK, HubRequests, Checked, Peers
  <2>2. /\ pending' \in HubRequests /\ pending'.id = pending.id /\ pending'.validating
        /\ ~pending'.dispatched
    BY <1>2, <2>1 DEF HubRequests
  <2>3. /\ Check(pending.id, auth, "dispatch", "receiver") \in Checked
        /\ Check(pending.id, auth, "dispatch", "receiver").id = pending.id
        /\ Check(pending.id, auth, "dispatch", "receiver").lease = auth
        /\ Check(pending.id, auth, "dispatch", "receiver").for = "dispatch"
    BY <2>1 DEF Check, Checked, Peers, HubRequests
  <2>4. PassType'
    BY <1>1, <1>2, <2>3 DEF PassInv, PassType, TypeOK, Checked, Peers
  <2>5. HeardOnce'
    BY <1>1, <1>2, <2>2, <2>3, <2>4, HubHears
  <2>6. \A k \in checks : k.id # pending.id
    BY <1>2, <2>1 DEF PassInv, ChecksAreOwn, Checked
  <2>7. ChecksAreOwn'
    BY <1>1, <1>2, <2>2, <2>3, <2>6 DEF ChecksAreOwn
  <2>8. LeaseInv'
    BY <1>1, <1>2, <2>1, <2>2 DEF PassInv, LeaseInv
  <2>9. GetsInOrder'
    BY <1>1, <1>2, <2>2, OrderStays
  <2> QED BY <2>4, <2>5, <2>7, <2>8, <2>9
<1>3. ASSUME UNCHANGED <<pending, checks>>
      PROVE  PassType' /\ HeardOnce' /\ GetsInOrder' /\ ChecksAreOwn' /\ LeaseInv'
  <2>1. PassType'
    BY <1>1, <1>3 DEF PassInv, PassType, TypeOK
  <2>2. HeardOnce'
    BY <1>1, <1>3, <2>1, HubHears
  <2>3. ChecksAreOwn' /\ LeaseInv' /\ GetsInOrder'
    BY <1>1, <1>3 DEF PassInv, ChecksAreOwn, LeaseInv, GetsInOrder
  <2> QED BY <2>1, <2>2, <2>3
<1>4. PassType' /\ HeardOnce' /\ GetsInOrder' /\ ChecksAreOwn' /\ LeaseInv'
  BY <1>2, <1>3 DEF ReceiverReturns
<1>5. SenderInv'
  BY DEF PassInv, SenderInv, ReceiverReturns, senderVars
<1>6. PageInv'
  BY DEF PassInv, PageInv, ReceiverReturns
<1> QED BY <1>5, <1>6, <1>4 DEF PassInv

\* The invariant holds at the start, and every step keeps it.
LEMMA PassInit == Init => PassInv
<1> SUFFICES ASSUME Init PROVE PassInv
  OBVIOUS
<1>1. PassType
  BY PasskeysAssumption DEF Init, PassType, TypeOK, Idle
<1>2. SenderInv /\ PageInv
  BY DEF Init, SenderInv, PageInv
<1>3. /\ pending = Idle /\ sender = Idle /\ checks = {} /\ dispatched = {} /\ asserted = {}
      /\ DOMAIN toHub = {} /\ DOMAIN fromHub = {} /\ auth = None /\ Idle.id = None
      /\ lease = [a \in Leases |-> "unused"]
  BY DEF Init, Idle
<1>4. HeardOnce
  BY <1>3, PasskeysAssumption DEF HeardOnce, Asked
<1>5. GetsInOrder /\ ChecksAreOwn
  BY <1>3 DEF GetsInOrder, ChecksAreOwn
<1>6. LeaseInv
  BY <1>3 DEF LeaseInv
<1> QED BY <1>1, <1>2, <1>4, <1>5, <1>6 DEF PassInv

LEMMA PassStays == PassInv /\ UNCHANGED vars => PassInv'
BY DEF PassInv, PassType, TypeOK, SenderInv, PageInv, HeardOnce, Looking, Asked, Unheard,
       GetsInOrder, GivenUp, ChecksAreOwn, LeaseInv, vars, senderVars, hubVars, receiverVars

LEMMA PassStep == PassInv /\ [Next]_vars => PassInv'
<1> SUFFICES ASSUME PassInv, [Next]_vars PROVE PassInv'
  OBVIOUS
<1>1. CASE \E c \in Requests : Decline(c) \/ Take(c)
  BY <1>1, DeclineStep, TakeStep
<1>2. CASE SendGet \/ LookFails
  BY <1>2, SendGetStep, LookFailsStep
<1>3. CASE ChromeCancels \/ DocumentChanges \/ SenderTimesOut
  BY <1>3, SenderAbortsStep DEF ChromeCancels, DocumentChanges, SenderTimesOut
<1>4. CASE SenderReceives \/ SenderChecked
  BY <1>4, SenderReceivesStep, SenderCheckedStep
<1>5. CASE HubGet \/ SenderCancel
  BY <1>5, HubGetStep, SenderCancelStep
<1>6. CASE HubCancels \/ HubResult
  BY <1>6, HubCancelsStep, HubResultStep
<1>7. CASE \E a \in Leases : Authenticate(a)
  BY <1>7, AuthenticateStep
<1>8. CASE \E k \in checks : Dispatched(k) \/ Completed(k)
  BY <1>8, DispatchedStep, CompletedStep
<1>9. CASE \E k \in checks : Refused(k) \/ Overtaken(k)
  BY <1>9, RefusedStep, OvertakenStep
<1>10. CASE ReceiverReceives \/ Enter
  BY <1>10, ReceiverReceivesStep, EnterStep
<1>11. CASE ReceiverFails \/ ReceiverTimesOut
  BY <1>11, ReceiverFailsStep, ReceiverTimesOutStep
<1>12. CASE \E id \in page : PageSettles(id)
  BY <1>12, PageSettlesStep
<1>13. CASE ReceiverExits \/ ReceiverReturns
  BY <1>13, ReceiverExitsStep, ReceiverReturnsStep
<1>14. CASE UNCHANGED vars
  BY <1>14, PassStays
<1> QED
  BY <1>1, <1>2, <1>3, <1>4, <1>5, <1>6, <1>7, <1>8, <1>9, <1>10, <1>11, <1>12, <1>13, <1>14
  DEF Next

\* A get behind the pending request would come after its cancellation.
LEMMA NothingBetween == PassInv => NothingInTheWay
<1> SUFFICES ASSUME PassInv PROVE NothingInTheWay
  OBVIOUS
<1>1. ASSUME toHub # <<>>, Head(toHub).type = "get", pending # Idle
      PROVE  FALSE
  <2>1. toHub \in Seq(Message({"get", "cancel"}))
    BY DEF PassInv, PassType, TypeOK
  <2>2. 1 \in DOMAIN toHub /\ DOMAIN toHub \subseteq Nat \ {0} /\ toHub[1].type = "get"
    BY <1>1, <2>1, Popped
  <2>3. GivenUp(pending.id, 0, toHub, sender)
    BY <1>1 DEF PassInv, GetsInOrder
  <2>4. PICK m \in DOMAIN toHub :
          /\ m > 0 /\ toHub[m] = Msg("cancel", pending.id)
          /\ \A j \in DOMAIN toHub : 0 < j /\ j < m => toHub[j].type # "get"
    BY <2>2, <2>3 DEF GivenUp
  <2>5. toHub[m].type # "get"
    BY <2>4, MessageFields
  <2>6. ~(1 < m) /\ m # 1 /\ m \in Nat
    BY <2>2, <2>4, <2>5
  <2> QED BY <2>4, <2>6
<1>2. PageIsFree
  BY DEF PassInv, PageInv, PageIsFree
<1> QED BY <1>1, <1>2 DEF NothingInTheWay, NeverConflicts

\* PassInv is an invariant of the model.
LEMMA SoundPasskeys == MCSpec => []PassInv
<1>1. MCInit => PassInv
  BY PassInit DEF MCInit
<1>2. PassInv /\ [MCNext]_<<part, vars, syncVars>> => PassInv'
  BY PassStep DEF MCNext
<1> QED BY <1>1, <1>2, PTL DEF MCSpec

\* The agent's Chrome hears of a request once: results, timeouts, cancellations and document
\* changes race for it, and only the first one answers (auth/passkeys/extension/runtime.js).
THEOREM ChromeHearsOnce == MCSpec => []AnsweredOnce
<1>1. PassInv => AnsweredOnce
  BY DEF PassInv, SenderInv, AnsweredOnce
<1> QED BY <1>1, SoundPasskeys, PTL

\* An assertion goes out under the lease that sent its request to the receiver, completes
\* exactly that lease, and no lease is good for a second one (auth/passkeys/hub.js).
THEOREM LeasesAreSpent == MCSpec => []AssertionSpendsLease
<1>1. PassInv => AssertionSpendsLease
  BY DEF PassInv, LeaseInv, AssertionSpendsLease
<1> QED BY <1>1, SoundPasskeys, PTL

\* A request that comes to the hub or to the page of the receiver finds nothing in its way
\* (auth/passkeys/hub.js, auth/passkeys/extension/runtime.js).
THEOREM NothingStandsInTheWay == MCSpec => []NothingInTheWay
BY NothingBetween, SoundPasskeys, PTL

-----------------------------------------------------------------------------
(* Automatic sync.                                                         *)

\* Where a task of the alarm decides, and where a task is about to set the alarm.
Deciding(t) == t.pc \in {"fired", "again", "clear"}
Coalescing(t) == t.pc \in {"fired", "again", "remark", "clear"}
SetsAlarm(t) == t.pc \in {"alarm", "mark", "remark"} \/ (t.pc = "pend" /\ t.schedule)

\* What a task knows at each step.
WellFormed(t) ==
    /\ t.pc = "pend" => t.schedule \in BOOLEAN
    /\ t.pc = "clear" => t.sync \in BOOLEAN
    /\ t.pc = "push" => t = [pc |-> "push", version |-> t.version, left |-> t.left]

\* The type of what the proofs look at.
SyncForm ==
    /\ task = [i \in Slots |-> task[i]]
    /\ \A i \in Slots : WellFormed(task[i])
    /\ coalesce \in BOOLEAN /\ coalesceScheduled \in BOOLEAN /\ pendingSync \in BOOLEAN
    /\ early \subseteq Sync!Brief
    /\ stops \in Nat

\* What is stored as scheduled is: the alarm stands, or a task that it started decides; and who
\* stores it began before the alarm was set.
AlarmStands ==
    /\ coalesceScheduled => coalesce \/ \E i \in Slots : Deciding(task[i])
    /\ \A i \in Slots : task[i].pc \in {"mark", "remark"} => coalesce /\ i \in early

\* While the alarm stands, a change is noted, and who is about to set it again began before.
EarlyAreKnown ==
    coalesce =>
    /\ pendingSync
    /\ coalesceScheduled => \A i \in Slots : SetsAlarm(task[i]) => i \in early
    /\ coalesceScheduled \/ \E i \in early : task[i].pc = "mark"

\* One task of the alarm decides at a time, of a change that is noted, and meanwhile nobody is
\* about to set the alarm.
DecidesAlone ==
    /\ \A i, j \in Slots : Coalescing(task[i]) /\ Coalescing(task[j]) => i = j
    /\ \A i \in Slots : Deciding(task[i]) =>
         /\ coalesceScheduled /\ pendingSync /\ ~coalesce
         /\ \A j \in Slots : ~SetsAlarm(task[j])
    /\ \A i \in Slots : task[i].pc = "clear" => task[i].sync
    /\ \A i \in Slots : task[i].pc = "alarm" => pendingSync
    /\ \A i \in Slots : task[i].pc = "remark" => coalesceScheduled

\* A change that was not collected waits for the alarm, or for a task.
NoteTaken == collected # jar => coalesce \/ \E i \in Slots : Sync!Underway(task[i])

OrderInv == AlarmStands /\ EarlyAreKnown /\ DecidesAlone /\ NoteTaken

\* The inductive invariant of automatic sync; of the order only until the worker stops.
SyncInv == SyncForm /\ (stops = 0 => OrderInv)

\* A push goes on with the sinks that are left.
LEMMA Shortened ==
    ASSUME NEW t, NEW left, t = [pc |-> "push", version |-> t.version, left |-> t.left]
    PROVE  [t EXCEPT !.left = left] = [pc |-> "push", version |-> t.version, left |-> left]
<1> DEFINE version == t.version
           rest == t.left
<1>1. t = [pc |-> "push", version |-> version, left |-> rest]
  OBVIOUS
<1> HIDE DEF version, rest
<1>2. [t EXCEPT !.left = left] = [pc |-> "push", version |-> version, left |-> left]
  BY <1>1
<1> QED BY <1>2 DEF version

\* Each step keeps the invariant.
LEMMA ChangeStep == ASSUME SyncInv, NEW i \in Slots, Sync!Change(i) PROVE SyncInv'
<1>1. SyncForm'
  BY DEF SyncInv, SyncForm, WellFormed, Sync!Change, Sync!Begin, Sync!flags, Sync!alarms,
         Sync!bounds, Sync!Brief
<1> SUFFICES ASSUME stops = 0 PROVE OrderInv'
  BY <1>1 DEF SyncInv, Sync!Change, Sync!bounds
<1>2. SyncForm /\ OrderInv
  BY DEF SyncInv
<1>3. AlarmStands'
  BY <1>2
     DEF OrderInv, AlarmStands, Deciding, Sync!Change, Sync!Begin, Sync!flags, Sync!alarms,
         Sync!Idle
<1>4. EarlyAreKnown'
  <2>1. /\ task'[i].pc = "changed" /\ task[i].pc = "idle"
        /\ \A j \in Slots \ {i} : task'[j] = task[j]
        /\ UNCHANGED <<coalesce, coalesceScheduled, pendingSync, early>>
    BY <1>2 DEF SyncForm, Sync!Change, Sync!Begin, Sync!Idle, Sync!flags, Sync!alarms
  <2>2. early \subseteq Slots /\ EarlyAreKnown
    BY <1>2 DEF SyncForm, OrderInv, Sync!Brief
  <2> QED BY <2>1, <2>2 DEF EarlyAreKnown, SetsAlarm
<1>5. DecidesAlone'
  BY <1>2
     DEF OrderInv, DecidesAlone, Deciding, Coalescing, SetsAlarm, Sync!Change, Sync!Begin,
         Sync!flags, Sync!alarms
<1>6. NoteTaken'
  BY <1>2 DEF SyncForm, NoteTaken, Sync!Underway, Sync!Change, Sync!Begin
<1> QED BY <1>3, <1>4, <1>5, <1>6 DEF OrderInv

LEMMA ReadFlagsStep == ASSUME SyncInv, NEW i \in Slots, Sync!ReadFlags(i) PROVE SyncInv'
<1>1. SyncForm'
  BY DEF SyncInv, SyncForm, WellFormed, Sync!ReadFlags, Sync!Goto, Sync!flags, Sync!alarms,
         Sync!bounds, Sync!Brief
<1> SUFFICES ASSUME stops = 0 PROVE OrderInv'
  BY <1>1 DEF SyncInv, Sync!ReadFlags, Sync!bounds
<1>2. SyncForm /\ OrderInv
  BY DEF SyncInv
<1>3. AlarmStands'
  BY <1>2
     DEF OrderInv, AlarmStands, Deciding, Sync!ReadFlags, Sync!Goto, Sync!At, Sync!flags,
         Sync!alarms
<1>4. EarlyAreKnown'
  BY <1>2
     DEF SyncForm, OrderInv, EarlyAreKnown, SetsAlarm, Sync!ReadFlags, Sync!Goto, Sync!At,
         Sync!flags, Sync!alarms, Sync!Brief
<1>5. DecidesAlone'
  BY <1>2
     DEF SyncForm, OrderInv, DecidesAlone, Deciding, Coalescing, SetsAlarm, Sync!ReadFlags,
         Sync!Goto, Sync!flags, Sync!alarms
<1>6. NoteTaken'
  BY <1>2
     DEF SyncForm, OrderInv, AlarmStands, DecidesAlone, NoteTaken, Deciding, Sync!Underway,
         Sync!ReadFlags, Sync!Goto, Sync!At, Sync!alarms
<1> QED BY <1>3, <1>4, <1>5, <1>6 DEF OrderInv

LEMMA SetPendingStep == ASSUME SyncInv, NEW i \in Slots, Sync!SetPending(i) PROVE SyncInv'
<1>1. SyncForm'
  BY DEF SyncInv, SyncForm, WellFormed, Sync!SetPending, Sync!Goto, Sync!alarms, Sync!bounds,
         Sync!Idle, Sync!Brief
<1> SUFFICES ASSUME stops = 0 PROVE OrderInv'
  BY <1>1 DEF SyncInv, Sync!SetPending, Sync!bounds
<1>2. SyncForm /\ OrderInv
  BY DEF SyncInv
<1>3. AlarmStands'
  BY <1>2
     DEF SyncForm, OrderInv, AlarmStands, Deciding, Sync!SetPending, Sync!Goto, Sync!At,
         Sync!alarms, Sync!Idle
<1>4. EarlyAreKnown'
  BY <1>2
     DEF SyncForm, OrderInv, EarlyAreKnown, SetsAlarm, Sync!SetPending, Sync!Goto, Sync!At,
         Sync!alarms, Sync!Idle, Sync!Brief
<1>5. DecidesAlone'
  BY <1>2
     DEF SyncForm, OrderInv, DecidesAlone, Deciding, Coalescing, SetsAlarm, Sync!SetPending,
         Sync!Goto, Sync!At, Sync!alarms, Sync!Idle
<1>6. NoteTaken'
  BY <1>2
     DEF SyncForm, OrderInv, NoteTaken, Sync!Underway, Sync!SetPending, Sync!Goto, Sync!At,
         Sync!alarms
<1> QED BY <1>3, <1>4, <1>5, <1>6 DEF OrderInv

LEMMA CreateAlarmStep == ASSUME SyncInv, NEW i \in Slots, Sync!CreateAlarm(i) PROVE SyncInv'
<1>1. SyncForm'
  BY DEF SyncInv, SyncForm, WellFormed, Sync!CreateAlarm, Sync!Goto, Sync!flags, Sync!bounds,
         Sync!Brief
<1> SUFFICES ASSUME stops = 0 PROVE OrderInv'
  BY <1>1 DEF SyncInv, Sync!CreateAlarm, Sync!bounds
<1>2. SyncForm /\ OrderInv
  BY DEF SyncInv
<1>3. AlarmStands'
  BY DEF AlarmStands, Sync!CreateAlarm, Sync!Goto, Sync!At, Sync!Brief
<1>4. EarlyAreKnown'
  BY <1>2
     DEF SyncForm, OrderInv, EarlyAreKnown, DecidesAlone, SetsAlarm, Sync!CreateAlarm,
         Sync!Goto, Sync!At, Sync!flags, Sync!Brief
<1>5. DecidesAlone'
  BY <1>2
     DEF OrderInv, DecidesAlone, Deciding, Coalescing, SetsAlarm, Sync!CreateAlarm, Sync!Goto,
         Sync!At, Sync!flags
<1>6. NoteTaken'
  BY DEF NoteTaken, Sync!CreateAlarm
<1> QED BY <1>3, <1>4, <1>5, <1>6 DEF OrderInv

LEMMA MarkScheduledStep == ASSUME SyncInv, NEW i \in Slots, Sync!MarkScheduled(i) PROVE SyncInv'
<1>1. SyncForm'
  BY DEF SyncInv, SyncForm, WellFormed, Sync!MarkScheduled, Sync!Goto, Sync!alarms, Sync!bounds,
         Sync!Idle, Sync!Brief
<1> SUFFICES ASSUME stops = 0 PROVE OrderInv'
  BY <1>1 DEF SyncInv, Sync!MarkScheduled, Sync!bounds
<1>2. SyncForm /\ OrderInv
  BY DEF SyncInv
<1>3. AlarmStands'
  BY <1>2
     DEF SyncForm, OrderInv, AlarmStands, Sync!MarkScheduled, Sync!Goto, Sync!At, Sync!alarms,
         Sync!Idle
<1>4. EarlyAreKnown'
  BY <1>2
     DEF SyncForm, OrderInv, EarlyAreKnown, SetsAlarm, Sync!MarkScheduled, Sync!Goto,
         Sync!alarms, Sync!Idle, Sync!Brief
<1>5. DecidesAlone'
  BY <1>2
     DEF OrderInv, DecidesAlone, Deciding, Coalescing, SetsAlarm, Sync!MarkScheduled, Sync!Goto,
         Sync!alarms, Sync!Idle
<1>6. NoteTaken'
  BY <1>2
     DEF OrderInv, NoteTaken, Sync!Underway, Sync!MarkScheduled, Sync!Goto, Sync!At, Sync!alarms
<1> QED BY <1>3, <1>4, <1>5, <1>6 DEF OrderInv

LEMMA FireStep == ASSUME SyncInv, NEW i \in Slots, Sync!Fire(i) PROVE SyncInv'
<1>1. SyncForm'
  BY DEF SyncInv, SyncForm, WellFormed, Sync!Fire, Sync!Begin, Sync!flags, Sync!bounds
<1> SUFFICES ASSUME stops = 0 PROVE OrderInv'
  BY <1>1 DEF SyncInv, Sync!Fire, Sync!bounds
<1>2. SyncForm /\ OrderInv
  BY DEF SyncInv
<1>3. AlarmStands'
  BY <1>2 DEF SyncForm, OrderInv, AlarmStands, Deciding, Sync!Fire, Sync!Begin
<1>4. EarlyAreKnown'
  BY DEF EarlyAreKnown, Sync!Fire
<1>5. DecidesAlone'
  BY <1>2
     DEF OrderInv, EarlyAreKnown, DecidesAlone, Deciding, Coalescing, SetsAlarm, Sync!Fire,
         Sync!Begin, Sync!flags
<1>6. NoteTaken'
  BY <1>2 DEF SyncForm, NoteTaken, Sync!Underway, Sync!Fire, Sync!Begin
<1> QED BY <1>3, <1>4, <1>5, <1>6 DEF OrderInv

LEMMA DecideStep == ASSUME SyncInv, NEW i \in Slots, Sync!Decide(i) PROVE SyncInv'
<1>1. SyncForm'
  BY DEF SyncInv, SyncForm, WellFormed, Sync!Decide, Sync!Goto, Sync!flags, Sync!alarms,
         Sync!bounds, Sync!Brief
<1> SUFFICES ASSUME stops = 0 PROVE OrderInv'
  BY <1>1 DEF SyncInv, Sync!Decide, Sync!bounds
<1>2. SyncForm /\ OrderInv
  BY DEF SyncInv
<1>3. AlarmStands'
  BY <1>2 DEF OrderInv, AlarmStands, Deciding, Sync!Decide, Sync!Goto, Sync!flags, Sync!alarms
<1>4. EarlyAreKnown'
  BY <1>2
     DEF OrderInv, EarlyAreKnown, SetsAlarm, Sync!Decide, Sync!Goto, Sync!At, Sync!flags,
         Sync!alarms
<1>5. DecidesAlone'
  BY <1>2
     DEF OrderInv, DecidesAlone, Deciding, Coalescing, SetsAlarm, Sync!Decide, Sync!Goto,
         Sync!At, Sync!flags, Sync!alarms
<1>6. NoteTaken'
  BY <1>2
     DEF OrderInv, DecidesAlone, NoteTaken, Deciding, Sync!Underway, Sync!Decide, Sync!Goto,
         Sync!At
<1> QED BY <1>3, <1>4, <1>5, <1>6 DEF OrderInv

LEMMA RescheduleStep == ASSUME SyncInv, NEW i \in Slots, Sync!Reschedule(i) PROVE SyncInv'
<1>1. SyncForm'
  BY DEF SyncInv, SyncForm, WellFormed, Sync!Reschedule, Sync!Goto, Sync!flags, Sync!bounds,
         Sync!Brief
<1> SUFFICES ASSUME stops = 0 PROVE OrderInv'
  BY <1>1 DEF SyncInv, Sync!Reschedule, Sync!bounds
<1>2. SyncForm /\ OrderInv
  BY DEF SyncInv
<1>3. AlarmStands'
  BY DEF AlarmStands, Sync!Reschedule, Sync!Goto, Sync!At, Sync!Brief
<1>4. EarlyAreKnown'
  BY <1>2
     DEF OrderInv, EarlyAreKnown, DecidesAlone, Deciding, Sync!Reschedule, Sync!Goto, Sync!At,
         Sync!flags, Sync!Brief
<1>5. DecidesAlone'
  BY <1>2
     DEF SyncForm, OrderInv, DecidesAlone, Deciding, Coalescing, Sync!Reschedule, Sync!Goto,
         Sync!At, Sync!flags
<1>6. NoteTaken'
  BY DEF NoteTaken, Sync!Reschedule
<1> QED BY <1>3, <1>4, <1>5, <1>6 DEF OrderInv

LEMMA MarkAgainStep == ASSUME SyncInv, NEW i \in Slots, Sync!MarkAgain(i) PROVE SyncInv'
<1>1. SyncForm'
  BY DEF SyncInv, SyncForm, WellFormed, Sync!MarkAgain, Sync!Goto, Sync!alarms, Sync!bounds,
         Sync!Idle, Sync!Brief
<1> SUFFICES ASSUME stops = 0 PROVE OrderInv'
  BY <1>1 DEF SyncInv, Sync!MarkAgain, Sync!bounds
<1>2. SyncForm /\ OrderInv
  BY DEF SyncInv
<1>3. AlarmStands'
  BY <1>2
     DEF SyncForm, OrderInv, AlarmStands, Sync!MarkAgain, Sync!Goto, Sync!At, Sync!alarms,
         Sync!Idle
<1>4. EarlyAreKnown'
  BY <1>2
     DEF SyncForm, EarlyAreKnown, SetsAlarm, Sync!MarkAgain, Sync!Goto, Sync!Idle, Sync!Brief
<1>5. DecidesAlone'
  BY <1>2
     DEF OrderInv, DecidesAlone, Deciding, Coalescing, Sync!MarkAgain, Sync!Goto, Sync!At,
         Sync!Idle
<1>6. NoteTaken'
  BY <1>2 DEF OrderInv, AlarmStands, NoteTaken, Sync!MarkAgain, Sync!At, Sync!alarms
<1> QED BY <1>3, <1>4, <1>5, <1>6 DEF OrderInv

LEMMA ClearStep == ASSUME SyncInv, NEW i \in Slots, Sync!Clear(i) PROVE SyncInv'
<1>1. SyncForm'
  BY DEF SyncInv, SyncForm, WellFormed, Sync!Clear, Sync!Goto, Sync!alarms, Sync!bounds,
         Sync!Idle, Sync!Brief
<1> SUFFICES ASSUME stops = 0 PROVE OrderInv'
  BY <1>1 DEF SyncInv, Sync!Clear, Sync!bounds
<1>2. SyncForm /\ OrderInv
  BY DEF SyncInv
<1>3. AlarmStands'
  BY <1>2 DEF OrderInv, AlarmStands, Sync!Clear, Sync!Goto, Sync!At, Sync!alarms, Sync!Idle
<1>4. EarlyAreKnown'
  BY <1>2 DEF OrderInv, EarlyAreKnown, DecidesAlone, Deciding, Sync!Clear, Sync!At, Sync!alarms
<1>5. DecidesAlone'
  BY <1>2
     DEF SyncForm, OrderInv, DecidesAlone, Deciding, Coalescing, SetsAlarm, Sync!Clear,
         Sync!Goto, Sync!At
<1>6. NoteTaken'
  BY <1>2 DEF OrderInv, NoteTaken, Sync!Underway, Sync!Clear, Sync!Goto, Sync!At, Sync!alarms
<1> QED BY <1>3, <1>4, <1>5, <1>6 DEF OrderInv

LEMMA PeriodicStep == ASSUME SyncInv, NEW i \in Slots, Sync!Periodic(i) PROVE SyncInv'
<1>1. SyncForm'
  BY DEF SyncInv, SyncForm, WellFormed, Sync!Periodic, Sync!Begin, Sync!flags, Sync!alarms,
         Sync!bounds, Sync!Idle, Sync!Brief
<1> SUFFICES ASSUME stops = 0 PROVE OrderInv'
  BY <1>1 DEF SyncInv, Sync!Periodic, Sync!bounds
<1>2. SyncForm /\ OrderInv
  BY DEF SyncInv
<1>3. AlarmStands'
  BY <1>2
     DEF OrderInv, AlarmStands, Deciding, Sync!Periodic, Sync!Begin, Sync!flags, Sync!alarms,
         Sync!Idle
<1>4. EarlyAreKnown'
  BY <1>1, <1>2
     DEF OrderInv, EarlyAreKnown, SetsAlarm, Sync!Periodic, Sync!Begin, Sync!flags, Sync!alarms,
         Sync!Idle
<1>5. DecidesAlone'
  BY <1>2
     DEF OrderInv, DecidesAlone, Deciding, Coalescing, SetsAlarm, Sync!Periodic, Sync!Begin,
         Sync!flags, Sync!alarms
<1>6. NoteTaken'
  BY <1>2 DEF OrderInv, NoteTaken, Sync!Underway, Sync!Periodic, Sync!Begin, Sync!alarms
<1> QED BY <1>3, <1>4, <1>5, <1>6 DEF OrderInv

LEMMA SyncNowStep == ASSUME SyncInv, NEW i \in Slots, Sync!SyncNow(i) PROVE SyncInv'
<1>1. SyncForm'
  BY DEF SyncInv, SyncForm, WellFormed, Sync!SyncNow, Sync!Begin, Sync!flags, Sync!alarms,
         Sync!bounds, Sync!Idle, Sync!Brief
<1> SUFFICES ASSUME stops = 0 PROVE OrderInv'
  BY <1>1 DEF SyncInv, Sync!SyncNow, Sync!bounds
<1>2. SyncForm /\ OrderInv
  BY DEF SyncInv
<1>3. AlarmStands'
  BY <1>2
     DEF OrderInv, AlarmStands, Deciding, Sync!SyncNow, Sync!Begin, Sync!flags, Sync!alarms,
         Sync!Idle
<1>4. EarlyAreKnown'
  BY <1>1, <1>2
     DEF OrderInv, EarlyAreKnown, SetsAlarm, Sync!SyncNow, Sync!Begin, Sync!flags, Sync!alarms,
         Sync!Idle
<1>5. DecidesAlone'
  BY <1>2
     DEF OrderInv, DecidesAlone, Deciding, Coalescing, SetsAlarm, Sync!SyncNow, Sync!Begin,
         Sync!flags, Sync!alarms
<1>6. NoteTaken'
  BY <1>2 DEF OrderInv, NoteTaken, Sync!Underway, Sync!SyncNow, Sync!Begin, Sync!alarms
<1> QED BY <1>3, <1>4, <1>5, <1>6 DEF OrderInv

LEMMA CollectStep == ASSUME SyncInv, NEW i \in Slots, Sync!Collect(i) PROVE SyncInv'
<1>1. SyncForm'
  BY DEF SyncInv, SyncForm, WellFormed, Sync!Collect, Sync!Goto, Sync!At, Sync!flags,
         Sync!alarms, Sync!bounds, Sync!Brief
<1> SUFFICES ASSUME stops = 0 PROVE OrderInv'
  BY <1>1 DEF SyncInv, Sync!Collect, Sync!bounds
<1>2. SyncForm /\ OrderInv
  BY DEF SyncInv
<1>3. AlarmStands'
  BY <1>2
     DEF OrderInv, AlarmStands, Deciding, Sync!Collect, Sync!Goto, Sync!At, Sync!flags,
         Sync!alarms
<1>4. EarlyAreKnown'
  BY <1>2
     DEF OrderInv, EarlyAreKnown, SetsAlarm, Sync!Collect, Sync!Goto, Sync!At, Sync!flags,
         Sync!alarms
<1>5. DecidesAlone'
  BY <1>2
     DEF OrderInv, DecidesAlone, Deciding, Coalescing, SetsAlarm, Sync!Collect, Sync!Goto,
         Sync!flags, Sync!alarms
<1>6. NoteTaken'
  BY DEF NoteTaken, Sync!Collect
<1> QED BY <1>3, <1>4, <1>5, <1>6 DEF OrderInv

LEMMA PushStep == ASSUME SyncInv, NEW i \in Slots, Sync!Push(i) PROVE SyncInv'
<1>1. SyncForm'
  <2>1. /\ task = [j \in Slots |-> task[j]] /\ task[i].pc = "push"
        /\ task[i] = [pc |-> "push", version |-> task[i].version, left |-> task[i].left]
    BY DEF SyncInv, SyncForm, WellFormed, Sync!Push, Sync!Pushing, Sync!At
  <2>2. task' = [task EXCEPT ![i] = [task[i] EXCEPT !.left = Tail(task[i].left)]]
    BY DEF Sync!Push, Sync!Skip, Sync!Goto
  <2>3. [task[i] EXCEPT !.left = Tail(task[i].left)]
          = [pc |-> "push", version |-> task[i].version, left |-> Tail(task[i].left)]
    BY <2>1, Shortened
  <2>4. /\ task' = [j \in Slots |-> task'[j]]
        /\ task'[i] = [pc |-> "push", version |-> task[i].version, left |-> Tail(task[i].left)]
        /\ \A j \in Slots \ {i} : task'[j] = task[j]
    BY <2>1, <2>2, <2>3
  <2>5. WellFormed(task'[i]) /\ task'[i].pc = "push"
    BY <2>4 DEF WellFormed
  <2>6. UNCHANGED <<coalesce, coalesceScheduled, pendingSync, early>> /\ stops' = stops
    BY DEF Sync!Push, Sync!flags, Sync!alarms, Sync!bounds
  <2> QED BY <2>1, <2>4, <2>5, <2>6 DEF SyncInv, SyncForm, Sync!Brief
<1> SUFFICES ASSUME stops = 0 PROVE OrderInv'
  BY <1>1 DEF SyncInv, Sync!Push, Sync!bounds
<1>2. SyncForm /\ OrderInv
  BY DEF SyncInv
<1>3. AlarmStands'
  BY <1>2
     DEF OrderInv, AlarmStands, Deciding, Sync!Push, Sync!Goto, Sync!flags, Sync!alarms,
         Sync!Skip
<1>4. EarlyAreKnown'
  <2>1. /\ task'[i].pc = "push" /\ task[i].pc = "push"
        /\ \A j \in Slots \ {i} : task'[j] = task[j]
        /\ UNCHANGED <<coalesce, coalesceScheduled, pendingSync, early>>
    BY DEF Sync!Push, Sync!Pushing, Sync!Skip, Sync!Goto, Sync!At, Sync!flags, Sync!alarms
  <2>2. early \subseteq Slots /\ EarlyAreKnown
    BY <1>2 DEF SyncForm, OrderInv, Sync!Brief
  <2> QED BY <2>1, <2>2 DEF EarlyAreKnown, SetsAlarm
<1>5. DecidesAlone'
  BY <1>2
     DEF OrderInv, DecidesAlone, Deciding, Coalescing, SetsAlarm, Sync!Push, Sync!Goto,
         Sync!flags, Sync!alarms, Sync!Skip
<1>6. NoteTaken'
  BY <1>2 DEF OrderInv, NoteTaken, Sync!Underway, Sync!Push, Sync!Goto, Sync!alarms, Sync!Skip
<1> QED BY <1>3, <1>4, <1>5, <1>6 DEF OrderInv

LEMMA PushFailsStep == ASSUME SyncInv, NEW i \in Slots, Sync!PushFails(i) PROVE SyncInv'
<1>1. SyncForm'
  <2>1. /\ task = [j \in Slots |-> task[j]] /\ task[i].pc = "push"
        /\ task[i] = [pc |-> "push", version |-> task[i].version, left |-> task[i].left]
    BY DEF SyncInv, SyncForm, WellFormed, Sync!PushFails, Sync!Pushing, Sync!At
  <2>2. task' = [task EXCEPT ![i] = [task[i] EXCEPT !.left = Tail(task[i].left)]]
    BY DEF Sync!PushFails, Sync!Skip, Sync!Goto
  <2>3. [task[i] EXCEPT !.left = Tail(task[i].left)]
          = [pc |-> "push", version |-> task[i].version, left |-> Tail(task[i].left)]
    BY <2>1, Shortened
  <2>4. /\ task' = [j \in Slots |-> task'[j]]
        /\ task'[i] = [pc |-> "push", version |-> task[i].version, left |-> Tail(task[i].left)]
        /\ \A j \in Slots \ {i} : task'[j] = task[j]
    BY <2>1, <2>2, <2>3
  <2>5. WellFormed(task'[i]) /\ task'[i].pc = "push"
    BY <2>4 DEF WellFormed
  <2>6. UNCHANGED <<coalesce, coalesceScheduled, pendingSync, early>> /\ stops' = stops
    BY DEF Sync!PushFails, Sync!flags, Sync!alarms, Sync!bounds
  <2> QED BY <2>1, <2>4, <2>5, <2>6 DEF SyncInv, SyncForm, Sync!Brief
<1> SUFFICES ASSUME stops = 0 PROVE OrderInv'
  BY <1>1 DEF SyncInv, Sync!PushFails
<1>2. SyncForm /\ OrderInv
  BY DEF SyncInv
<1>3. AlarmStands'
  BY <1>2
     DEF OrderInv, AlarmStands, Deciding, Sync!PushFails, Sync!Goto, Sync!flags, Sync!alarms,
         Sync!Skip
<1>4. EarlyAreKnown'
  <2>1. /\ task'[i].pc = "push" /\ task[i].pc = "push"
        /\ \A j \in Slots \ {i} : task'[j] = task[j]
        /\ UNCHANGED <<coalesce, coalesceScheduled, pendingSync, early>>
    BY DEF Sync!PushFails, Sync!Pushing, Sync!Skip, Sync!Goto, Sync!At, Sync!flags, Sync!alarms
  <2>2. early \subseteq Slots /\ EarlyAreKnown
    BY <1>2 DEF SyncForm, OrderInv, Sync!Brief
  <2> QED BY <2>1, <2>2 DEF EarlyAreKnown, SetsAlarm
<1>5. DecidesAlone'
  BY <1>2
     DEF OrderInv, DecidesAlone, Deciding, Coalescing, SetsAlarm, Sync!PushFails, Sync!Goto,
         Sync!flags, Sync!alarms, Sync!Skip
<1>6. NoteTaken'
  BY <1>2
     DEF OrderInv, NoteTaken, Sync!Underway, Sync!PushFails, Sync!Goto, Sync!alarms, Sync!Skip
<1> QED BY <1>3, <1>4, <1>5, <1>6 DEF OrderInv

LEMMA FinishStep == ASSUME SyncInv, NEW i \in Slots, Sync!Finish(i) PROVE SyncInv'
<1>1. SyncForm'
  BY DEF SyncInv, SyncForm, WellFormed, Sync!Finish, Sync!Goto, Sync!At, Sync!flags,
         Sync!alarms, Sync!bounds, Sync!Idle, Sync!Brief
<1> SUFFICES ASSUME stops = 0 PROVE OrderInv'
  BY <1>1 DEF SyncInv, Sync!Finish, Sync!bounds
<1>2. SyncForm /\ OrderInv
  BY DEF SyncInv
<1>3. AlarmStands'
  BY <1>2
     DEF OrderInv, AlarmStands, Deciding, Sync!Finish, Sync!Goto, Sync!At, Sync!flags,
         Sync!alarms, Sync!Idle
<1>4. EarlyAreKnown'
  BY <1>2
     DEF OrderInv, EarlyAreKnown, SetsAlarm, Sync!Finish, Sync!Goto, Sync!At, Sync!flags,
         Sync!alarms, Sync!Idle
<1>5. DecidesAlone'
  BY <1>2
     DEF OrderInv, DecidesAlone, Deciding, Coalescing, SetsAlarm, Sync!Finish, Sync!Goto,
         Sync!flags, Sync!alarms, Sync!Idle
<1>6. NoteTaken'
  BY <1>2 DEF OrderInv, NoteTaken, Sync!Underway, Sync!Finish, Sync!Goto, Sync!At, Sync!alarms
<1> QED BY <1>3, <1>4, <1>5, <1>6 DEF OrderInv

\* When the worker stops, the form stays.
LEMMA StopsStep ==
    ASSUME SyncInv, Sync!Stop \/ \E i \in Slots : Sync!Restart(i)
    PROVE  SyncInv'
<1>1. stops' = stops + 1
  BY DEF Sync!Stop, Sync!Restart
<1>2. /\ task' = [j \in Slots |-> task'[j]] /\ early' = {}
      /\ \A j \in Slots : task'[j].pc \in {"idle", "collect"}
  <2>1. CASE Sync!Stop
    BY <2>1 DEF Sync!Stop, Sync!Idle
  <2>2. ASSUME NEW i \in Slots, Sync!Restart(i)
        PROVE  /\ task' = [j \in Slots |-> task'[j]] /\ early' = {}
               /\ \A j \in Slots : task'[j].pc \in {"idle", "collect"}
    BY <2>2 DEF Sync!Restart, Sync!Idle
  <2> QED BY <2>1, <2>2
<1>3. coalesce' \in BOOLEAN /\ UNCHANGED <<pendingSync, coalesceScheduled>>
  BY DEF Sync!Stop, Sync!Restart, Sync!flags, Sync!alarms, SyncInv, SyncForm
<1>4. SyncForm'
  BY <1>1, <1>2, <1>3 DEF SyncInv, SyncForm, WellFormed
<1> QED BY <1>1, <1>4 DEF SyncInv, SyncForm

LEMMA UnchangedSync ==
    ASSUME SyncInv,
           UNCHANGED <<jar, pendingSync, coalesceScheduled, coalesce, task, early, collected,
                       stops>>
    PROVE  SyncInv'
<1>1. SyncForm'
  BY DEF SyncInv, SyncForm, Sync!Brief
<1>2. stops = 0 => OrderInv'
  BY DEF SyncInv, OrderInv, AlarmStands, EarlyAreKnown, DecidesAlone, NoteTaken
<1> QED BY <1>1, <1>2 DEF SyncInv

LEMMA SyncInit == Sync!Init => SyncInv
<1> SUFFICES ASSUME Sync!Init PROVE SyncInv
  OBVIOUS
<1>1. \A i \in Slots : task[i].pc = "idle"
  BY DEF Sync!Init, Sync!Idle
<1>2. SyncForm
  BY <1>1 DEF Sync!Init, SyncForm, WellFormed
<1>3. OrderInv
  BY <1>1
     DEF Sync!Init, OrderInv, AlarmStands, EarlyAreKnown, DecidesAlone, NoteTaken, Deciding,
              Coalescing, SetsAlarm
<1> QED BY <1>2, <1>3 DEF SyncInv

LEMMA SyncStep == SyncInv /\ [Sync!Next]_(Sync!vars) => SyncInv'
<1> SUFFICES ASSUME SyncInv, [Sync!Next]_(Sync!vars) PROVE SyncInv'
  OBVIOUS
<1>1. CASE Sync!Tick \/ UNCHANGED Sync!vars
  BY <1>1, UnchangedSync
     DEF Sync!Tick, Sync!vars, Sync!flags, Sync!alarms, Sync!bounds
<1>2. ASSUME NEW i \in Slots, Sync!Step(i) PROVE SyncInv'
  BY <1>2, ReadFlagsStep, SetPendingStep, CreateAlarmStep, MarkScheduledStep, DecideStep,
     RescheduleStep, MarkAgainStep, ClearStep, CollectStep, PushStep, PushFailsStep, FinishStep
  DEF Sync!Step, Sync!OnChange, Sync!OnCoalesce, Sync!RunSync
<1>3. ASSUME NEW i \in Slots,
             Sync!Change(i) \/ Sync!Fire(i) \/ Sync!Periodic(i) \/ Sync!SyncNow(i)
      PROVE  SyncInv'
  BY <1>3, ChangeStep, FireStep, PeriodicStep, SyncNowStep
<1> QED BY <1>1, <1>2, <1>3, StopsStep DEF Sync!Next

\* While the service worker runs, no change of a cookie waits for the periodic alarm
\* (src/background.js: no handler outlives the half minute of the alarm it may set).
THEOREM ChangesAreNoted == MCSpec => []ChangeNotForgotten
<1>1. MCInit => SyncInv
  BY SyncInit DEF MCInit
<1>2. [MCNext]_<<part, vars, syncVars>> => [Sync!Next]_(Sync!vars)
  <2>1. syncVars' = syncVars => Sync!vars' = Sync!vars
    BY DEF syncVars, Sync!vars, Sync!flags, Sync!alarms, Sync!bounds
  <2> QED BY <2>1 DEF MCNext
<1>3. SyncInv => ChangeNotForgotten
  BY DEF SyncInv, OrderInv, EarlyAreKnown, NoteTaken, ChangeNotForgotten,
         Sync!ChangeNotForgotten
<1> QED BY <1>1, <1>2, <1>3, SyncStep, PTL DEF MCSpec
=============================================================================
