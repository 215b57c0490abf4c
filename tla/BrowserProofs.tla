--------------------------- MODULE BrowserProofs ---------------------------
(***************************************************************************)
(* Proofs about the browsers of the executor, one part of                  *)
(* MCBrowserSessions after the other: the managed ones, for any finite set *)
(* of ids and any requesters, services and bounds, and the receiver of     *)
(* passkeys, for any sessions.                                             *)
(*                                                                         *)
(* Publishing needs that whatever was retired while it was opened is       *)
(* cancelled, which the last check before the publication sees; the        *)
(* quarantine needs that what was typed never outlives it; the limits need *)
(* that the reservations are exactly the browsers there are.  One Chrome   *)
(* on the receiver's profile needs that one session at a time is released, *)
(* that none is active meanwhile, and that its start is over before its    *)
(* browser is closed.                                                      *)
(***************************************************************************)
EXTENDS MCBrowserSessions, FiniteSetTheorems, TLAPS

\* A behaviour of the composition is one of each part.
LEMMA PartsAreFollowed == MCSpec => Spec /\ Receiver!Spec
<1>1. MCInit => Init /\ Receiver!Init
  BY DEF MCInit
<1>2. [MCNext]_<<part, vars, receiverVars>> => [Next]_vars /\ [Receiver!Next]_(Receiver!vars)
  <2>1. receiverVars' = receiverVars <=> Receiver!vars' = Receiver!vars
    BY DEF receiverVars, Receiver!vars
  <2> QED BY <2>1 DEF MCNext
<1> QED BY <1>1, <1>2, PTL DEF MCSpec, Spec, Receiver!Spec

-----------------------------------------------------------------------------
(* The managed browsers (BrowserSessions).                                  *)

\* A browser that is opened knows when it was retired, and a service that was found
\* registered has a number.
OpeningInv ==
    /\ \A i \in Opening : i \in outdated => i \in cancelled
    /\ \A i \in outdated : stage[i] # "none"
    /\ \A i \in Ids : service[i][1] # Own => service[i][2] # 0

\* What was typed is in quarantine, and so is the page of a takeover; the agent's
\* operations and leases exclude each other.
UseInv ==
    /\ secret \subseteq quarantined /\ takeover \subseteq quarantined
    /\ \A i \in Ids : lease[i] # 0 => operation[i] = "none"
    /\ \A i \in secret : operation[i] \notin {"act", "bind"}

Held(r) == {i \in reservations : owner[i] = r}

\* The reservations are the browsers there are, within the limits.
CapacityInv ==
    /\ reservations = Running
    /\ Cardinality(reservations) <= MaxSessions
    /\ \A r \in Requesters : Cardinality(Held(r)) <= MaxPerRequester

SessionsInv == TypeOK /\ OpeningInv /\ UseInv /\ PublishedIsCurrent /\ CapacityInv

-----------------------------------------------------------------------------
LEMMA SessionsInit == Init => SessionsInv
<1> SUFFICES ASSUME Init PROVE SessionsInv
  OBVIOUS
<1>1. TypeOK
  BY DEF Init, TypeOK
<1>2. OpeningInv /\ UseInv /\ PublishedIsCurrent
  BY DEF Init, OpeningInv, UseInv, PublishedIsCurrent, Opening, Usable
<1>3. CapacityInv
  <2>1. reservations = {} /\ Running = {} /\ \A r \in Requesters : Held(r) = {}
    BY DEF Init, Running, Held
  <2> QED BY <2>1, FS_EmptySet, SessionsAssumption DEF CapacityInv
<1> QED BY <1>1, <1>2, <1>3 DEF SessionsInv

\* Sets of reservations are finite, and a smaller one holds no more.
LEMMA FewerHeld ==
    ASSUME NEW S \in SUBSET Ids, NEW T \in SUBSET S
    PROVE  Cardinality(T) <= Cardinality(S) /\ Cardinality(S) \in Nat /\ Cardinality(T) \in Nat
BY FS_Subset, FS_CardinalityType, SessionsAssumption

\* Where no reservation is added and no owner of one changed, the limits stay kept.
LEMMA CapacityKept ==
    ASSUME SessionsInv, reservations' = Running', reservations' \subseteq reservations,
           \A i \in reservations' : owner'[i] = owner[i]
    PROVE  CapacityInv'
<1>1. reservations \in SUBSET Ids
  BY DEF SessionsInv, TypeOK
<1>2. Cardinality(reservations') <= MaxSessions
  BY <1>1, FewerHeld, SessionsAssumption DEF SessionsInv, CapacityInv
<1>3. ASSUME NEW r \in Requesters PROVE Cardinality(Held(r)') <= MaxPerRequester
  <2>1. Held(r)' \in SUBSET Held(r) /\ Held(r) \in SUBSET Ids
    BY <1>1 DEF Held
  <2>2. Cardinality(Held(r)) <= MaxPerRequester
    BY DEF SessionsInv, CapacityInv
  <2>3. Cardinality(Held(r)') <= Cardinality(Held(r)) /\ Cardinality(Held(r)) \in Nat
        /\ Cardinality(Held(r)') \in Nat
    BY <2>1, FewerHeld
  <2> QED BY <2>2, <2>3, SessionsAssumption
<1> QED BY <1>2, <1>3 DEF CapacityInv

-----------------------------------------------------------------------------
(* Closing.                                                                 *)

\* What closing does to the uses of the sessions, whatever it is a part of.
LEMMA CloseAllUse ==
    ASSUME SessionsInv, NEW gone \in SUBSET Ids, CloseAll(gone)
    PROVE  /\ UseInv'
           /\ reservations' = Running' => CapacityInv' \/ owner' # owner
           /\ stage' \in [Ids -> {"none", "launching", "starting", "open", "closing", "unclosed"}]
           /\ operation' \in [Ids -> {"none", "inspect", "act", "bind"}]
           /\ lease' \in [Ids -> Nat] /\ leases' \in [Ids -> Nat]
           /\ takeover' \subseteq Ids /\ busy' \subseteq Ids /\ sending' \subseteq Ids \X Nat
           /\ quarantined' \subseteq Ids /\ secret' \subseteq Ids /\ reservations' \subseteq Ids
<1>1. UseInv'
  BY DEF SessionsInv, TypeOK, UseInv, CloseAll
<1>2. reservations' = Running' => CapacityInv' \/ owner' # owner
  BY CapacityKept DEF CloseAll
<1> QED BY <1>1, <1>2 DEF SessionsInv, TypeOK, CloseAll

\* Browsers that are closed leave the enrollments and the limits as they are.
LEMMA CloseAllKeeps ==
    ASSUME SessionsInv, NEW gone \in SUBSET Ids, CloseAll(gone), \A i \in gone : stage[i] # "none",
           UNCHANGED <<registry, owner, service, cancelled, outdated, failures>>
    PROVE  SessionsInv'
<1>1. UseInv' /\ TypeOK'
  BY CloseAllUse DEF SessionsInv, TypeOK, registry
<1>2. OpeningInv' /\ PublishedIsCurrent'
  BY DEF SessionsInv, TypeOK, OpeningInv, PublishedIsCurrent, CloseAll, Opening, Usable, registry
<1>3. Running' = Running
  BY DEF CloseAll, Running, SessionsInv, TypeOK
<1>4. CapacityInv'
  BY <1>3, CapacityKept DEF CloseAll, SessionsInv, CapacityInv
<1> QED BY <1>1, <1>2, <1>4 DEF SessionsInv

\* Retiring closes what is published and marks what is being opened; the objects that
\* are registered may change for the services retired.
LEMMA RetireKeeps ==
    ASSUME SessionsInv, NEW selected \in SUBSET Ids, Retire(selected),
           stopped' \in BOOLEAN, changes' \in Nat, registered' \in [Services -> Nat],
           \A s \in Services : registered'[s] = 0 => registered[s] = 0 \/ Of(s) \subseteq selected
    PROVE  SessionsInv'
<1> DEFINE gone == selected \cap (Usable \cup Closing)
<1>0. gone \in SUBSET Ids /\ CloseAll(gone) /\ \A i \in gone : stage[i] # "none"
  BY DEF Retire, Usable, Closing
<1>1. UseInv' /\ TypeOK'
  <2>1. UseInv' /\ stage' \in [Ids -> {"none", "launching", "starting", "open", "closing", "unclosed"}]
        /\ operation' \in [Ids -> {"none", "inspect", "act", "bind"}]
        /\ lease' \in [Ids -> Nat] /\ leases' \in [Ids -> Nat]
        /\ takeover' \subseteq Ids /\ busy' \subseteq Ids /\ sending' \subseteq Ids \X Nat
        /\ quarantined' \subseteq Ids /\ secret' \subseteq Ids /\ reservations' \subseteq Ids
    BY <1>0, CloseAllUse
  <2>2. cancelled' \subseteq Ids /\ outdated' \subseteq Ids /\ UNCHANGED <<owner, service, failures>>
    BY DEF Retire, Opening, SessionsInv, TypeOK
  <2> QED BY <2>1, <2>2 DEF SessionsInv, TypeOK
<1>2. \A i \in Ids : stage'[i] = IF i \in gone THEN "closing" ELSE stage[i]
  BY <1>0 DEF CloseAll
<1>3. OpeningInv'
  BY <1>0, <1>2 DEF SessionsInv, TypeOK, OpeningInv, Retire, Opening, Usable, Closing
<1>4. PublishedIsCurrent'
  <2>1. Usable' \cap outdated' = {}
    BY <1>2 DEF SessionsInv, PublishedIsCurrent, Retire, Usable
  <2>2. ASSUME NEW i \in Usable', service'[i][1] # Own PROVE registered'[service'[i][1]] # 0
    <3>1. i \in Usable /\ i \notin selected /\ service'[i] = service[i]
      BY <1>2 DEF Usable, Retire
    <3>2. service[i][1] \in Services /\ i \in Of(service[i][1])
      BY <2>2, <3>1 DEF SessionsInv, TypeOK, Of, Usable
    <3> QED BY <2>2, <3>1, <3>2 DEF SessionsInv, PublishedIsCurrent
  <2> QED BY <2>1, <2>2 DEF PublishedIsCurrent
<1>5. Running' = Running
  BY <1>0, <1>2 DEF Running
<1>6. CapacityInv'
  BY <1>0, <1>5, CapacityKept DEF CloseAll, SessionsInv, CapacityInv, Retire
<1> QED BY <1>1, <1>3, <1>4, <1>6 DEF SessionsInv

LEMMA StoppedIsBoolean == SessionsInv => stopped \in BOOLEAN
BY Zenon DEF SessionsInv, TypeOK

LEMMA ChangesKeep ==
    ASSUME SessionsInv, NEW s \in Services, SetService(s) \/ RemoveService(s)
    PROVE  SessionsInv'
<1>1. Of(s) \in SUBSET Ids /\ Retire(Of(s))
  BY Zenon DEF SetService, RemoveService, Of
<1>4. changes' \in Nat /\ registered' \in [Services -> Nat]
  <2>1. changes \in Nat /\ registered \in [Services -> Nat]
    BY DEF SessionsInv, TypeOK
  <2>2. changes' = changes + 1 /\ \E n \in {0, changes + 1} : registered' = [registered EXCEPT ![s] = n]
    BY DEF SetService, RemoveService
  <2> QED BY <2>1, <2>2
<1>3. stopped' \in BOOLEAN
  <2>1. stopped' = stopped
    BY DEF SetService, RemoveService
  <2> QED BY <2>1, StoppedIsBoolean
<1>2. \A t \in Services : t # s => registered'[t] = registered[t]
  BY DEF SetService, RemoveService, SessionsInv, TypeOK
<1> QED BY <1>1, <1>2, <1>3, <1>4, RetireKeeps

LEMMA RevocationKeeps ==
    ASSUME SessionsInv, Close \/ \E r \in Requesters : CloseRequester(r)
    PROVE  SessionsInv'
<1>1. PICK selected \in SUBSET Ids : Retire(selected)
  BY DEF Close, CloseRequester
<1>2. changes' \in Nat /\ registered' = registered
  <2>1. changes \in Nat
    BY DEF SessionsInv, TypeOK
  <2>2. (changes' = changes \/ changes' = changes + 1) /\ registered' = registered
    BY Zenon DEF Close, CloseRequester
  <2> QED BY <2>1, <2>2
<1>3. stopped' \in BOOLEAN
  <2>1. CASE Close
    BY <2>1, Zenon DEF Close
  <2>2. CASE \E r \in Requesters : CloseRequester(r)
    <3>1. stopped' = stopped
      BY <2>2 DEF CloseRequester
    <3> QED BY <3>1, StoppedIsBoolean
  <2> QED BY <2>1, <2>2
<1> QED BY <1>1, <1>2, <1>3, RetireKeeps DEF SessionsInv, TypeOK

LEMMA ReapKeeps ==
    ASSUME SessionsInv, Reap
    PROVE  SessionsInv'
<1>1. PICK idle \in SUBSET {i \in Ids : Free(i)} : CloseAll(idle \cup Closing)
  BY DEF Reap
<1>2. idle \cup Closing \in SUBSET Ids /\ \A i \in idle \cup Closing : stage[i] # "none"
  BY DEF Free, Usable, Closing
<1> QED BY <1>1, <1>2, CloseAllKeeps DEF Reap

LEMMA SessionCloseKeeps ==
    ASSUME SessionsInv, NEW i \in Ids, OpenFails(i) \/ CloseSession(i)
    PROVE  SessionsInv'
<1>1. CloseAll({i}) /\ stage[i] # "none"
      /\ UNCHANGED <<registry, owner, service, cancelled, outdated, failures>>
  BY DEF OpenFails, CloseSession, Free, Usable
<1> QED BY <1>1, CloseAllKeeps

\* A browser that is closed gives its reservation back.
LEMMA GiveBackKeeps ==
    ASSUME SessionsInv, NEW i \in Ids, Closed(i) \/ LaunchFails(i)
    PROVE  SessionsInv'
<1>1. GiveBack(i) /\ leases' \in [Ids -> Nat]
      /\ UNCHANGED <<registry, operation, lease, takeover, busy, sending, quarantined, secret, failures>>
  BY DEF Closed, LaunchFails, use, SessionsInv, TypeOK
<1>2. TypeOK' /\ UseInv'
  BY <1>1 DEF GiveBack, SessionsInv, TypeOK, UseInv, registry
<1>3. OpeningInv' /\ PublishedIsCurrent'
  BY <1>1 DEF GiveBack, SessionsInv, TypeOK, OpeningInv, PublishedIsCurrent, Opening, Usable, registry
<1>4. Running' = Running \ {i} /\ reservations' = reservations \ {i}
  BY <1>1 DEF GiveBack, Running, SessionsInv, TypeOK
<1>5. CapacityInv'
  <2>1. reservations' = Running' /\ reservations' \subseteq reservations
    BY <1>4 DEF SessionsInv, CapacityInv
  <2>2. \A j \in reservations' : owner'[j] = owner[j]
    BY <1>1, <1>4 DEF GiveBack, SessionsInv, TypeOK
  <2> QED BY <2>1, <2>2, CapacityKept
<1> QED BY <1>2, <1>3, <1>5 DEF SessionsInv

-----------------------------------------------------------------------------
(* Opening.                                                                 *)

\* A browser that is opened is one more, of one requester, where the limits have room.
LEMMA OpenKeeps ==
    ASSUME SessionsInv, NEW i \in Ids, NEW r \in Requesters, NEW s \in Services \cup {Own}, Open(i, r, s)
    PROVE  SessionsInv'
<1>1. TypeOK'
  BY DEF Open, SessionsInv, TypeOK, registry, use
<1>2. UseInv'
  BY DEF Open, SessionsInv, UseInv, use
<1>3. OpeningInv' /\ PublishedIsCurrent'
  <2>1. i \notin outdated /\ i \notin Usable' /\ Usable' = Usable
    BY DEF Open, SessionsInv, OpeningInv, TypeOK, Usable
  <2>2. \A j \in Ids : j # i => service'[j] = service[j] /\ stage'[j] = stage[j]
    BY DEF Open, SessionsInv, TypeOK
  <2>3. service'[i][1] # Own => service'[i][2] # 0
    BY DEF Open, SessionsInv, TypeOK
  <2>4. stage'[i] = "launching"
    BY DEF Open, SessionsInv, TypeOK
  <2> QED BY <2>1, <2>2, <2>3, <2>4 DEF Open, SessionsInv, TypeOK, OpeningInv, PublishedIsCurrent, Opening, Usable, registry
<1>4. CapacityInv'
  <2>1. reservations \in SUBSET Ids /\ i \notin reservations /\ reservations' = reservations \cup {i}
    BY DEF Open, SessionsInv, TypeOK
  <2>2. reservations' = Running'
    BY <2>1 DEF Open, SessionsInv, TypeOK, CapacityInv, Running
  <2>3. Cardinality(reservations') <= MaxSessions
    <3>1. IsFiniteSet(reservations) /\ Cardinality(reservations) \in Nat
      BY <2>1, FS_Subset, FS_CardinalityType, SessionsAssumption
    <3>2. Cardinality(reservations') = Cardinality(reservations) + 1
      BY <2>1, <3>1, FS_AddElement
    <3> QED BY <3>1, <3>2, SessionsAssumption DEF Open, Full
  <2>4. ASSUME NEW q \in Requesters PROVE Cardinality(Held(q)') <= MaxPerRequester
    <3>1. Held(q) \in SUBSET Ids /\ i \notin Held(q)
      BY <2>1 DEF Held
    <3>2. IsFiniteSet(Held(q)) /\ Cardinality(Held(q)) \in Nat
      BY <3>1, FS_Subset, FS_CardinalityType, SessionsAssumption
    <3>3. Held(q)' = IF q = r THEN Held(q) \cup {i} ELSE Held(q)
      BY <2>1 DEF Held, Open, SessionsInv, TypeOK
    <3>4. CASE q = r
      <4>1. Cardinality(Held(q)') = Cardinality(Held(q)) + 1
        BY <3>1, <3>2, <3>3, <3>4, FS_AddElement
      <4>2. ~(Cardinality(Held(q)) >= MaxPerRequester)
        BY <3>4 DEF Open, Full, Held
      <4> QED BY <3>2, <4>1, <4>2, SessionsAssumption
    <3>5. CASE q # r
      BY <3>3, <3>5 DEF SessionsInv, CapacityInv
    <3> QED BY <3>4, <3>5
  <2> QED BY <2>2, <2>3, <2>4 DEF CapacityInv
<1> QED BY <1>1, <1>2, <1>3, <1>4 DEF SessionsInv

\* What the opening of a browser does between its reservation and its end.
LEMMA OpeningKeeps ==
    ASSUME SessionsInv, NEW i \in Ids, Launched(i) \/ Publish(i) \/ CloseFails(i)
    PROVE  SessionsInv'
<1>1. /\ \A j \in Ids : j # i => stage'[j] = stage[j]
      /\ stage[i] # "none" /\ stage'[i] # "none"
      /\ stage' \in [Ids -> {"none", "launching", "starting", "open", "closing", "unclosed"}]
      /\ failures' \in Nat
      /\ UNCHANGED <<registry, reservations, owner, service, cancelled, outdated, use>>
  BY DEF Launched, Publish, CloseFails, SessionsInv, TypeOK
<1>2. TypeOK' /\ UseInv'
  <2>1. TypeOK'
    BY <1>1 DEF SessionsInv, TypeOK, registry, use
  <2>2. UseInv'
    BY <1>1 DEF SessionsInv, UseInv, use
  <2> QED BY <2>1, <2>2
<1>3. OpeningInv'
  BY <1>1 DEF Launched, Publish, CloseFails, SessionsInv, TypeOK, OpeningInv, Opening
<1>4. PublishedIsCurrent'
  <2>1. CASE Publish(i)
    <3>1. i \notin outdated /\ (service[i][1] # Own => registered[service[i][1]] # 0)
      BY <2>1 DEF Publish, Current, SessionsInv, OpeningInv, Opening
    <3>2. Usable' = Usable \cup {i}
      BY <2>1, <1>1 DEF Publish, Usable, SessionsInv, TypeOK
    <3> QED BY <1>1, <3>1, <3>2 DEF SessionsInv, PublishedIsCurrent, registry
  <2>2. CASE ~Publish(i)
    <3>1. Usable' = Usable
      BY <2>2, <1>1 DEF Launched, CloseFails, Usable, SessionsInv, TypeOK
    <3> QED BY <1>1, <3>1 DEF SessionsInv, PublishedIsCurrent, registry
  <2> QED BY <2>1, <2>2
<1>5. CapacityInv'
  <2>1. Running' = Running
    BY <1>1 DEF Running
  <2> QED BY <1>1, <2>1, CapacityKept DEF SessionsInv, CapacityInv
<1> QED BY <1>2, <1>3, <1>4, <1>5 DEF SessionsInv

-----------------------------------------------------------------------------
(* The uses of a session.                                                   *)

\* What leaves the browsers and the enrollments alone keeps all but the uses.
LEMMA UseOnly ==
    ASSUME SessionsInv, UNCHANGED <<registry, browser, failures>>
    PROVE  OpeningInv' /\ PublishedIsCurrent' /\ CapacityInv'
<1>1. OpeningInv' /\ PublishedIsCurrent'
  BY DEF SessionsInv, OpeningInv, PublishedIsCurrent, Opening, Usable, registry, browser
<1>2. Running' = Running /\ UNCHANGED <<reservations, owner>>
  BY DEF Running, browser
<1> QED BY <1>1, <1>2, CapacityKept DEF SessionsInv, CapacityInv

LEMMA AgentKeeps ==
    ASSUME SessionsInv, NEW i \in Ids, BeginOperation(i) \/ EndOperation(i) \/ Crashed(i)
    PROVE  SessionsInv'
<1>1. UNCHANGED <<registry, browser, failures>>
  BY DEF BeginOperation, EndOperation, Crashed
<1>2. TypeOK'
  BY <1>1 DEF BeginOperation, EndOperation, Crashed, SessionsInv, TypeOK, registry, browser, Usable
<1>3. UseInv'
  BY DEF BeginOperation, EndOperation, Crashed, SessionsInv, TypeOK, UseInv, Free, Usable
<1> QED BY <1>1, <1>2, <1>3, UseOnly DEF SessionsInv

\* A discovery session gets its service together with the object that is registered.
LEMMA BindKeeps ==
    ASSUME SessionsInv, NEW i \in Ids, NEW s \in Services, Bind(i, s)
    PROVE  SessionsInv'
<1>1. TypeOK'
  BY DEF Bind, SessionsInv, TypeOK
<1>2. UseInv'
  BY DEF Bind, SessionsInv, TypeOK, UseInv
<1>3. OpeningInv'
  BY DEF Bind, SessionsInv, TypeOK, OpeningInv, Opening
<1>4. PublishedIsCurrent'
  BY DEF Bind, SessionsInv, TypeOK, PublishedIsCurrent, Usable
<1>5. CapacityInv'
  <2>1. Running' = Running /\ UNCHANGED <<reservations, owner>>
    BY DEF Running, Bind
  <2> QED BY <2>1, CapacityKept DEF SessionsInv, CapacityInv
<1> QED BY <1>1, <1>2, <1>3, <1>4, <1>5 DEF SessionsInv

\* A lease begins, types and ends: what it typed is in quarantine before it is in the
\* page, and leaves the page before the quarantine ends.
LEMMA LeaseKeeps ==
    ASSUME SessionsInv, NEW i \in Ids,
           \/ BeginAuthentication(i) \/ StartTakeover(i) \/ BeginTyping(i)
           \/ \E l \in 1..MaxLeases : Type(i, l)
           \/ Expire(i) \/ Confirm(i) \/ Unconfirmed(i)
    PROVE  SessionsInv'
<1>1. CASE BeginAuthentication(i) \/ StartTakeover(i)
  <2>1. UNCHANGED <<registry, browser, failures>>
    BY <1>1 DEF BeginAuthentication, StartTakeover
  <2>2. TypeOK'
    BY <1>1, <2>1 DEF BeginAuthentication, StartTakeover, NewLease, SessionsInv, TypeOK, registry, browser
  <2>3. UseInv'
    BY <1>1 DEF BeginAuthentication, StartTakeover, NewLease, Free, SessionsInv, TypeOK, UseInv
  <2> QED BY <2>1, <2>2, <2>3, UseOnly DEF SessionsInv
<1>2. CASE BeginTyping(i)
  <2>1. UNCHANGED <<registry, browser, failures>>
    BY <1>2 DEF BeginTyping
  <2>2. TypeOK'
    BY <1>2, <2>1 DEF BeginTyping, SessionsInv, TypeOK, registry, browser
  <2>3. UseInv'
    BY <1>2 DEF BeginTyping, SessionsInv, UseInv
  <2> QED BY <2>1, <2>2, <2>3, UseOnly DEF SessionsInv
<1>3. ASSUME NEW l \in 1..MaxLeases, Type(i, l) PROVE SessionsInv'
  <2>1. UNCHANGED <<registry, browser, failures>>
    BY <1>3 DEF Type
  <2>2. TypeOK'
    BY <1>3, <2>1 DEF Type, SessionsInv, TypeOK, registry, browser
  <2>3. UseInv'
    BY <1>3 DEF Type, MaySend, SessionsInv, TypeOK, UseInv
  <2> QED BY <2>1, <2>2, <2>3, UseOnly DEF SessionsInv
<1>4. CASE Expire(i) \/ Confirm(i) \/ Unconfirmed(i)
  <2>1. UNCHANGED <<registry, browser, failures>>
    BY <1>4 DEF Expire, Confirm, Unconfirmed
  <2>2. TypeOK'
    BY <1>4, <2>1 DEF Expire, Confirm, Unconfirmed, ReleaseLease, SessionsInv, TypeOK, registry, browser
  <2>3. UseInv'
    BY <1>4 DEF Expire, Confirm, Unconfirmed, ReleaseLease, SessionsInv, TypeOK, UseInv
  <2> QED BY <2>1, <2>2, <2>3, UseOnly DEF SessionsInv
<1> QED BY <1>1, <1>2, <1>3, <1>4

-----------------------------------------------------------------------------
LEMMA SessionsStep == SessionsInv /\ [Next]_vars => SessionsInv'
<1> SUFFICES ASSUME SessionsInv, [Next]_vars PROVE SessionsInv'
  OBVIOUS
<1>1. ASSUME NEW s \in Services, SetService(s) \/ RemoveService(s) PROVE SessionsInv'
  BY <1>1, ChangesKeep
<1>2. CASE Close \/ \E r \in Requesters : CloseRequester(r)
  BY <1>2, RevocationKeeps
<1>3. CASE Reap
  BY <1>3, ReapKeeps
<1>4. ASSUME NEW i \in Ids, OpenFails(i) \/ CloseSession(i) PROVE SessionsInv'
  BY <1>4, SessionCloseKeeps
<1>5. ASSUME NEW i \in Ids, Closed(i) \/ LaunchFails(i) PROVE SessionsInv'
  BY <1>5, GiveBackKeeps
<1>6. ASSUME NEW i \in Ids, NEW r \in Requesters, NEW s \in Services \cup {Own}, Open(i, r, s)
      PROVE  SessionsInv'
  BY <1>6, OpenKeeps
<1>7. ASSUME NEW i \in Ids, Launched(i) \/ Publish(i) \/ CloseFails(i) PROVE SessionsInv'
  BY <1>7, OpeningKeeps
<1>8. ASSUME NEW i \in Ids, BeginOperation(i) \/ EndOperation(i) \/ Crashed(i) PROVE SessionsInv'
  BY <1>8, AgentKeeps
<1>9. ASSUME NEW i \in Ids, NEW s \in Services, Bind(i, s) PROVE SessionsInv'
  BY <1>9, BindKeeps
<1>10. ASSUME NEW i \in Ids,
              \/ BeginAuthentication(i) \/ StartTakeover(i) \/ BeginTyping(i)
              \/ \E l \in 1..MaxLeases : Type(i, l)
              \/ Expire(i) \/ Confirm(i) \/ Unconfirmed(i)
       PROVE  SessionsInv'
  BY <1>10, LeaseKeeps
<1>11. CASE UNCHANGED vars
  <2>1. UNCHANGED <<registry, browser, failures>> /\ UNCHANGED use
    BY <1>11 DEF vars
  <2>2. TypeOK'
    BY <2>1 DEF SessionsInv, TypeOK, registry, browser, use
  <2>3. UseInv'
    BY <2>1 DEF SessionsInv, UseInv, use
  <2> QED BY <2>1, <2>2, <2>3, UseOnly DEF SessionsInv
<1> QED BY <1>1, <1>2, <1>3, <1>4, <1>5, <1>6, <1>7, <1>8, <1>9, <1>10, <1>11 DEF Next

\* The invariant above holds throughout.
THEOREM Invariance == Spec => []SessionsInv
BY SessionsInit, SessionsStep, PTL DEF Spec

\* The controller's state keeps its types.
THEOREM SessionsTypeCorrect == Spec => []TypeOK
<1>1. SessionsInv => TypeOK
  BY DEF SessionsInv
<1> QED BY <1>1, Invariance, PTL

\* However many steps the opening of a browser takes, none is published after its
\* service, its requester or the controller was retired (controller.js:57).
THEOREM OnlyCurrentPublished == Spec => []PublishedIsCurrent
<1>1. SessionsInv => PublishedIsCurrent
  BY DEF SessionsInv
<1> QED BY <1>1, Invariance, PTL

\* What a lease typed and nobody confirmed stays out of the agent's reach, however the
\* lease was lost (controller.js:398).
THEOREM QuarantineStays == Spec => []QuarantineHolds
<1>1. SessionsInv => QuarantineHolds
  BY DEF SessionsInv, UseInv, QuarantineHolds
<1> QED BY <1>1, Invariance, PTL

\* No more browsers run than the limits allow, with those that open, that close and that
\* could not be closed (controller.js:371).
THEOREM CapacityHolds == Spec => []WithinCapacity
<1>1. SessionsInv => WithinCapacity
  <2> SUFFICES ASSUME SessionsInv PROVE WithinCapacity
    OBVIOUS
  <2>1. reservations = Running /\ Cardinality(reservations) <= MaxSessions
    BY DEF SessionsInv, CapacityInv
  <2>2. ASSUME NEW r \in Requesters
        PROVE  Cardinality({i \in Running : owner[i] = r}) <= MaxPerRequester
    <3>1. Held(r) = {i \in Running : owner[i] = r}
      BY <2>1 DEF Held
    <3> QED BY <3>1 DEF SessionsInv, CapacityInv
  <2> QED BY <2>1, <2>2 DEF WithinCapacity
<1> QED BY <1>1, Invariance, PTL

-----------------------------------------------------------------------------
(* The receiver of passkeys (PasskeyReceiver).                              *)

\* A call of prepareProfile that went in and is not over.
Busy == {"making", "starting", "failing", "unwinding"}

\* One call is in, and while it makes its bridge nothing is active or released.
CallInv ==
    /\ \A e \in Sessions : call[e] \in Busy => preparing
    /\ \A e, f \in Sessions : call[e] \in Busy /\ call[f] \in Busy => e = f
    /\ \A e \in Sessions : call[e] = "making" => active = Receiver!None /\ releasing = Receiver!None

\* One session at a time is released, and none while one is active.
ReleaseInv ==
    /\ \A e \in Sessions : cleanup[e] # "none" <=> releasing = e
    /\ active # Receiver!None => releasing = Receiver!None
    /\ \A e \in Sessions : cleanup[e] = "closing" => starting[e] = "no"

\* A browser belongs to the active session or to the one that is released, and where there
\* is one, none is being launched.
StartInv ==
    /\ \A e \in Sessions :
         receiver[e] = "running" \/ starting[e] # "no" => active = e \/ cleanup[e] # "none"
    /\ \A e \in Sessions :
         starting[e] \in {"launching", "discarding"} => receiver[e] # "running"
    /\ \A e \in ready : active = e /\ starting[e] = "no"

ReceiverInv == Receiver!TypeOK /\ CallInv /\ ReleaseInv /\ StartInv

-----------------------------------------------------------------------------
LEMMA ReceiverInit == Receiver!Init => ReceiverInv
<1> SUFFICES ASSUME Receiver!Init PROVE ReceiverInv
  OBVIOUS
<1>1. Receiver!TypeOK
  BY DEF Receiver!Init, Receiver!TypeOK
<1>2. CallInv /\ StartInv
  BY DEF Receiver!Init, CallInv, StartInv, Busy
<1>3. ReleaseInv
  BY ReceiverAssumption DEF Receiver!Init, ReleaseInv, Receiver!None
<1> QED BY <1>1, <1>2, <1>3 DEF ReceiverInv

\* releaseSession of the active session.
LEMMA BeginReleaseKeeps ==
    ASSUME ReceiverInv, NEW e \in Sessions, active = e, Receiver!BeginRelease(e),
           UNCHANGED <<preparing, starting, receiver>>, closed' \in BOOLEAN,
           losses' \in Nat, faults' \in Nat,
           \/ UNCHANGED call
           \/ \E f \in Sessions : call[f] = "failing" /\ call' = [call EXCEPT ![f] = "unwinding"]
    PROVE  ReceiverInv'
<1> USE DEF ReceiverInv
<1>1. active # Receiver!None /\ releasing = Receiver!None
  BY ReceiverAssumption DEF ReleaseInv, Receiver!None
<1>2. \A f \in Sessions : cleanup[f] = "none"
  BY <1>1, ReceiverAssumption DEF ReleaseInv, Receiver!None
<1>3. \A f \in Sessions : cleanup'[f] = IF f = e THEN "waiting" ELSE "none"
  BY <1>2 DEF Receiver!BeginRelease, Receiver!TypeOK
<1>4. /\ \A f \in Sessions : call'[f] \in Busy <=> call[f] \in Busy
      /\ \A f \in Sessions : call'[f] # "making"
  BY <1>1 DEF CallInv, Receiver!TypeOK, Busy
<1>5. Receiver!TypeOK'
  BY DEF Receiver!BeginRelease, Receiver!TypeOK
<1>6. CallInv'
  BY <1>4 DEF CallInv
<1>7. ReleaseInv'
  BY <1>3 DEF ReleaseInv, Receiver!BeginRelease
<1>8. StartInv'
  BY <1>2, <1>3 DEF StartInv, Receiver!BeginRelease
<1> QED BY <1>5, <1>6, <1>7, <1>8

LEMMA ReleaseKeeps ==
    ASSUME ReceiverInv, NEW e \in Sessions,
           Receiver!Release(e) \/ Receiver!Fail(e) \/ Receiver!Close
    PROVE  ReceiverInv'
<1>1. CASE Receiver!Release(e)
  <2>1. closed' \in BOOLEAN /\ losses' \in Nat /\ faults' \in Nat
    BY <1>1 DEF Receiver!Release, ReceiverInv, Receiver!TypeOK
  <2>2. /\ active = e /\ Receiver!BeginRelease(e)
        /\ UNCHANGED <<preparing, starting, receiver>> /\ UNCHANGED call
    BY <1>1 DEF Receiver!Release
  <2> QED BY <2>1, <2>2, BeginReleaseKeeps
<1>2. CASE Receiver!Fail(e) /\ active = e
  BY <1>2, BeginReleaseKeeps DEF Receiver!Fail, Receiver!Called, ReceiverInv, Receiver!TypeOK
<1>3. CASE Receiver!Fail(e) /\ active # e
  BY <1>3 DEF Receiver!Fail, Receiver!Called, ReceiverInv, Receiver!TypeOK, CallInv, ReleaseInv,
              StartInv, Busy
<1>4. CASE Receiver!Close /\ active # Receiver!None
  <2>1. active \in Sessions
    BY <1>4 DEF ReceiverInv, Receiver!TypeOK
  <2>2. closed' \in BOOLEAN /\ losses' \in Nat /\ faults' \in Nat
    BY <1>4 DEF Receiver!Close, ReceiverInv, Receiver!TypeOK
  <2>3. /\ Receiver!BeginRelease(active)
        /\ UNCHANGED <<preparing, starting, receiver>> /\ UNCHANGED call
    BY <1>4 DEF Receiver!Close
  <2> QED BY <2>1, <2>2, <2>3, BeginReleaseKeeps
<1>5. CASE Receiver!Close /\ active = Receiver!None
  <2>1. UNCHANGED <<active, releasing, ready, cleanup, call, preparing, starting, receiver,
                    losses, faults>> /\ closed' = TRUE
    BY <1>5 DEF Receiver!Close
  <2> QED BY <2>1 DEF ReceiverInv, Receiver!TypeOK, CallInv, ReleaseInv, StartInv
<1> QED BY <1>1, <1>2, <1>3, <1>4, <1>5

LEMMA CloseReceiverKeeps ==
    ASSUME ReceiverInv, NEW e \in Sessions, Receiver!CloseReceiver(e)
    PROVE  ReceiverInv'
BY DEF Receiver!CloseReceiver, Receiver!StartIsOver, ReceiverInv, Receiver!TypeOK, CallInv,
       ReleaseInv, StartInv

\* Whoever waited for the release may go in: nothing is active and nothing is released.
LEMMA ReleasedKeeps ==
    ASSUME ReceiverInv, NEW e \in Sessions, Receiver!Released(e)
    PROVE  ReceiverInv'
<1> USE DEF ReceiverInv
<1>1. releasing = e /\ releasing' = Receiver!None /\ starting[e] = "no" /\ active = Receiver!None
  <2>1. Receiver!None \notin Sessions
    BY ReceiverAssumption DEF Receiver!None
  <2> QED BY <2>1 DEF Receiver!Released, ReleaseInv
<1>2. \A f \in Sessions : cleanup[f] # "none" <=> f = e
  BY <1>1 DEF ReleaseInv
<1>3. /\ \A f \in Sessions : cleanup'[f] = "none"
      /\ \A f \in Sessions : receiver'[f] = IF f = e THEN "none" ELSE receiver[f]
      /\ UNCHANGED <<active, closed, starting, ready, losses>> /\ faults' \in Nat
      /\ cleanup' \in [Sessions -> {"none", "waiting", "closing"}]
      /\ receiver' \in [Sessions -> {"none", "running", "gone"}]
  <2>1. /\ cleanup' = [cleanup EXCEPT ![e] = "none"]
        /\ receiver' = [receiver EXCEPT ![e] = "none"]
        /\ UNCHANGED <<active, closed, starting, ready, losses>>
        /\ faults' = faults \/ faults' = faults + 1
    BY DEF Receiver!Released
  <2>2. faults' \in Nat
    BY <2>1 DEF Receiver!TypeOK
  <2>3. \A f \in Sessions : cleanup'[f] = "none"
    BY <1>2, <2>1 DEF Receiver!TypeOK
  <2> QED BY <2>1, <2>2, <2>3 DEF Receiver!TypeOK
<1>4. Receiver!Resume(e, TRUE) \/ Receiver!Resume(e, FALSE)
  BY DEF Receiver!Released
<1>5. \/ /\ UNCHANGED preparing
         /\ call' = [w \in Sessions |-> IF call[w] # e THEN call[w]
                                       ELSE IF w = Receiver!None THEN "making" ELSE "done"]
      \/ /\ preparing' = TRUE /\ ~preparing
         /\ \E first \in Sessions :
              call' = [w \in Sessions |-> IF call[w] # e THEN call[w]
                                         ELSE IF w = first THEN "making" ELSE "done"]
  BY <1>4 DEF Receiver!Resume, Receiver!Eligible
<1>6. Receiver!TypeOK'
  BY <1>1, <1>3, <1>5 DEF Receiver!TypeOK
<1>7. CallInv'
  <2>1. Receiver!None \notin Sessions /\ e \notin Busy
    BY ReceiverAssumption DEF Receiver!None, Busy
  <2>2. CASE UNCHANGED preparing
    <3>1. \A w \in Sessions : call'[w] = call[w] \/ call'[w] \notin Busy
      BY <1>5, <2>1, <2>2 DEF CallInv, Busy
    <3> QED BY <1>1, <1>3, <2>2, <3>1 DEF CallInv, Busy
  <2>3. CASE preparing' = TRUE /\ ~preparing
    <3>1. PICK first \in Sessions :
              call' = [w \in Sessions |-> IF call[w] # e THEN call[w]
                                         ELSE IF w = first THEN "making" ELSE "done"]
      BY <1>5, <2>3
    <3>2. \A w \in Sessions : call'[w] \in Busy => w = first
      BY <2>3, <3>1 DEF CallInv, Busy
    <3> QED BY <1>1, <1>3, <2>3, <3>2 DEF CallInv
  <2> QED BY <1>5, <2>2, <2>3
<1>8. ReleaseInv'
  BY <1>1, <1>3, ReceiverAssumption DEF ReleaseInv, Receiver!None
<1>9. StartInv'
  BY <1>1, <1>2, <1>3 DEF StartInv
<1> QED BY <1>6, <1>7, <1>8, <1>9

\* A start that is over takes nothing with it.
LEMMA StartOver ==
    ASSUME ReceiverInv, NEW e \in Sessions, Receiver!StartThrows(e),
           UNCHANGED <<active, preparing, closed, releasing, cleanup, ready, losses, receiver>>,
           faults' \in Nat
    PROVE  ReceiverInv'
<1> USE DEF ReceiverInv, Receiver!StartThrows, Receiver!Started, Receiver!Called
<1>1. Receiver!TypeOK'
  BY DEF Receiver!TypeOK
<1>2. \A f \in Sessions : (call'[f] \in Busy <=> call[f] \in Busy)
                        /\ (call'[f] = "making" => call[f] = "making")
  BY DEF Receiver!TypeOK, Busy
<1>3. CallInv'
  BY <1>2 DEF CallInv
<1>4. \A f \in Sessions : starting'[f] = IF f = e THEN "no" ELSE starting[f]
  BY DEF Receiver!TypeOK
<1>5. ReleaseInv' /\ StartInv'
  BY <1>4 DEF ReleaseInv, StartInv
<1> QED BY <1>1, <1>3, <1>5

LEMMA StartKeeps ==
    ASSUME ReceiverInv, NEW e \in Sessions,
           \/ Receiver!Ensure(e) \/ Receiver!OldClosed(e) \/ Receiver!LaunchFails(e)
           \/ Receiver!Launched(e) \/ Receiver!Discarded(e) \/ Receiver!Connected(e)
    PROVE  ReceiverInv'
<1>1. CASE Receiver!Ensure(e)
  <2>1. starting' = [starting EXCEPT ![e] = Receiver!FirstStep(e)] /\ active = e
    BY <1>1 DEF Receiver!Ensure, Receiver!Started
  <2>2. cleanup[e] = "none"
    BY <2>1, ReceiverAssumption DEF ReceiverInv, ReleaseInv, Receiver!None
  <2> QED BY <1>1, <2>1, <2>2
       DEF Receiver!Ensure, Receiver!FirstStep, ReceiverInv, Receiver!TypeOK, CallInv,
           ReleaseInv, StartInv
<1>2. CASE Receiver!OldClosed(e)
  <2>1. CASE Receiver!StartThrows(e) /\ UNCHANGED receiver
    BY <1>2, <2>1, StartOver DEF Receiver!OldClosed, ReceiverInv, Receiver!TypeOK
  <2>2. CASE Receiver!Started(e, "launching") /\ receiver' = [receiver EXCEPT ![e] = "none"]
             /\ UNCHANGED <<call, faults>>
    BY <1>2, <2>2 DEF Receiver!OldClosed, Receiver!Started, ReceiverInv, Receiver!TypeOK,
                      CallInv, ReleaseInv, StartInv
  <2> QED BY <1>2, <2>1, <2>2 DEF Receiver!OldClosed
<1>3. CASE Receiver!LaunchFails(e) \/ Receiver!Discarded(e)
  BY <1>3, StartOver DEF Receiver!LaunchFails, Receiver!Discarded, ReceiverInv, Receiver!TypeOK
<1>4. CASE Receiver!Launched(e)
  BY <1>4 DEF Receiver!Launched, Receiver!Started, ReceiverInv, Receiver!TypeOK, CallInv,
              ReleaseInv, StartInv
<1>5. CASE Receiver!Connected(e)
  <2>1. CASE Receiver!StartThrows(e) /\ UNCHANGED <<ready, preparing>>
    BY <1>5, <2>1, StartOver DEF Receiver!Connected, ReceiverInv, Receiver!TypeOK
  <2>2. CASE /\ active = e /\ Receiver!Started(e, "no") /\ ready' = ready \cup {e}
             /\ IF call[e] = "starting" THEN Receiver!Called(e, "done") /\ preparing' = FALSE
                                        ELSE UNCHANGED <<call, preparing>>
    <3>1. CallInv'
      BY <1>5, <2>2 DEF Receiver!Connected, Receiver!Called, ReceiverInv, Receiver!TypeOK,
                        CallInv, Busy
    <3>2. Receiver!TypeOK'
      BY <1>5, <2>2 DEF Receiver!Connected, Receiver!Called, Receiver!Started, ReceiverInv,
                        Receiver!TypeOK
    <3>3. ReleaseInv' /\ StartInv'
      BY <1>5, <2>2 DEF Receiver!Connected, Receiver!Started, ReceiverInv, Receiver!TypeOK,
                        ReleaseInv, StartInv
    <3> QED BY <3>1, <3>2, <3>3 DEF ReceiverInv
  <2> QED BY <1>5, <2>1, <2>2 DEF Receiver!Connected
<1> QED BY <1>1, <1>2, <1>3, <1>4, <1>5

LEMMA LostKeeps ==
    ASSUME ReceiverInv, NEW e \in Sessions, Receiver!Lost(e)
    PROVE  ReceiverInv'
BY DEF Receiver!Lost, ReceiverInv, Receiver!TypeOK, CallInv, ReleaseInv, StartInv

LEMMA PrepareKeeps ==
    ASSUME ReceiverInv, NEW e \in Sessions, Receiver!Prepare(e)
    PROVE  ReceiverInv'
<1> USE DEF ReceiverInv, Receiver!Prepare, Receiver!Enter, Receiver!Called
<1>1. Receiver!TypeOK'
  BY DEF Receiver!TypeOK
<1>2. ReleaseInv' /\ StartInv'
  BY DEF ReleaseInv, StartInv
<1>3. releasing # Receiver!None => releasing \notin Busy \cup {"done"}
  BY ReceiverAssumption DEF Receiver!TypeOK, Receiver!None, Busy
<1>4. \A f \in Sessions : call'[f] \in Busy =>
        \/ f # e /\ call'[f] = call[f]
        \/ f = e /\ Receiver!Eligible /\ releasing = Receiver!None /\ preparing' = TRUE
  BY <1>3 DEF Receiver!TypeOK, Busy
<1>5. preparing => preparing'
  BY DEF Receiver!TypeOK
<1>6. CallInv'
  BY <1>4, <1>5 DEF CallInv, Receiver!Eligible, Busy
<1> QED BY <1>1, <1>2, <1>6

LEMMA MadeKeeps ==
    ASSUME ReceiverInv, NEW e \in Sessions, Receiver!Made(e) \/ Receiver!Unwound(e)
    PROVE  ReceiverInv'
<1> USE DEF ReceiverInv, Receiver!Called
<1>1. CASE Receiver!Made(e)
  <2>1. /\ active = Receiver!None /\ releasing = Receiver!None
        /\ \A f \in Sessions : cleanup[f] = "none"
    BY <1>1, ReceiverAssumption DEF Receiver!Made, CallInv, ReleaseInv, Receiver!None
  <2>2. \A f \in Sessions : starting[f] = "no" /\ receiver[f] # "running" /\ f \notin ready
    BY <2>1, ReceiverAssumption DEF StartInv, Receiver!None, Receiver!TypeOK
  <2>3. CASE active' = e /\ call' = [call EXCEPT ![e] = "starting"]
             /\ starting' = [starting EXCEPT ![e] = Receiver!FirstStep(e)]
    <3>1. Receiver!TypeOK'
      BY <1>1, <2>3 DEF Receiver!Made, Receiver!FirstStep, Receiver!TypeOK
    <3>2. CallInv'
      BY <1>1, <2>3 DEF Receiver!Made, Receiver!TypeOK, CallInv, Busy
    <3>3. ReleaseInv' /\ StartInv'
      BY <1>1, <2>1, <2>2, <2>3, ReceiverAssumption
      DEF Receiver!Made, Receiver!TypeOK, ReleaseInv, StartInv, Receiver!None
    <3> QED BY <3>1, <3>2, <3>3
  <2>4. CASE call' = [call EXCEPT ![e] = "failing"] /\ UNCHANGED <<active, starting>>
    BY <1>1, <2>4 DEF Receiver!Made, Receiver!TypeOK, CallInv, Busy, ReleaseInv, StartInv
  <2> QED BY <1>1, <2>3, <2>4 DEF Receiver!Made, Receiver!Started
<1>2. CASE Receiver!Unwound(e)
  BY <1>2 DEF Receiver!Unwound, Receiver!TypeOK, CallInv, Busy, ReleaseInv, StartInv
<1> QED BY <1>1, <1>2

LEMMA ReceiverStep ==
    ASSUME ReceiverInv, [Receiver!Next]_(Receiver!vars)
    PROVE  ReceiverInv'
<1>1. CASE UNCHANGED Receiver!vars
  BY <1>1 DEF Receiver!vars, ReceiverInv, Receiver!TypeOK, CallInv, ReleaseInv, StartInv
<1>2. CASE Receiver!Close
  <2>1. CASE active = Receiver!None
    BY <1>2, <2>1 DEF Receiver!Close, ReceiverInv, Receiver!TypeOK, CallInv, ReleaseInv, StartInv
  <2>2. CASE active # Receiver!None
    BY <1>2, <2>2, ReleaseKeeps DEF ReceiverInv, Receiver!TypeOK
  <2> QED BY <2>1, <2>2
<1> QED
  BY <1>1, <1>2, ReleaseKeeps, CloseReceiverKeeps, ReleasedKeeps, StartKeeps, LostKeeps,
     PrepareKeeps, MadeKeeps
  DEF Receiver!Next

\* The calls, the entries and the browsers keep their types (auth/passkeys/provider.js).
THEOREM ReceiverTypeCorrect == Receiver!Spec => []Receiver!TypeOK
<1>1. ReceiverInv => Receiver!TypeOK
  BY DEF ReceiverInv
<1> QED BY <1>1, ReceiverInit, ReceiverStep, PTL DEF Receiver!Spec

\* However many sessions are prepared, released and lost at a time, one Chrome is on the
\* receiver's profile (auth/passkeys/provider.js).
THEOREM OneChromeOnProfile == Receiver!Spec => []Receiver!OneReceiver
<1>1. ASSUME ReceiverInv PROVE Receiver!OneReceiver
  <2> USE <1>1 DEF ReceiverInv, Receiver!OnProfile
  <2>1. \A e \in Sessions : Receiver!OnProfile(e) => active = e \/ releasing = e
    BY DEF StartInv, ReleaseInv
  <2>2. \A e, f \in Sessions : ~(active = e /\ releasing = f)
    BY ReceiverAssumption DEF ReleaseInv, Receiver!None
  <2>3. \A e \in Sessions : Receiver!OnProfile(e) => active = e \/ cleanup[e] # "none"
    BY DEF StartInv
  <2>4. \A e \in Sessions : receiver[e] = "running" => starting[e] \notin {"launching", "discarding"}
    BY DEF StartInv
  <2>5. \A e, f \in Sessions : Receiver!OnProfile(e) /\ Receiver!OnProfile(f) => e = f
    <3> HIDE DEF Receiver!OnProfile
    <3> QED BY <2>1, <2>2
  <2> QED BY <2>3, <2>4, <2>5 DEF Receiver!OneReceiver
<1> QED BY <1>1, ReceiverInit, ReceiverStep, PTL DEF Receiver!Spec

-----------------------------------------------------------------------------
\* No more browsers than the limits, of all and of each requester, and one on the receiver's
\* profile (auth/browser/controller.js, auth/passkeys/provider.js).
THEOREM LimitsHold == MCSpec => []WithinLimits
<1>1. WithinLimits <=> WithinCapacity /\ Receiver!OneReceiver
  BY DEF WithinLimits
<1> QED BY <1>1, PartsAreFollowed, CapacityHolds, OneChromeOnProfile, PTL
=============================================================================
