--------------------------- MODULE ExecutorProofs ---------------------------
(***************************************************************************)
(* Proofs about what the executor of authentications rests on: the hand-   *)
(* over of sessions, the state file, the callers that wait, the            *)
(* enrollments with their connections, and the catalog of accounts, for    *)
(* every number of processes, cookies, callers, browsers, services,        *)
(* configurations and connections.                                         *)
(*                                                                         *)
(* The parts share no state, so each has an inductive invariant of its     *)
(* own: HandoffInv, FileInv, WaitInv, EnrolInv and CatalogInv.             *)
(***************************************************************************)
EXTENDS MCExecutor, FiniteSetTheorems, SequenceTheorems, TLAPS

-----------------------------------------------------------------------------
(* The hand-over of sessions.                                              *)

\* What every variable holds.
HandoffTypeInv ==
    /\ profile \in BOOLEAN
    /\ imports \in Seq(Accounts)
    /\ pin \in [account : Accounts \cup {"none"}, identities : SUBSET Cookies]
    /\ jar \in [Cookies -> 0..Len(imports)]
    /\ import \in {Handoff!Idle} \cup
           [at : {"set", "delete", "verify", "show"},
            cookies : SUBSET Cookies, possible : SUBSET Cookies]

\* An import under way is the last one, of the account of the pin; until the pin is
\* narrowed to its cookies, it names everything the import may leave or find.
ImportInv ==
    import # Handoff!Idle =>
        /\ Handoff!Number # 0 /\ imports[Handoff!Number] = pin.account
        /\ import.cookies \subseteq pin.identities
        /\ import.at # "show" => import.possible = pin.identities

\* The inductive invariant of the hand-over.
HandoffInv == HandoffTypeInv /\ ImportInv /\ Handoff!PinCovers

\* At the start no cookie is there, and no import is under way.
LEMMA HandoffInit == Handoff!Init => HandoffInv
BY DEF Handoff!Init, HandoffInv, HandoffTypeInv, ImportInv, Handoff!PinCovers, Handoff!NoPin,
       Handoff!Number

\* The pin may only grow, and a profile without one holds no cookie.
LEMMA BeginImportStep ==
    ASSUME HandoffInv, NEW a \in Accounts, NEW cookies \in SUBSET Cookies,
           Handoff!Begin(a, cookies)
    PROVE  HandoffInv'
<1> USE DEF HandoffInv
<1> DEFINE n == Len(imports)
<1>1. /\ imports' \in Seq(Accounts) /\ Len(imports') = n + 1 /\ n \in Nat
      /\ imports'[n + 1] = a
      /\ \A k \in 1..n : imports'[k] = imports[k]
  BY DEF Handoff!Begin, HandoffTypeInv
<1>2. /\ pin' = [account |-> a, identities |-> Handoff!Possible(cookies)]
      /\ import' = [at |-> "set", cookies |-> cookies, possible |-> Handoff!Possible(cookies)]
      /\ jar' = jar /\ profile' = TRUE
      /\ Handoff!Possible(cookies) \in SUBSET Cookies
  BY DEF Handoff!Begin, Handoff!Possible, HandoffTypeInv
<1>3. HandoffTypeInv'
  <2>1. jar' \in [Cookies -> 0..Len(imports')]
    BY <1>1, <1>2 DEF HandoffTypeInv
  <2> QED BY <1>1, <1>2, <2>1 DEF HandoffTypeInv
<1>4. ImportInv'
  BY <1>1, <1>2 DEF ImportInv, Handoff!Number, Handoff!Possible
<1>5. Handoff!PinCovers'
  <2> SUFFICES ASSUME NEW c \in Cookies, jar[c] # 0
               PROVE  c \in pin'.identities /\ imports'[jar[c]] = pin'.account
    BY <1>2 DEF Handoff!PinCovers
  <2>1. c \in pin.identities /\ imports[jar[c]] = pin.account
    BY DEF Handoff!PinCovers
  <2>2. pin # Handoff!NoPin
    BY <2>1 DEF Handoff!NoPin
  <2>3. pin.account = a
    BY <2>2 DEF Handoff!Begin, Handoff!Admitted
  <2>4. jar[c] \in 1..n
    BY DEF HandoffTypeInv
  <2> QED BY <1>1, <1>2, <2>1, <2>3, <2>4 DEF Handoff!Possible
<1> QED BY <1>3, <1>4, <1>5

\* Cookies are set that the pin already names, with the number of the import under way.
LEMMA SetCookiesStep == ASSUME HandoffInv, Handoff!SetCookies PROVE HandoffInv'
<1> USE DEF HandoffInv
<1>1. import # Handoff!Idle /\ import.at = "set"
  BY DEF Handoff!SetCookies, Handoff!Idle
<1>2. PICK done \in SUBSET import.cookies :
        /\ jar' = [c \in Cookies |-> IF c \in done THEN Handoff!Number ELSE jar[c]]
        /\ import' = IF done = import.cookies THEN [import EXCEPT !.at = "delete"] ELSE Handoff!Idle
  BY DEF Handoff!SetCookies
<1>3. UNCHANGED <<profile, pin, imports>>
  BY DEF Handoff!SetCookies
<1>4. Handoff!Number \in 0..Len(imports) /\ Handoff!Number # 0
  BY <1>1 DEF HandoffTypeInv, ImportInv, Handoff!Number
<1>5. HandoffTypeInv'
  BY <1>1, <1>2, <1>3, <1>4 DEF HandoffTypeInv
<1>6. ImportInv'
  BY <1>1, <1>2, <1>3 DEF HandoffTypeInv, ImportInv, Handoff!Number
<1>7. Handoff!PinCovers'
  BY <1>1, <1>2, <1>3 DEF Handoff!PinCovers, ImportInv
<1> QED BY <1>5, <1>6, <1>7

\* Cookies that are gone from the pin are deleted; nothing else changes.
LEMMA DeleteCookiesStep == ASSUME HandoffInv, Handoff!DeleteCookies PROVE HandoffInv'
<1> USE DEF HandoffInv
<1>1. import # Handoff!Idle /\ import.at = "delete"
  BY DEF Handoff!DeleteCookies, Handoff!Idle
<1>2. PICK done \in SUBSET Handoff!Gone :
        /\ jar' = [c \in Cookies |-> IF c \in done THEN 0 ELSE jar[c]]
        /\ import' = IF done = Handoff!Gone THEN [import EXCEPT !.at = "verify"] ELSE Handoff!Idle
  BY DEF Handoff!DeleteCookies
<1>3. UNCHANGED <<profile, pin, imports>>
  BY DEF Handoff!DeleteCookies
<1>4. HandoffTypeInv'
  BY <1>1, <1>2, <1>3 DEF HandoffTypeInv
<1>5. ImportInv'
  BY <1>1, <1>2, <1>3 DEF HandoffTypeInv, ImportInv, Handoff!Number
<1>6. Handoff!PinCovers'
  BY <1>2, <1>3 DEF Handoff!PinCovers
<1> QED BY <1>4, <1>5, <1>6

\* The pin is narrowed: what was verified is all there is of what it named.
\* The pin is narrowed to what the import leaves behind, which the jar was compared with.
LEMMA PinVerifiedStep == ASSUME HandoffInv, Handoff!Verified PROVE HandoffInv'
<1> USE DEF HandoffInv
<1>1. import # Handoff!Idle /\ import.at = "verify"
  BY DEF Handoff!Verified, Handoff!Idle
<1>2. /\ pin' = [pin EXCEPT !.identities = import.cookies]
      /\ import' = [import EXCEPT !.at = "show"]
      /\ UNCHANGED <<profile, jar, imports>>
      /\ \A c \in Handoff!Gone : jar[c] = 0
  BY DEF Handoff!Verified
<1>3. HandoffTypeInv'
  BY <1>1, <1>2 DEF HandoffTypeInv
<1>4. ImportInv'
  BY <1>1, <1>2 DEF HandoffTypeInv, ImportInv, Handoff!Number
<1>5. Handoff!PinCovers'
  <2> SUFFICES ASSUME NEW c \in Cookies, jar[c] # 0
               PROVE  c \in import.cookies /\ imports[jar[c]] = pin.account
    BY <1>1, <1>2 DEF Handoff!PinCovers, HandoffTypeInv
  <2>1. c \in pin.identities /\ imports[jar[c]] = pin.account
    BY DEF Handoff!PinCovers
  <2>2. c \notin Handoff!Gone
    BY <1>2
  <2> QED BY <1>1, <2>1, <2>2 DEF Handoff!Gone, ImportInv
<1> QED BY <1>3, <1>4, <1>5

\* An import ends, and the pin stays.
LEMMA ImportEndsStep == ASSUME HandoffInv, Handoff!Imported \/ Handoff!Fails PROVE HandoffInv'
BY DEF HandoffInv, HandoffTypeInv, ImportInv, Handoff!PinCovers, Handoff!Imported,
       Handoff!Fails, Handoff!Number

\* Every step keeps the invariant.
LEMMA HandoffStep == HandoffInv /\ [Handoff!Next]_(Handoff!vars) => HandoffInv'
<1> SUFFICES ASSUME HandoffInv, [Handoff!Next]_(Handoff!vars) PROVE HandoffInv'
  OBVIOUS
<1>1. ASSUME NEW a \in Accounts, NEW cookies \in SUBSET Cookies \ {{}},
             Handoff!Begin(a, cookies)
      PROVE HandoffInv'
  BY <1>1, BeginImportStep
<1>2. CASE Handoff!SetCookies
  BY <1>2, SetCookiesStep
<1>3. CASE Handoff!DeleteCookies
  BY <1>3, DeleteCookiesStep
<1>4. CASE Handoff!Verified
  BY <1>4, PinVerifiedStep
<1>5. CASE Handoff!Imported \/ Handoff!Fails
  BY <1>5, ImportEndsStep
<1>6. CASE UNCHANGED Handoff!vars
  BY <1>6
     DEF HandoffInv, HandoffTypeInv, ImportInv, Handoff!PinCovers, Handoff!Number, Handoff!vars
<1> QED BY <1>1, <1>2, <1>3, <1>4, <1>5, <1>6 DEF Handoff!Next

\* Wherever an import fails or stops, the pin names every cookie that was brought to the
\* profile, and all of them are of the account it names (auth/session-handoff.js, the pin
\* that is written before and after the browser is touched).
\* A pin names every cookie that was handed over to its profile, wherever an import stops
\* (auth/session-handoff.js, the pin is written before the cookies are set).
THEOREM PinIsComplete == MCSpec => []PinCovers
<1>1. MCInit => HandoffInv
  BY HandoffInit DEF MCInit
<1>2. HandoffInv /\ [MCNext]_<<part, vars, catalogVars, storeVars, handoffVars, waitVars>>
        => HandoffInv'
  <2>1. [MCNext]_<<part, vars, catalogVars, storeVars, handoffVars, waitVars>>
          => [Handoff!Next]_(Handoff!vars)
    <3>1. handoffVars' = handoffVars <=> Handoff!vars' = Handoff!vars
      BY DEF handoffVars, Handoff!vars
    <3> QED BY <3>1 DEF MCNext
  <2> QED BY <2>1, HandoffStep
<1>3. HandoffInv => PinCovers
  BY DEF HandoffInv, PinCovers
<1> QED BY <1>1, <1>2, <1>3, PTL DEF MCSpec

-----------------------------------------------------------------------------
(* The state file.                                                         *)

\* Where a process holds the lock, and where it has a lock file of its own.
Holding == {"load", "rename", "sync", "saved", "failed"}
Trying == {"link", "kill", "lstat", "unlink"} \cup Holding

FileTypeInv ==
    /\ step \in [Pids -> {"idle", "dead"} \cup Trying]
    /\ begun \in Nat /\ mistaken \in BOOLEAN
    /\ DOMAIN seen = Pids
    /\ candidate \in [Pids -> [pid : Pids, number : Nat] \cup {Store!NoLock}]
    /\ DOMAIN base = Pids
    /\ \A p \in Pids : step[p] \in Trying => candidate[p].pid = p /\ candidate[p].number # 0

\* Who is about to take a lock away has seen its holder dead.
DeadInv == \A p \in Pids : step[p] \in {"lstat", "unlink"} => Store!Dead(seen[p].pid)

\* As long as no lock was taken away by mistake: who is between taking the lock and
\* releasing it has it, what it read is what is in the file until it replaces it, and what it
\* has written is there.
HeldInv ==
    ~mistaken => \A p \in Pids :
        /\ step[p] \in Holding => lock = candidate[p]
        /\ step[p] = "rename" => base[p] = file
        /\ step[p] \in {"sync", "saved"} => candidate[p].number \in file

FileInv == FileTypeInv /\ DeadInv /\ HeldInv /\ Store!DoneStays

LEMMA FileInit == Store!Init => FileInv
<1> SUFFICES ASSUME Store!Init PROVE FileInv
  OBVIOUS
<1> USE DEF Store!Init
<1>1. \A p \in Pids : step[p] = "idle"
  OBVIOUS
<1>2. FileTypeInv
  BY <1>1 DEF FileTypeInv, Trying, Holding
<1>3. DeadInv
  BY <1>1 DEF DeadInv
<1>4. HeldInv
  BY <1>1 DEF HeldInv, Holding
<1>5. Store!DoneStays
  BY DEF Store!DoneStays
<1> QED BY <1>2, <1>3, <1>4, <1>5 DEF FileInv

\* Two processes do not hold the lock at once.
LEMMA OneHolder ==
    ASSUME FileInv, ~mistaken, NEW p \in Pids, step[p] \in Holding, NEW q \in Pids,
           step[q] \in Holding
    PROVE  p = q
<1>1. lock = candidate[p] /\ lock = candidate[q]
  BY DEF FileInv, HeldInv
<1>2. candidate[p].pid = p /\ candidate[q].pid = q
  BY DEF FileInv, FileTypeInv, Trying
<1> QED BY <1>1, <1>2

\* Steps that leave the lock and the file alone, and do not enter the part that holds it.
LEMMA OutsideStep ==
    ASSUME FileInv, NEW p \in Pids, NEW to \in {"idle", "link", "kill", "lstat", "unlink",
           "dead"},
           step' = [step EXCEPT ![p] = to],
           UNCHANGED <<lock, file, base, answered, mistaken>>,
           begun' \in Nat, DOMAIN seen' = Pids,
           \A q \in Pids \ {p} : seen'[q] = seen[q] /\ candidate'[q] = candidate[q],
           step[p] # "dead",
           candidate' \in [Pids -> [pid : Pids, number : Nat] \cup {Store!NoLock}],
           to \in {"link", "kill", "lstat", "unlink"} =>
              candidate'[p].pid = p /\ candidate'[p].number # 0,
           to \in {"lstat", "unlink"} => Store!Dead(seen[p].pid) /\ seen' = seen
    PROVE  FileInv'
<1>1. step'[p] = to /\ \A q \in Pids \ {p} : step'[q] = step[q]
  BY DEF FileInv, FileTypeInv
<1>2. FileTypeInv'
  BY <1>1 DEF FileInv, FileTypeInv, Trying, Holding
<1>3. \A k : Store!Dead(k) => Store!Dead(k)'
  BY <1>1 DEF Store!Dead, Store!Alive
<1>4. DeadInv'
  BY <1>1, <1>3 DEF FileInv, DeadInv
<1>5. HeldInv'
  BY <1>1 DEF FileInv, HeldInv, Holding
<1>6. Store!DoneStays'
  BY DEF FileInv, Store!DoneStays
<1> QED BY <1>2, <1>4, <1>5, <1>6 DEF FileInv

LEMMA LinkStep == ASSUME FileInv, NEW p \in Pids, Store!Link(p) PROVE FileInv'
<1> USE DEF Store!Link, Store!Step
<1>1. step'[p] = "load" /\ \A q \in Pids \ {p} : step'[q] = step[q]
  BY DEF FileInv, FileTypeInv
<1>2. FileTypeInv'
  BY <1>1 DEF FileInv, FileTypeInv, Trying, Holding
<1>3. DeadInv'
  BY <1>1 DEF FileInv, DeadInv, Store!Dead, Store!Alive
<1>4. \A q \in Pids : ~mistaken => step[q] \notin Holding
  <2> SUFFICES ASSUME NEW q \in Pids, ~mistaken, step[q] \in Holding PROVE FALSE
    OBVIOUS
  <2>1. lock = candidate[q] /\ candidate[q].number # 0
    BY DEF FileInv, HeldInv, FileTypeInv, Trying
  <2> QED BY <2>1 DEF Store!NoLock
<1>5. HeldInv'
  BY <1>1, <1>4 DEF FileInv, HeldInv, Holding
<1> QED BY <1>2, <1>3, <1>5 DEF FileInv, Store!DoneStays

\* A lock that is taken away rightly is nobody's who still works.
LEMMA TakeAwayStep == ASSUME FileInv, NEW p \in Pids, Store!TakeAway(p) PROVE FileInv'
<1> USE DEF Store!TakeAway, Store!Step
<1>1. step'[p] = "link" /\ \A q \in Pids \ {p} : step'[q] = step[q]
  BY DEF FileInv, FileTypeInv
<1>2. FileTypeInv'
  BY <1>1 DEF FileInv, FileTypeInv, Trying, Holding
<1>3. DeadInv'
  BY <1>1 DEF FileInv, DeadInv, Store!Dead, Store!Alive
<1>4. ~mistaken' => ~mistaken /\ lock \in {seen[p], Store!NoLock}
  OBVIOUS
<1>5. \A q \in Pids : ~mistaken' => step[q] \notin Holding
  <2> SUFFICES ASSUME NEW q \in Pids, ~mistaken', step[q] \in Holding PROVE FALSE
    OBVIOUS
  <2>1. lock = candidate[q] /\ candidate[q].number # 0 /\ candidate[q].pid = q
    BY <1>4 DEF FileInv, HeldInv, FileTypeInv, Trying
  <2>2. CASE lock = Store!NoLock
    BY <2>1, <2>2 DEF Store!NoLock
  <2>3. CASE lock = seen[p]
    <3>1. Store!Dead(q)
      BY <2>1, <2>3 DEF FileInv, DeadInv
    <3> QED BY <3>1 DEF Store!Dead, Store!Alive, Holding
  <2> QED BY <1>4, <2>2, <2>3
<1>6. HeldInv'
  BY <1>1, <1>5 DEF HeldInv, Holding
<1>7. Store!DoneStays'
  BY <1>4 DEF FileInv, Store!DoneStays
<1> QED BY <1>2, <1>3, <1>6, <1>7 DEF FileInv

\* Only who holds the lock goes on from there, and only Replace touches the file.
LEMMA LoadStep == ASSUME FileInv, NEW p \in Pids, Store!Load(p) PROVE FileInv'
<1> USE DEF Store!Load, Store!Step
<1>1. step'[p] = "rename" /\ \A q \in Pids \ {p} : step'[q] = step[q]
  BY DEF FileInv, FileTypeInv
<1>2. base'[p] = file /\ \A q \in Pids \ {p} : base'[q] = base[q]
  BY DEF FileInv, FileTypeInv
<1>3. FileTypeInv'
  BY <1>1 DEF FileInv, FileTypeInv, Trying, Holding
<1>4. DeadInv'
  BY <1>1 DEF FileInv, DeadInv, Store!Dead, Store!Alive
<1>5. HeldInv'
  BY <1>1, <1>2 DEF FileInv, HeldInv, Holding
<1> QED BY <1>3, <1>4, <1>5 DEF FileInv, Store!DoneStays

LEMMA ReplaceStep == ASSUME FileInv, NEW p \in Pids, Store!Replace(p) PROVE FileInv'
<1> USE DEF Store!Replace, Store!Step
<1>1. /\ step[p] \in Holding /\ step'[p] = "sync"
      /\ \A q \in Pids \ {p} : step'[q] = step[q]
  BY DEF FileInv, FileTypeInv, Holding
<1>2. ~mistaken => file' = file \cup {candidate[p].number}
  BY DEF FileInv, HeldInv
<1>3. \A q \in Pids \ {p} : ~mistaken => step[q] \notin Holding
  BY <1>1, OneHolder
<1>4. FileTypeInv'
  BY <1>1 DEF FileInv, FileTypeInv, Trying, Holding
<1>5. DeadInv'
  BY <1>1 DEF FileInv, DeadInv, Store!Dead, Store!Alive
<1>6. HeldInv'
  BY <1>1, <1>2, <1>3 DEF FileInv, HeldInv, Holding
<1>7. Store!DoneStays'
  BY <1>2 DEF FileInv, Store!DoneStays
<1> QED BY <1>4, <1>5, <1>6, <1>7 DEF FileInv

LEMMA SavedStep ==
    ASSUME FileInv, NEW p \in Pids, Store!NotSaved(p) \/ Store!SyncDirectory(p)
    PROVE  FileInv'
<1> USE DEF Store!NotSaved, Store!SyncDirectory, Store!Step
<1>1. UNCHANGED <<lock, file, seen, candidate, base, begun, answered, mistaken>>
  OBVIOUS
<1>2. /\ step[p] \in {"rename", "sync"} /\ step'[p] \in {"saved", "failed"}
      /\ step'[p] = "saved" => step[p] = "sync"
      /\ \A q \in Pids \ {p} : step'[q] = step[q]
      /\ DOMAIN step' = Pids
  BY DEF FileInv, FileTypeInv
<1>3. FileTypeInv'
  <2>1. step' \in [Pids -> {"idle", "dead"} \cup Trying]
    BY DEF FileInv, FileTypeInv, Trying, Holding
  <2> QED BY <1>1, <1>2, <2>1 DEF FileInv, FileTypeInv, Trying, Holding
<1>4. DeadInv'
  BY <1>1, <1>2 DEF FileInv, DeadInv, Store!Dead, Store!Alive
<1>5. HeldInv'
  BY <1>1, <1>2 DEF FileInv, HeldInv, Holding
<1> QED BY <1>1, <1>3, <1>4, <1>5 DEF FileInv, Store!DoneStays

\* What is answered was written by its process, and is there.
LEMMA ReleaseStep == ASSUME FileInv, NEW p \in Pids, Store!Release(p) PROVE FileInv'
<1> USE DEF Store!Release
<1>1. /\ step[p] \in Holding /\ step'[p] = "idle"
      /\ \A q \in Pids \ {p} : step'[q] = step[q]
  BY DEF FileInv, FileTypeInv, Holding
<1>2. \A q \in Pids \ {p} : ~mistaken => step[q] \notin Holding
  BY <1>1, OneHolder
<1>3. FileTypeInv'
  BY <1>1 DEF FileInv, FileTypeInv, Trying, Holding
<1>4. DeadInv'
  BY <1>1 DEF FileInv, DeadInv, Store!Dead, Store!Alive
<1>5. HeldInv'
  BY <1>1, <1>2 DEF FileInv, HeldInv, Holding
<1>6. Store!DoneStays'
  <2>1. ~mistaken /\ step[p] = "saved" => candidate[p].number \in file
    BY DEF FileInv, HeldInv
  <2> QED BY <2>1 DEF FileInv, Store!DoneStays
<1> QED BY <1>3, <1>4, <1>5, <1>6 DEF FileInv

\* Looking for the lock, giving up and dying.
LEMMA LookingStep ==
    ASSUME FileInv, NEW p \in Pids,
           \/ Store!Begin(p) \/ Store!OpenLock(p) \/ Store!Examine(p) \/ Store!Compare(p)
           \/ Store!GiveUp(p) \/ Store!Die(p)
    PROVE  FileInv'
<1> USE DEF Store!Step
<1>1. /\ begun \in Nat /\ DOMAIN seen = Pids
      /\ candidate \in [Pids -> [pid : Pids, number : Nat] \cup {Store!NoLock}]
      /\ step[p] \in Trying => candidate[p].pid = p /\ candidate[p].number # 0
  BY DEF FileInv, FileTypeInv
<1>2. CASE Store!Begin(p)
  <2>1. candidate' = [candidate EXCEPT ![p] = [pid |-> p, number |-> begun + 1]]
    BY <1>2 DEF Store!Begin
  <2>2. [pid |-> p, number |-> begun + 1] \in [pid : Pids, number : Nat] /\ begun + 1 # 0
    BY <1>1
  <2>3. /\ candidate' \in [Pids -> [pid : Pids, number : Nat] \cup {Store!NoLock}]
        /\ candidate'[p].pid = p /\ candidate'[p].number # 0
        /\ \A q \in Pids \ {p} : candidate'[q] = candidate[q]
    BY <1>1, <2>1, <2>2
  <2>4. /\ step[p] = "idle" /\ step' = [step EXCEPT ![p] = "link"]
        /\ UNCHANGED <<lock, file, base, answered, mistaken, seen>>
        /\ begun' = begun + 1
    BY <1>2 DEF Store!Begin
  <2>5. begun' \in Nat
    BY <1>1, <2>4
  <2> QED BY <1>1, <2>3, <2>4, <2>5, OutsideStep
<1>3. CASE Store!OpenLock(p)
  BY <1>1, <1>3, OutsideStep DEF Store!OpenLock, Trying
<1>4. CASE Store!Examine(p)
  BY <1>1, <1>4, OutsideStep DEF Store!Examine, Trying
<1>5. CASE Store!Compare(p)
  <2>1. step[p] = "lstat"
    BY <1>5 DEF Store!Compare
  <2>2. Store!Dead(seen[p].pid)
    BY <2>1 DEF FileInv, DeadInv
  <2> QED BY <1>1, <1>5, <2>1, <2>2, OutsideStep DEF Store!Compare, Trying
<1>6. CASE Store!GiveUp(p)
  BY <1>1, <1>6, OutsideStep DEF Store!GiveUp
<1>7. CASE Store!Die(p)
  BY <1>1, <1>7, OutsideStep DEF Store!Die, Store!Alive
<1> QED BY <1>2, <1>3, <1>4, <1>5, <1>6, <1>7

\* Every step keeps the invariant.
LEMMA FileStep == FileInv /\ [Store!Next]_(Store!vars) => FileInv'
<1> SUFFICES ASSUME FileInv, [Store!Next]_(Store!vars) PROVE FileInv'
  OBVIOUS
<1>1. CASE UNCHANGED Store!vars
  BY <1>1 DEF Store!vars, Store!mine, Store!bounds, FileInv, FileTypeInv, DeadInv, HeldInv,
              Store!DoneStays, Store!Dead, Store!Alive
<1> QED BY <1>1, LinkStep, TakeAwayStep, LoadStep, ReplaceStep, SavedStep, ReleaseStep,
           LookingStep DEF Store!Next

\* What a mutation of the state file was answered to have done stays, although processes die at
\* any step and the lock of a dead one is taken away (auth/store.js).
THEOREM MutationsStay == MCSpec => []DoneStays
<1>1. MCInit => FileInv
  BY FileInit DEF MCInit
<1>2. FileInv /\ [MCNext]_<<part, vars, catalogVars, storeVars, handoffVars, waitVars>>
        => FileInv'
  <2>1. [MCNext]_<<part, vars, catalogVars, storeVars, handoffVars, waitVars>>
          => [Store!Next]_(Store!vars)
    <3>1. storeVars' = storeVars <=> Store!vars' = Store!vars
      BY DEF storeVars, Store!vars, Store!mine, Store!bounds
    <3> QED BY <3>1 DEF MCNext
  <2> QED BY <2>1, FileStep
<1>3. FileInv => DoneStays
  BY DEF FileInv, DoneStays
<1> QED BY <1>1, <1>2, <1>3, PTL DEF MCSpec

-----------------------------------------------------------------------------
(* The callers that wait.                                                  *)

\* Calls that sleep know the last word on their row, or it is on its way, and the counts
\* are those of the registered calls.
WaitInv == Waits!TypeOK /\ Waits!WokenByChange /\ Waits!WaitsAreCounted

\* The registered calls of a requester.
CallsOf(q) == {w \in Waits!Registered : RequesterOf[w] = q}

\* BrokerWait counts with a Cardinality of its own, which is the same.
LEMMA WaitsCardinality == \A S : Waits!Cardinality(S) = Cardinality(S)
BY DEF Waits!Cardinality, Cardinality

\* Every caller waits for a row, for a requester, and few of them are registered.
LEMMA RowsOfWaiters == \A w \in Waiters : RowOf[w] \in Rows
BY WaitersAssumption DEF RowOf

LEMMA RequestersOfWaiters == \A w \in Waiters : RequesterOf[w] \in Waits!Requesters
BY DEF RequesterOf, Waits!Requesters, Waits!Range

LEMMA RegisteredFinite == Waits!Registered \subseteq Waiters /\ IsFiniteSet(Waits!Registered)
<1>1. Waits!Registered \subseteq Waiters
  BY DEF Waits!Registered
<1> QED BY <1>1, WaitersAssumption, FS_Subset

\* Taking some away from a finite set takes their number away.
LEMMA NumberLeft ==
    ASSUME NEW S, IsFiniteSet(S), NEW G, G \subseteq S
    PROVE  /\ Cardinality(S \ G) = Cardinality(S) - Cardinality(G)
           /\ Cardinality(S) \in Nat /\ Cardinality(G) \in Nat /\ Cardinality(S \ G) \in Nat
<1>1. IsFiniteSet(G) /\ IsFiniteSet(S \ G)
  BY FS_Subset, FS_Difference
<1>2. S \cap G = G
  OBVIOUS
<1>3. Cardinality(S \ G) = Cardinality(S) - Cardinality(S \cap G)
  BY FS_Difference
<1> QED BY <1>1, <1>2, <1>3, FS_CardinalityType

\* However registered calls end, the counts follow.
LEMMA CleanStep ==
    ASSUME WaitInv, NEW gone \in SUBSET Waits!Registered,
           Waits!Answered(gone), Waits!Clean(gone)
    PROVE  /\ Waits!Registered' = Waits!Registered \ gone
           /\ \A w \in Waits!Registered \ gone : calls'[w] = calls[w] /\ sawn'[w] = sawn[w]
           /\ Waits!WaitsAreCounted'
           /\ calls' \in [Waiters ->
                 {"none", "looked", "registered", "rechecked", "sleeping", "answered"}]
           /\ sawn' \in [Waiters -> Waits!Status \cup {Waits!None}]
           /\ stopping' \subseteq Waits!Registered'
           /\ waitCount' \in Nat /\ requesterWaits' \in [Waits!Requesters -> Nat]
<1>1. Waits!TypeOK /\ Waits!WaitsAreCounted /\ gone \subseteq Waiters
  BY RegisteredFinite DEF WaitInv
<1>2. /\ \A w \in Waiters : calls'[w] = IF w \in gone THEN "answered" ELSE calls[w]
      /\ \A w \in Waiters : sawn'[w] = IF w \in gone THEN Waits!None ELSE sawn[w]
      /\ calls' \in [Waiters ->
           {"none", "looked", "registered", "rechecked", "sleeping", "answered"}]
      /\ sawn' \in [Waiters -> Waits!Status \cup {Waits!None}]
  BY <1>1 DEF Waits!Answered, Waits!TypeOK
<1>3. Waits!Registered' = Waits!Registered \ gone
  BY <1>1, <1>2 DEF Waits!Registered
<1>4. \A w \in Waits!Registered \ gone : calls'[w] = calls[w] /\ sawn'[w] = sawn[w]
  BY <1>2, RegisteredFinite
<1>5. stopping' \subseteq Waits!Registered'
  BY <1>1, <1>3 DEF Waits!Clean, Waits!TypeOK
<1>6. /\ waitCount' = waitCount - Cardinality(gone)
      /\ waitCount = Cardinality(Waits!Registered) /\ waitCount <= MaxWaits
  BY <1>1, WaitsCardinality DEF Waits!Clean, Waits!WaitsAreCounted
<1>7. /\ waitCount' = Cardinality(Waits!Registered \ gone)
      /\ waitCount' \in Nat /\ waitCount' <= MaxWaits
  <2>1. /\ Cardinality(Waits!Registered \ gone)
             = Cardinality(Waits!Registered) - Cardinality(gone)
        /\ Cardinality(Waits!Registered) \in Nat /\ Cardinality(gone) \in Nat
        /\ Cardinality(Waits!Registered \ gone) \in Nat
    BY RegisteredFinite, NumberLeft
  <2> QED BY <1>6, <2>1, WaitersAssumption
<1>8. ASSUME NEW q \in Waits!Requesters
      PROVE  /\ requesterWaits'[q] = Cardinality(CallsOf(q) \ gone)
             /\ requesterWaits'[q] \in Nat /\ requesterWaits'[q] <= MaxPerRequester
  <2> DEFINE mine == {w \in gone : RequesterOf[w] = q}
  <2>1. /\ CallsOf(q) \subseteq Waits!Registered /\ mine \subseteq CallsOf(q)
        /\ CallsOf(q) \ gone = CallsOf(q) \ mine
    BY DEF CallsOf
  <2>2. IsFiniteSet(CallsOf(q))
    BY <2>1, RegisteredFinite, FS_Subset
  <2>3. /\ Cardinality(CallsOf(q) \ mine) = Cardinality(CallsOf(q)) - Cardinality(mine)
        /\ Cardinality(CallsOf(q)) \in Nat /\ Cardinality(mine) \in Nat
        /\ Cardinality(CallsOf(q) \ mine) \in Nat
    BY <2>1, <2>2, NumberLeft
  <2>4. requesterWaits'[q] = requesterWaits[q] - Cardinality(mine)
    BY WaitsCardinality DEF Waits!Clean
  <2>5. requesterWaits[q] = Cardinality(CallsOf(q)) /\ requesterWaits[q] <= MaxPerRequester
    BY <1>1, WaitsCardinality DEF Waits!WaitsAreCounted, CallsOf
  <2> QED BY <2>1, <2>3, <2>4, <2>5, WaitersAssumption
<1>9. requesterWaits' \in [Waits!Requesters -> Nat]
  BY <1>8 DEF Waits!Clean
<1>10. Waits!WaitsAreCounted'
  <2>1. \A q \in Waits!Requesters : CallsOf(q) \ gone = {w \in Waits!Registered' : RequesterOf[w] = q}
    BY <1>3 DEF CallsOf
  <2>2. Waits!Requesters' = Waits!Requesters
    OBVIOUS
  <2>3. \A q \in Waits!Requesters :
           /\ requesterWaits'[q] = Waits!Cardinality({w \in Waits!Registered' : RequesterOf[w] = q})
           /\ requesterWaits'[q] <= MaxPerRequester
    BY <1>8, <2>1, WaitsCardinality
  <2>4. waitCount' = Waits!Cardinality(Waits!Registered') /\ waitCount' <= MaxWaits
    BY <1>3, <1>7, WaitsCardinality
  <2> QED BY <2>3, <2>4 DEF Waits!WaitsAreCounted
<1> QED BY <1>2, <1>3, <1>4, <1>5, <1>7, <1>9, <1>10

\* Steps that register nobody, and take nobody away.
LEMMA SameCalls ==
    ASSUME WaitInv, Waits!Registered' = Waits!Registered, UNCHANGED <<waitCount,
                                                                      requesterWaits>>
    PROVE  Waits!WaitsAreCounted'
BY DEF WaitInv, Waits!WaitsAreCounted

\* At the start nobody waits.
LEMMA WaitsInit == Waits!Init => WaitInv
<1> SUFFICES ASSUME Waits!Init PROVE WaitInv
  OBVIOUS
<1> USE DEF Waits!Init
<1>1. Waits!Registered = {}
  BY DEF Waits!Registered
<1>2. Waits!Cardinality({}) = 0
  BY FS_EmptySet, WaitsCardinality
<1>3. Waits!TypeOK
  BY <1>1 DEF Waits!TypeOK, Waits!Status, Waits!None
<1>4. Waits!WokenByChange
  BY <1>1 DEF Waits!WokenByChange
<1>5. Waits!WaitsAreCounted
  <2>1. \A q \in Waits!Requesters : {w \in Waits!Registered : RequesterOf[w] = q} = {}
    BY <1>1
  <2> QED BY <1>1, <1>2, <2>1, WaitersAssumption DEF Waits!WaitsAreCounted
<1> QED BY <1>3, <1>4, <1>5 DEF WaitInv

\* A row changes: who sleeps on it will be told, or the call that changed it failed.
LEMMA CommitStep ==
    ASSUME WaitInv, NEW r \in Rows, NEW s \in Waits!Status,
           Waits!Commit(r, s) \/ Waits!CommitFails(r, s)
    PROVE  WaitInv'
<1> USE DEF Waits!Commit, Waits!CommitFails
<1>1. UNCHANGED <<calls, sawn, stopping, waitCount, requesterWaits, waitsClosing>>
  OBVIOUS
<1>2. Waits!Registered' = Waits!Registered
  BY <1>1 DEF Waits!Registered
<1>3. /\ row' = [row EXCEPT ![r] = s]
      /\ announcing \subseteq announcing' /\ silent \subseteq silent'
      /\ <<r, s>> \in announcing' \/ r \in silent'
      /\ announcing' \subseteq Rows \X Waits!Status /\ silent' \subseteq Rows /\ mishaps' \in Nat
  BY DEF WaitInv, Waits!TypeOK
<1>4. Waits!TypeOK'
  BY <1>1, <1>2, <1>3 DEF WaitInv, Waits!TypeOK
<1>5. Waits!WokenByChange'
  <2>1. \A w \in Waits!Registered : RowOf[w] = r => Waits!Now(w)' = s
    BY <1>3, RowsOfWaiters, RegisteredFinite DEF Waits!Now, WaitInv, Waits!TypeOK
  <2>2. \A w \in Waits!Registered : RowOf[w] # r => Waits!Now(w)' = Waits!Now(w)
    BY <1>3, RowsOfWaiters, RegisteredFinite DEF Waits!Now, WaitInv, Waits!TypeOK
  <2> QED BY <1>1, <1>2, <1>3, <2>1, <2>2 DEF WaitInv, Waits!WokenByChange
<1>6. Waits!WaitsAreCounted'
  BY <1>1, <1>2, SameCalls
<1> QED BY <1>4, <1>5, <1>6 DEF WaitInv

\* Some registered calls end; what was announced is not of the others' rows.
LEMMA EndStep ==
    ASSUME WaitInv, NEW gone \in SUBSET Waits!Registered,
           Waits!Answered(gone), Waits!Clean(gone),
           UNCHANGED <<row, waitsClosing, silent>>, mishaps' \in Nat,
           announcing' \subseteq announcing,
           \A w \in Waits!Registered \ gone : \A s \in Waits!Status :
               <<RowOf[w], s>> \in announcing => <<RowOf[w], s>> \in announcing'
    PROVE  WaitInv'
<1>1. /\ Waits!Registered' = Waits!Registered \ gone
      /\ \A w \in Waits!Registered \ gone : calls'[w] = calls[w] /\ sawn'[w] = sawn[w]
      /\ Waits!WaitsAreCounted'
      /\ calls' \in [Waiters ->
           {"none", "looked", "registered", "rechecked", "sleeping", "answered"}]
      /\ sawn' \in [Waiters -> Waits!Status \cup {Waits!None}]
      /\ stopping' \subseteq Waits!Registered'
      /\ waitCount' \in Nat /\ requesterWaits' \in [Waits!Requesters -> Nat]
  BY CleanStep
<1>2. Waits!TypeOK'
  BY <1>1 DEF WaitInv, Waits!TypeOK
<1>3. Waits!WokenByChange'
  <2>1. \A w \in Waits!Registered : Waits!Now(w) \in Waits!Status /\ Waits!Now(w)' = Waits!Now(w)
    BY RowsOfWaiters, RegisteredFinite DEF Waits!Now, WaitInv, Waits!TypeOK
  <2>2. \A w \in Waits!Registered \ gone : w \in stopping => w \in stopping'
    BY DEF Waits!Clean
  <2> QED BY <1>1, <2>1, <2>2 DEF WaitInv, Waits!WokenByChange
<1> QED BY <1>1, <1>2, <1>3 DEF WaitInv

LEMMA AnnounceStep ==
    ASSUME WaitInv, NEW r \in Rows, NEW s \in Waits!Status, Waits!Announce(r, s) PROVE WaitInv'
<1> DEFINE woken == {w \in Waits!Registered : RowOf[w] = r}
<1>1. /\ Waits!Answered(woken) /\ Waits!Clean(woken)
      /\ announcing' = announcing \ {<<r, s>>}
      /\ UNCHANGED <<row, waitsClosing, silent, mishaps>>
  BY DEF Waits!Announce
<1>2. woken \in SUBSET Waits!Registered /\ \A w \in Waits!Registered \ woken : RowOf[w] # r
  OBVIOUS
<1>3. mishaps' \in Nat
  BY <1>1 DEF WaitInv, Waits!TypeOK
<1> HIDE DEF woken
<1> QED BY <1>1, <1>2, <1>3, EndStep

\* One registered call ends, for whatever reason.
LEMMA OneEnds ==
    ASSUME WaitInv, NEW w \in Waits!Registered, Waits!Answered({w}), Waits!Clean({w}),
           UNCHANGED <<row, announcing, waitsClosing, silent>>, mishaps' \in Nat
    PROVE  WaitInv'
BY EndStep

LEMMA RegisterStep == ASSUME WaitInv, NEW w \in Waiters, Waits!Register(w) PROVE WaitInv'
<1> DEFINE q == RequesterOf[w]
<1>1. Waits!TypeOK /\ Waits!WaitsAreCounted /\ q \in Waits!Requesters
  BY RequestersOfWaiters DEF WaitInv
<1>2. /\ calls[w] = "looked" /\ ~waitsClosing
      /\ calls' = [calls EXCEPT ![w] = "registered"]
      /\ waitCount' = waitCount + 1
      /\ requesterWaits' = [requesterWaits EXCEPT ![q] = @ + 1]
      /\ UNCHANGED <<row, announcing, sawn, stopping, waitsClosing, silent, mishaps>>
      /\ ~(waitCount >= MaxWaits) /\ ~(requesterWaits[q] >= MaxPerRequester)
  BY DEF Waits!Register, Waits!Full
<1>3. /\ w \notin Waits!Registered /\ Waits!Registered' = Waits!Registered \cup {w}
      /\ calls'[w] = "registered"
      /\ \A v \in Waits!Registered : calls'[v] = calls[v]
  BY <1>1, <1>2 DEF Waits!Registered, Waits!TypeOK
<1>4. Waits!TypeOK'
  BY <1>1, <1>2, <1>3 DEF Waits!TypeOK
<1>5. Waits!WokenByChange'
  <2>1. \A v \in Waits!Registered : Waits!Now(v)' = Waits!Now(v)
    BY <1>2 DEF Waits!Now
  <2> QED BY <1>2, <1>3, <2>1 DEF WaitInv, Waits!WokenByChange
<1>6. waitCount' = Cardinality(Waits!Registered') /\ waitCount' <= MaxWaits
  <2>1. Cardinality(Waits!Registered \cup {w}) = Cardinality(Waits!Registered) + 1
    BY <1>3, RegisteredFinite, FS_AddElement
  <2>2. waitCount = Cardinality(Waits!Registered) /\ waitCount \in Nat
    BY <1>1, WaitsCardinality DEF Waits!WaitsAreCounted, Waits!TypeOK
  <2> QED BY <1>2, <1>3, <2>1, <2>2, WaitersAssumption
<1>7. ASSUME NEW p \in Waits!Requesters
      PROVE  /\ requesterWaits'[p] = Cardinality({v \in Waits!Registered' : RequesterOf[v] = p})
             /\ requesterWaits'[p] <= MaxPerRequester
  <2>1. requesterWaits[p] = Cardinality(CallsOf(p)) /\ requesterWaits[p] <= MaxPerRequester
    BY <1>1, WaitsCardinality DEF Waits!WaitsAreCounted, CallsOf
  <2>2. CASE p # q
    <3>1. {v \in Waits!Registered' : RequesterOf[v] = p} = CallsOf(p)
      BY <1>3, <2>2 DEF CallsOf
    <3>2. requesterWaits'[p] = requesterWaits[p]
      BY <1>1, <1>2, <2>2 DEF Waits!TypeOK
    <3> QED BY <2>1, <3>1, <3>2
  <2>3. CASE p = q
    <3>1. {v \in Waits!Registered' : RequesterOf[v] = p} = CallsOf(p) \cup {w}
      BY <1>3, <2>3 DEF CallsOf
    <3>2. requesterWaits'[p] = requesterWaits[p] + 1 /\ requesterWaits[p] \in Nat
      BY <1>1, <1>2, <2>3 DEF Waits!TypeOK
    <3>3. IsFiniteSet(CallsOf(p)) /\ w \notin CallsOf(p)
      BY <1>3, RegisteredFinite, FS_Subset DEF CallsOf
    <3>4. Cardinality(CallsOf(p) \cup {w}) = Cardinality(CallsOf(p)) + 1
      BY <3>3, FS_AddElement
    <3> QED BY <1>2, <2>1, <2>3, <3>1, <3>2, <3>4, WaitersAssumption
  <2> QED BY <2>2, <2>3
<1>8. Waits!WaitsAreCounted'
  BY <1>6, <1>7, WaitsCardinality DEF Waits!WaitsAreCounted
<1> QED BY <1>4, <1>5, <1>8 DEF WaitInv

\* The steps of a call that end or begin nothing.
LEMMA QuietStep ==
    ASSUME WaitInv, NEW w \in Waiters,
           \/ Waits!Look(w) \/ Waits!Refuse(w) \/ Waits!SetTimer(w) \/ Waits!Stop(w)
           \/ Waits!Recheck(w) /\ Waits!Stays(w) /\ ~waitsClosing
    PROVE  WaitInv'
<1> DEFINE Statuses == Waits!Status \cup {Waits!None}
           Stages == {"none", "looked", "registered", "rechecked", "sleeping", "answered"}
<1>1. Waits!TypeOK /\ Waits!Now(w) \in Waits!Status
  BY RowsOfWaiters DEF WaitInv, Waits!Now, Waits!TypeOK
<1>2. UNCHANGED <<row, announcing, waitCount, requesterWaits, waitsClosing, silent, mishaps>>
  BY DEF Waits!Look, Waits!Refuse, Waits!SetTimer, Waits!Stop, Waits!Recheck
<1>3. /\ calls' \in [Waiters -> Stages] /\ sawn' \in [Waiters -> Statuses]
      /\ \A v \in Waiters \ {w} : calls'[v] = calls[v] /\ sawn'[v] = sawn[v]
  BY <1>1 DEF Waits!Look, Waits!Refuse, Waits!SetTimer, Waits!Stop, Waits!Recheck,
              Waits!Answered, Waits!TypeOK
<1>4. /\ w \in Waits!Registered' <=> w \in Waits!Registered
      /\ w \in Waits!Registered =>
           /\ sawn'[w] = sawn[w]
           /\ \/ calls'[w] = "registered"
              \/ calls[w] # "registered"
              \/ Waits!Now(w) = sawn[w]
      /\ w \in Waits!Registered /\ calls'[w] = "registered" => calls[w] = "registered"
      /\ stopping \subseteq stopping' /\ stopping' \subseteq Waits!Registered
  BY <1>1 DEF Waits!Look, Waits!Refuse, Waits!SetTimer, Waits!Stop, Waits!Recheck, Waits!Stays,
              Waits!Answered, Waits!TypeOK, Waits!Registered
<1>5. Waits!Registered' = Waits!Registered
  BY <1>3, <1>4 DEF Waits!Registered
<1>6. Waits!TypeOK'
  BY <1>1, <1>2, <1>3, <1>4, <1>5 DEF Waits!TypeOK
<1>7. Waits!WokenByChange'
  <2>1. \A v \in Waiters : Waits!Now(v)' = Waits!Now(v)
    BY <1>2 DEF Waits!Now
  <2> QED BY <1>2, <1>3, <1>4, <1>5, <2>1, RegisteredFinite DEF WaitInv, Waits!WokenByChange
<1>8. Waits!WaitsAreCounted'
  BY <1>2, <1>5, SameCalls
<1> QED BY <1>6, <1>7, <1>8 DEF WaitInv

\* A call that was rechecked and does not stay, one that was stopped and one that is
\* rejected: each ends.
LEMMA FinishStep ==
    ASSUME WaitInv, NEW w \in Waiters,
           \/ Waits!Recheck(w) /\ ~(Waits!Stays(w) /\ ~waitsClosing)
           \/ Waits!Stopped(w) \/ Waits!Rejected(w)
    PROVE  WaitInv'
<1>1. /\ Waits!Answered({w}) /\ Waits!Clean({w})
      /\ UNCHANGED <<row, announcing, waitsClosing, silent>>
  BY DEF Waits!Recheck, Waits!Stopped, Waits!Rejected
<1>2. w \in Waits!Registered /\ mishaps' \in Nat
  BY DEF Waits!Recheck, Waits!Stopped, Waits!Rejected, WaitInv, Waits!TypeOK, Waits!Registered
<1> QED BY <1>1, <1>2, OneEnds

LEMMA DrainStep == ASSUME WaitInv, Waits!Drain PROVE WaitInv'
<1> USE DEF Waits!Drain
<1>1. Waits!Registered' = Waits!Registered /\ \A v \in Waiters : Waits!Now(v)' = Waits!Now(v)
  BY DEF Waits!Registered, Waits!Now
<1>2. Waits!TypeOK'
  BY <1>1 DEF WaitInv, Waits!TypeOK
<1>3. Waits!WokenByChange'
  BY <1>1, RegisteredFinite DEF WaitInv, Waits!WokenByChange
<1>4. Waits!WaitsAreCounted'
  BY <1>1, SameCalls
<1> QED BY <1>2, <1>3, <1>4 DEF WaitInv

\* Every step keeps the invariant.
LEMMA WaitStep == WaitInv /\ [Waits!Next]_(Waits!vars) => WaitInv'
<1> SUFFICES ASSUME WaitInv, [Waits!Next]_(Waits!vars) PROVE WaitInv'
  OBVIOUS
<1>1. CASE UNCHANGED Waits!vars
  <2>1. Waits!Registered' = Waits!Registered /\ \A v \in Waiters : Waits!Now(v)' = Waits!Now(v)
    BY <1>1 DEF Waits!vars, Waits!Registered, Waits!Now
  <2>2. Waits!TypeOK' /\ Waits!WokenByChange'
    BY <1>1, <2>1, RegisteredFinite DEF Waits!vars, WaitInv, Waits!TypeOK, Waits!WokenByChange
  <2> QED BY <1>1, <2>1, <2>2, SameCalls DEF Waits!vars, WaitInv
<1>2. CASE Waits!Next
  <2>1. ASSUME NEW w \in Waiters, Waits!Recheck(w) PROVE WaitInv'
    BY <2>1, QuietStep, FinishStep
  <2> QED BY <1>2, <2>1, CommitStep, AnnounceStep, RegisterStep, QuietStep, FinishStep,
             DrainStep DEF Waits!Next
<1> QED BY <1>1, <1>2

\* No caller sleeps on after the outcome it waits for, and however a call ends its place is
\* free again (auth/broker.js, wait).
THEOREM SleepersAreServed == MCSpec => []WaitersAreServed
<1>1. MCInit => WaitInv
  BY WaitsInit DEF MCInit
<1>2. [MCNext]_<<part, vars, catalogVars, storeVars, handoffVars, waitVars>>
        => [Waits!Next]_(Waits!vars)
  <2>1. waitVars' = waitVars <=> Waits!vars' = Waits!vars
    BY DEF waitVars, Waits!vars
  <2> QED BY <2>1 DEF MCNext
<1>3. WaitInv => WaitersAreServed
  BY DEF WaitInv, WaitersAreServed
<1> QED BY <1>1, <1>2, <1>3, WaitStep, PTL DEF MCSpec

-----------------------------------------------------------------------------
(* The enrollments and their connections.                                  *)

\* Where a select is while it holds its service (updating), where it has chosen one, and where
\* a change of the connections is.
Owning == {"read", "save", "bind", "final", "answer", "undo"}
Chosen == {"check"} \cup Owning
Changing == {"drop", "retire", "validate", "clean", "store", "switched"}

\* What the records hold, in each state they can be in.
Selection == [at : Chosen, epoch : Nat, service : Services, config : Configs, since : Nat,
              changing : BOOLEAN]
Browser == [at : {"none", "discovery", "bound"}, service : Services \cup {""},
            config : Configs \cup {0}, since : Nat, given : {"", "opened", "selected"}]

Selects == {Idle} \cup [at : {"resolve"}, epoch : Nat] \cup Selection
Enrolled == {None} \cup [config : Configs, since : Nat]
Puts == {Idle} \cup [at : {"save", "set", "undo"}, config : Configs, before : Configs \cup {0}]
Changes == {Idle} \cup [at : Changing, op : {"remove", "put", "discovery"},
                        clean : SUBSET Services]

\* What every variable holds.
EnrolTypeInv ==
    /\ token \in BOOLEAN /\ enabled \in BOOLEAN
    /\ enrolled \in [Services -> Enrolled]
    /\ map \in [Services -> Configs \cup {0}]
    /\ epoch \in Nat /\ removals \in Nat
    /\ session \in [Sessions -> Browser]
    /\ \A x \in Sessions :
         /\ session[x].at = "bound" => session[x].service \in Services /\ session[x].config \in Configs
         /\ session[x].at # "bound" => session[x].given = ""
    /\ select \in [Sessions -> Selects]
    /\ put \in [Services -> Puts]
    /\ change \in Changes

\* A service that is being updated has one owner: one select, or the put of the service.
OwnInv ==
    /\ \A x \in Sessions : select[x].at \in Owning =>
         select[x].service \in updating /\ put[select[x].service] = Idle
    /\ \A x, y \in Sessions :
         select[x].at \in Owning /\ select[y].at \in Owning /\ select[x].service = select[y].service
           => x = y
    /\ \A s \in Services : put[s] # Idle => s \in updating /\ s \in blocked

\* A browser is not bound before its select binds it; what the select bound is what it was
\* about to answer, and nothing is given to a browser before that answer.
BrowserSound(x) ==
    /\ select[x].at \in {"resolve", "check", "read", "save", "bind"} =>
         session[x].at \in {"discovery", "none"}
    /\ select[x].at \in {"final", "answer"} /\ session[x].at # "none" =>
         /\ session[x].at = "bound" /\ session[x].given = ""
         /\ session[x].service = select[x].service /\ session[x].config = select[x].config
         /\ session[x].since = select[x].since
    /\ select[x].at = "undo" => session[x].given = ""
    /\ x \in discovery /\ select[x].at \notin {"final", "answer", "undo"} =>
         session[x].at = "discovery"

BrowserInv == \A x \in Sessions : BrowserSound(x)

\* As long as nothing was removed, the map of a service is of its enrollment, and gone while a
\* put saves another.
ServicesMatch ==
    \A s \in Services :
        /\ map[s] \in {0, enrolled[s].config}
        /\ put[s].at = "save" => map[s] = 0

\* What a browser was given is configured as its service is enrolled.
BrowserMatches(x) ==
    session[x].given # "" =>
    /\ session[x].service \notin blocked
    /\ session[x].config = enrolled[session[x].service].config

BrowsersMatch == \A x \in Sessions : BrowserMatches(x)

\* A select that saves another configuration has taken the old one out of the map, and once
\* it has saved, the service is enrolled with its configuration.
SelectMatches(x) ==
    /\ select[x].at = "save"
         /\ enrolled[select[x].service].config \notin {0, select[x].config} =>
         map[select[x].service] = 0 /\ select[x].service \in blocked
    /\ select[x].at \in {"bind", "final", "answer"} =>
         enrolled[select[x].service].config = select[x].config

SelectsMatch == \A x \in Sessions : SelectMatches(x)

\* The first invariant: of services, browsers and selects, until something is removed.
MixedInv ==
    removals = 0 =>
        /\ token /\ change.at \notin {"retire", "clean"}
        /\ ServicesMatch /\ BrowsersMatch /\ SelectsMatch

\* A select whose epoch is still the current one chose after the last removal, and its
\* service is still enrolled.
SelectFresh(x) ==
    /\ select[x].at # "idle" => select[x].epoch <= epoch
    /\ select[x].at \in Chosen /\ select[x].epoch = epoch =>
         token /\ select[x].since = removals
    /\ select[x].at \in {"bind", "final", "answer"} /\ select[x].epoch = epoch =>
         enrolled[select[x].service] # None

SelectsFresh == \A x \in Sessions : SelectFresh(x)

\* A browser that was selected rests on a token, unless it is on the list to be closed or the
\* service was lost.
SelectionLinked(x) ==
    session[x].given = "selected" /\ session[x].service \notin lost =>
    /\ session[x].since <= removals
    /\ session[x].since = removals => token
    /\ token \/ change.at = "store" => session[x].since = removals
    /\ IF change.at = "clean" THEN session[x].service \in change.clean
                              ELSE enrolled[session[x].service] # None

SelectedLinked == \A x \in Sessions : SelectionLinked(x)

\* The second invariant: of the selects and the browsers, across removals.
ConnectedInv ==
    /\ change.at \in {"retire", "clean"} => ~token
    /\ SelectsFresh /\ SelectedLinked

\* The inductive invariant of the enrollments.
EnrolInv == EnrolTypeInv /\ OwnInv /\ BrowserInv /\ MixedInv /\ ConnectedInv

\* What the records of a typed state may be.
LEMMA Shapes ==
    ASSUME EnrolInv
    PROVE  /\ \A x \in Sessions :
                /\ select[x].at \in {"idle", "resolve"} \cup Chosen
                /\ select[x].at = "idle" <=> select[x] = Idle
                /\ select[x].at \in Chosen =>
                     /\ select[x].service \in Services /\ select[x].config \in Configs
                     /\ select[x].epoch \in Nat /\ select[x].since \in Nat
                /\ select[x].at = "resolve" => select[x].epoch \in Nat
                /\ session[x] \in Browser
           /\ \A s \in Services :
                /\ put[s].at \in {"idle", "save", "set", "undo"}
                /\ put[s].at = "idle" <=> put[s] = Idle
                /\ put[s] # Idle => put[s].config \in Configs
                /\ enrolled[s] = None <=> enrolled[s].config = 0
                /\ enrolled[s].config \in Configs \cup {0}
           /\ change.at \in {"idle"} \cup Changing
           /\ change.at = "idle" <=> change = Idle
           /\ change # Idle => change.clean \subseteq Services
           /\ 0 \notin Configs
<1>1. EnrolTypeInv
  BY DEF EnrolInv
<1>2. ASSUME NEW x \in Sessions
      PROVE  /\ select[x].at \in {"idle", "resolve"} \cup Chosen
             /\ select[x].at = "idle" <=> select[x] = Idle
             /\ select[x].at \in Chosen =>
                  /\ select[x].service \in Services /\ select[x].config \in Configs
                  /\ select[x].epoch \in Nat /\ select[x].since \in Nat
             /\ select[x].at = "resolve" => select[x].epoch \in Nat
  <2>1. select[x] \in Selects
    BY <1>1 DEF EnrolTypeInv
  <2> QED BY <2>1 DEF Selects, Selection, Idle, Chosen, Owning
<1>3. ASSUME NEW s \in Services
      PROVE  /\ put[s].at \in {"idle", "save", "set", "undo"}
             /\ put[s].at = "idle" <=> put[s] = Idle
             /\ put[s] # Idle => put[s].config \in Configs
  <2>1. put[s] \in Puts
    BY <1>1 DEF EnrolTypeInv
  <2> QED BY <2>1 DEF Puts, Idle
<1>4. ASSUME NEW s \in Services
      PROVE  /\ enrolled[s] = None <=> enrolled[s].config = 0
             /\ enrolled[s].config \in Configs \cup {0}
  <2>1. enrolled[s] \in Enrolled
    BY <1>1 DEF EnrolTypeInv
  <2> QED BY <2>1, ConfigsAssumption DEF Enrolled, None
<1>5. /\ change.at \in {"idle"} \cup Changing
      /\ change.at = "idle" <=> change = Idle
      /\ change # Idle => change.clean \subseteq Services
  <2>1. change \in Changes
    BY <1>1 DEF EnrolTypeInv
  <2> QED BY <2>1 DEF Changes, Changing, Idle
<1>6. \A x \in Sessions : session[x] \in Browser
  BY <1>1 DEF EnrolTypeInv
<1> QED BY <1>2, <1>3, <1>4, <1>5, <1>6, ConfigsAssumption

\* A select that has chosen is a Selection.
LEMMA SelectionAt ==
    ASSUME EnrolInv, NEW x \in Sessions, select[x].at \in Chosen
    PROVE  select[x] \in Selection
<1>1. select[x] \in Selects
  BY DEF EnrolInv, EnrolTypeInv
<1>2. select[x] # Idle /\ select[x].at # "resolve"
  BY DEF Idle, Chosen, Owning
<1>3. select[x] \notin [at : {"resolve"}, epoch : Nat]
  BY <1>2
<1> QED BY <1>1, <1>2, <1>3 DEF Selects

\* A select goes on to its next step with what it chose.
LEMMA Moved ==
    ASSUME EnrolInv, NEW x \in Sessions, NEW to \in Chosen, select[x].at \in Chosen,
           Moves(x, to)
    PROVE  /\ select' \in [Sessions -> Selects]
           /\ select'[x].at = to /\ select'[x].service = select[x].service
           /\ select'[x].config = select[x].config /\ select'[x].since = select[x].since
           /\ select'[x].epoch = select[x].epoch
           /\ \A y \in Sessions \ {x} : select'[y] = select[y]
<1>1. select \in [Sessions -> Selects] /\ select[x] \in Selection
  BY SelectionAt DEF EnrolInv, EnrolTypeInv
<1>2. select'[x] = [select[x] EXCEPT !.at = to] /\ \A y \in Sessions \ {x} : select'[y] = select[y]
  BY <1>1 DEF Moves
<1>3. /\ select'[x].at = to /\ select'[x].service = select[x].service
      /\ select'[x].config = select[x].config /\ select'[x].since = select[x].since
      /\ select'[x].epoch = select[x].epoch
      /\ select'[x] \in Selection
  BY <1>1, <1>2 DEF Selection
<1>4. select' \in [Sessions -> Selects]
  BY <1>1, <1>3 DEF Moves, Selects
<1> QED BY <1>2, <1>3, <1>4

\* A select ends.
LEMMA Ended ==
    ASSUME EnrolInv, NEW x \in Sessions, select' = [select EXCEPT ![x] = Idle]
    PROVE  /\ select' \in [Sessions -> Selects]
           /\ select'[x].at = "idle"
           /\ \A y \in Sessions \ {x} : select'[y] = select[y]
BY DEF EnrolInv, EnrolTypeInv, Selects, Idle

\* A service is enrolled with a configuration.
LEMMA Written ==
    ASSUME EnrolInv, NEW s \in Services, NEW c \in Configs, NEW n \in Nat, Enroll(s, c, n)
    PROVE  /\ enrolled' \in [Services -> Enrolled]
           /\ enrolled'[s].config = c /\ enrolled'[s] # None
           /\ \A r \in Services \ {s} : enrolled'[r] = enrolled[r]
           /\ enrolled[s].config = c => enrolled'[s] = enrolled[s]
<1>1. /\ [config |-> c, since |-> n] \in Enrolled
      /\ [config |-> c, since |-> n].config = c
  BY DEF Enrolled
<1>2. c # 0 /\ None.config = 0
  BY ConfigsAssumption DEF None
<1>3. enrolled \in [Services -> Enrolled]
  BY DEF EnrolInv, EnrolTypeInv
<1>4. CASE enrolled' = enrolled /\ enrolled[s].config = c
  BY <1>2, <1>3, <1>4
<1>5. CASE enrolled' = [enrolled EXCEPT ![s] = [config |-> c, since |-> n]] /\ enrolled[s].config # c
  BY <1>1, <1>2, <1>3, <1>5
<1> QED BY <1>4, <1>5 DEF Enroll

\* The browsers of some services are closed.
LEMMA Closed ==
    ASSUME EnrolInv, NEW ss \in SUBSET Services, session' = Without(ss)
    PROVE  /\ session' \in [Sessions -> Browser]
           /\ \A x \in Sessions :
                /\ \/ session'[x] = session[x]
                   \/ session[x].at = "bound" /\ session'[x].at = "none" /\ session'[x].given = ""
                /\ session'[x].at = "bound" => session'[x].service \notin ss
                /\ session'[x].given # "" => session'[x] = session[x] /\ session'[x].service \notin ss
<1>1. NoSession \in Browser
  BY DEF NoSession, Browser
<1>2. \A x \in Sessions : session[x].at # "bound" => session[x].given = ""
  BY DEF EnrolInv, EnrolTypeInv
<1> QED BY <1>1, <1>2 DEF EnrolInv, EnrolTypeInv, Without, NoSession

\* A change of the connections goes on to its next step.
LEMMA Turned ==
    ASSUME EnrolInv, change # Idle, NEW to \in Changing, Change(to)
    PROVE  /\ change' \in Changes /\ change'.at = to /\ change'.op = change.op
           /\ change'.clean = change.clean
<1>1. change \in [at : Changing, op : {"remove", "put", "discovery"}, clean : SUBSET Services]
  BY DEF EnrolInv, EnrolTypeInv, Changes
<1> QED BY <1>1 DEF Change, Changes

\* A new epoch outdates every select.
LEMMA FreshAfter ==
    ASSUME EnrolInv, epoch' = epoch + 1, UNCHANGED select
    PROVE  SelectsFresh'
<1> SUFFICES ASSUME NEW y \in Sessions PROVE SelectFresh(y)'
  BY DEF SelectsFresh
<1>1. SelectFresh(y) /\ epoch \in Nat
  BY DEF EnrolInv, ConnectedInv, SelectsFresh, EnrolTypeInv
<1>2. select[y].at # "idle" =>
        select[y].epoch \in Nat /\ select[y].epoch <= epoch' /\ select[y].epoch # epoch'
  <2>1. select[y].at # "idle" => select[y].epoch \in Nat /\ select[y].epoch <= epoch
    BY <1>1, Shapes DEF SelectFresh
  <2> QED BY <1>1, <2>1
<1> QED BY <1>2 DEF SelectFresh, Chosen, Owning

\* Browsers are opened and closed.
LEMMA OpenDiscoveryStep ==
    ASSUME EnrolInv, NEW x \in Sessions, OpenDiscovery(x) PROVE EnrolInv'
<1>1. EnrolTypeInv'
  BY DEF EnrolInv, EnrolTypeInv, Browser, OpenDiscovery, stored, services, bounds, NoSession
<1>2. OwnInv'
  BY DEF EnrolInv, OwnInv, OpenDiscovery, services
<1>3. BrowserInv'
  BY Shapes DEF EnrolInv, BrowserInv, BrowserSound, EnrolTypeInv, OpenDiscovery, NoSession
<1>4. MixedInv'
  BY DEF EnrolInv, MixedInv, ServicesMatch, BrowsersMatch, BrowserMatches, SelectsMatch,
         SelectMatches, EnrolTypeInv, OpenDiscovery, stored, services, bounds, NoSession
<1>5. ConnectedInv'
  BY DEF EnrolInv, ConnectedInv, SelectsFresh, SelectFresh, SelectedLinked, SelectionLinked,
         EnrolTypeInv, OpenDiscovery, stored, bounds, history, NoSession
<1> QED BY <1>1, <1>2, <1>3, <1>4, <1>5 DEF EnrolInv

LEMMA OpenServiceStep ==
    ASSUME EnrolInv, NEW x \in Sessions, NEW s \in Services, OpenService(x, s) PROVE EnrolInv'
<1>1. EnrolTypeInv'
  <2>1. map[s] \in Configs /\ enrolled[s].since \in Nat
    <3>1. map[s] \in Configs \cup {0} /\ map[s] # 0 /\ enrolled[s] \in Enrolled
      BY DEF EnrolInv, EnrolTypeInv, OpenService
    <3> QED BY <3>1 DEF Enrolled, None
  <2>2. [at |-> "bound", service |-> s, config |-> map[s], since |-> enrolled[s].since,
         given |-> "opened"] \in Browser
    BY <2>1 DEF Browser
  <2> QED BY <2>1, <2>2
     DEF EnrolInv, EnrolTypeInv, OpenService, stored, catalog, services, bounds, history, Idle
<1>2. OwnInv'
  BY DEF EnrolInv, OwnInv, OpenService, services
<1>3. BrowserInv'
  BY Shapes
     DEF EnrolInv, BrowserInv, BrowserSound, EnrolTypeInv, Browser, OpenService, stored,
         catalog, services, bounds, history, Idle, Chosen, Owning
<1>4. MixedInv'
  <2>1. /\ s \notin blocked /\ map[s] # 0
        /\ session'[x].service = s /\ session'[x].config = map[s]
        /\ \A y \in Sessions \ {x} : session'[y] = session[y]
    BY DEF EnrolInv, EnrolTypeInv, OpenService
  <2>2. UNCHANGED <<token, enrolled, map, removals, blocked, select, put, change>>
    BY DEF OpenService, stored, services, bounds
  <2> SUFFICES ASSUME removals = 0
               PROVE  /\ token /\ change.at \notin {"retire", "clean"}
                      /\ ServicesMatch' /\ BrowsersMatch' /\ SelectsMatch'
    BY <2>2 DEF MixedInv
  <2>3. /\ token /\ change.at \notin {"retire", "clean"}
        /\ ServicesMatch /\ BrowsersMatch /\ SelectsMatch
    BY DEF EnrolInv, MixedInv
  <2>4. BrowsersMatch'
    BY <2>1, <2>2, <2>3 DEF BrowsersMatch, BrowserMatches, ServicesMatch
  <2>5. ServicesMatch' /\ SelectsMatch'
    BY <2>2, <2>3 DEF ServicesMatch, SelectsMatch, SelectMatches
  <2> QED BY <2>3, <2>4, <2>5
<1>5. ConnectedInv'
  BY DEF EnrolInv, ConnectedInv, SelectsFresh, SelectFresh, SelectedLinked, SelectionLinked,
         OpenService, stored, catalog, bounds, history
<1> QED BY <1>1, <1>2, <1>3, <1>4, <1>5 DEF EnrolInv

LEMMA CloseBrowserStep ==
    ASSUME EnrolInv, NEW x \in Sessions, CloseBrowser(x) PROVE EnrolInv'
<1>1. EnrolTypeInv'
  BY DEF EnrolInv, EnrolTypeInv, Browser, CloseBrowser, stored, services, bounds, NoSession
<1>2. OwnInv'
  BY DEF EnrolInv, OwnInv, CloseBrowser, services
<1>3. BrowserInv'
  BY DEF EnrolInv, BrowserInv, BrowserSound, EnrolTypeInv, CloseBrowser, NoSession
<1>4. MixedInv'
  BY DEF EnrolInv, MixedInv, ServicesMatch, BrowsersMatch, BrowserMatches, SelectsMatch,
         SelectMatches, EnrolTypeInv, CloseBrowser, stored, services, bounds, NoSession
<1>5. ConnectedInv'
  BY DEF EnrolInv, ConnectedInv, SelectsFresh, SelectFresh, SelectedLinked, SelectionLinked,
         EnrolTypeInv, CloseBrowser, stored, bounds, history, NoSession
<1> QED BY <1>1, <1>2, <1>3, <1>4, <1>5 DEF EnrolInv

\* A select: it chooses a service, saves its configuration, binds the browser, and is answered
\* or undone.
LEMMA BeginSelectStep ==
    ASSUME EnrolInv, NEW x \in Sessions, BeginSelect(x) PROVE EnrolInv'
<1>1. /\ select' \in [Sessions -> Selects]
      /\ \A y \in Sessions :
           \/ select'[y] = select[y]
           \/ /\ select[y].at = "idle" /\ y \in discovery
              /\ select'[y].at = "resolve" /\ select'[y].epoch = epoch
  <2>1. [at |-> "resolve", epoch |-> epoch] \in Selects
    BY DEF Selects, EnrolInv, EnrolTypeInv
  <2>2. /\ select \in [Sessions -> Selects]
        /\ select[x] = Idle /\ select[x].at = "idle" /\ x \in discovery
    BY Shapes DEF EnrolInv, EnrolTypeInv, BeginSelect
  <2>3. select' = [select EXCEPT ![x] = [at |-> "resolve", epoch |-> epoch]]
    BY DEF BeginSelect
  <2> QED BY <2>1, <2>2, <2>3
<1>2. UNCHANGED <<token, enabled, enrolled, map, epoch, removals, session, discovery, updating,
                  blocked, put, change, lost>>
  BY DEF BeginSelect, stored, services, bounds, history
<1>3. epoch \in Nat
  BY DEF EnrolInv, EnrolTypeInv
<1>4. EnrolTypeInv'
  BY <1>1, <1>2 DEF EnrolInv, EnrolTypeInv
<1>5. OwnInv'
  BY <1>1, <1>2 DEF EnrolInv, OwnInv, Chosen, Owning
<1>6. BrowserInv'
  <2> SUFFICES ASSUME NEW y \in Sessions PROVE BrowserSound(y)'
    BY DEF BrowserInv
  <2>1. BrowserSound(y)
    BY DEF EnrolInv, BrowserInv
  <2>2. CASE y = x
    BY <2>1, <2>2, <1>1, <1>2 DEF BrowserSound
  <2>3. CASE y # x
    BY <2>1, <2>3, <1>1, <1>2 DEF BrowserSound
  <2> QED BY <2>2, <2>3
<1>7. MixedInv'
  <2> SUFFICES ASSUME removals' = 0
               PROVE  /\ (token /\ change.at \notin {"retire", "clean"})'
                      /\ ServicesMatch' /\ BrowsersMatch' /\ SelectsMatch'
    BY DEF MixedInv
  <2>1. /\ removals = 0 /\ token /\ change.at \notin {"retire", "clean"}
        /\ ServicesMatch /\ BrowsersMatch /\ SelectsMatch
    BY <1>1, <1>2 DEF EnrolInv, MixedInv
  <2>2. (token /\ change.at \notin {"retire", "clean"})'
    BY <1>1, <1>2, <2>1
  <2>3. ServicesMatch'
    BY <1>2, <2>1 DEF ServicesMatch
  <2>4. BrowsersMatch'
    BY <1>2, <2>1 DEF BrowsersMatch, BrowserMatches
  <2>5. SelectsMatch'
    BY <1>1, <1>2, <2>1 DEF SelectsMatch, SelectMatches
  <2> QED BY <2>2, <2>3, <2>4, <2>5
<1>8. ConnectedInv'
  <2>1. (change.at \in {"retire", "clean"} => ~token) /\ SelectsFresh /\ SelectedLinked
    BY DEF EnrolInv, ConnectedInv
  <2>2. (change.at \in {"retire", "clean"} => ~token)'
    BY <1>2, <2>1
  <2>3. SelectsFresh'
    BY <1>1, <1>2, <1>3, <2>1 DEF SelectsFresh, SelectFresh, Chosen, Owning
  <2>4. SelectedLinked'
    BY <1>2, <2>1 DEF SelectedLinked, SelectionLinked
  <2> QED BY <2>2, <2>3, <2>4 DEF ConnectedInv
<1> QED BY <1>4, <1>5, <1>6, <1>7, <1>8 DEF EnrolInv

LEMMA SelectTimesOutStep ==
    ASSUME EnrolInv, NEW x \in Sessions, SelectTimesOut(x) PROVE EnrolInv'
<1>1. /\ select' \in [Sessions -> Selects]
      /\ \A y \in Sessions :
           \/ select'[y] = select[y]
           \/ /\ select[y].at = "resolve"
              /\ select'[y].at = "idle"
  BY Ended DEF SelectTimesOut
<1>2. UNCHANGED <<token, enabled, enrolled, map, epoch, removals, session, discovery, updating,
                  blocked, put, change, lost>>
  BY DEF SelectTimesOut, stored, catalog, services, bounds, history
<1>3. epoch \in Nat
  BY DEF EnrolInv, EnrolTypeInv
<1>4. EnrolTypeInv'
  BY <1>1, <1>2 DEF EnrolInv, EnrolTypeInv
<1>5. OwnInv'
  BY <1>1, <1>2 DEF EnrolInv, OwnInv, Chosen, Owning
<1>6. BrowserInv'
  <2> SUFFICES ASSUME NEW y \in Sessions PROVE BrowserSound(y)'
    BY DEF BrowserInv
  <2>1. BrowserSound(y)
    BY DEF EnrolInv, BrowserInv
  <2>2. CASE y = x
    BY <2>1, <2>2, <1>1, <1>2 DEF BrowserSound
  <2>3. CASE y # x
    BY <2>1, <2>3, <1>1, <1>2 DEF BrowserSound
  <2> QED BY <2>2, <2>3
<1>7. MixedInv'
  <2> SUFFICES ASSUME removals' = 0
               PROVE  /\ (token /\ change.at \notin {"retire", "clean"})'
                      /\ ServicesMatch' /\ BrowsersMatch' /\ SelectsMatch'
    BY DEF MixedInv
  <2>1. /\ removals = 0 /\ token /\ change.at \notin {"retire", "clean"}
        /\ ServicesMatch /\ BrowsersMatch /\ SelectsMatch
    BY <1>1, <1>2 DEF EnrolInv, MixedInv
  <2>2. (token /\ change.at \notin {"retire", "clean"})'
    BY <1>1, <1>2, <2>1
  <2>3. ServicesMatch'
    BY <1>2, <2>1 DEF ServicesMatch
  <2>4. BrowsersMatch'
    BY <1>2, <2>1 DEF BrowsersMatch, BrowserMatches
  <2>5. SelectsMatch'
    BY <1>1, <1>2, <2>1 DEF SelectsMatch, SelectMatches
  <2> QED BY <2>2, <2>3, <2>4, <2>5
<1>8. ConnectedInv'
  <2>1. (change.at \in {"retire", "clean"} => ~token) /\ SelectsFresh /\ SelectedLinked
    BY DEF EnrolInv, ConnectedInv
  <2>2. (change.at \in {"retire", "clean"} => ~token)'
    BY <1>2, <2>1
  <2>3. SelectsFresh'
    BY <1>1, <1>2, <1>3, <2>1 DEF SelectsFresh, SelectFresh, Chosen, Owning
  <2>4. SelectedLinked'
    BY <1>2, <2>1 DEF SelectedLinked, SelectionLinked
  <2> QED BY <2>2, <2>3, <2>4 DEF ConnectedInv
<1> QED BY <1>4, <1>5, <1>6, <1>7, <1>8 DEF EnrolInv

LEMMA ResolvedStep ==
    ASSUME EnrolInv, NEW x \in Sessions, NEW s \in Services, NEW c \in Configs,
           Resolved(x, s, c)
    PROVE  EnrolInv'
<1>1. /\ select' \in [Sessions -> Selects]
      /\ \A y \in Sessions :
           \/ select'[y] = select[y]
           \/ /\ select[y].at = "resolve"
              /\ select'[y].at = "check" /\ token
              /\ select'[y].epoch = select[y].epoch /\ select'[y].since = removals
  <2> DEFINE chosen == [at |-> "check", epoch |-> select[x].epoch, service |-> s, config |-> c,
                        since |-> removals, changing |-> FALSE]
  <2>1. select \in [Sessions -> Selects] /\ removals \in Nat /\ token
    BY DEF EnrolInv, EnrolTypeInv, Resolved
  <2>2. CASE select[x].at = "resolve" /\ select' = [select EXCEPT ![x] = chosen]
    <3>1. select[x].epoch \in Nat
      BY <2>2, Shapes
    <3>2. /\ chosen \in Selection /\ chosen.at = "check" /\ chosen.epoch = select[x].epoch
          /\ chosen.since = removals
      BY <2>1, <3>1 DEF Selection, Chosen
    <3> HIDE DEF chosen
    <3> QED BY <2>1, <2>2, <3>2 DEF Selects
  <2>3. CASE select' = select
    BY <2>1, <2>3
  <2> QED BY <2>2, <2>3 DEF Resolved
<1>2. UNCHANGED <<token, enabled, enrolled, map, epoch, removals, session, discovery, updating,
                  blocked, put, change, lost>>
  BY DEF Resolved, stored, services, bounds, history
<1>3. epoch \in Nat
  BY DEF EnrolInv, EnrolTypeInv
<1>4. EnrolTypeInv'
  BY <1>1, <1>2 DEF EnrolInv, EnrolTypeInv
<1>5. OwnInv'
  BY <1>1, <1>2 DEF EnrolInv, OwnInv, Chosen, Owning
<1>6. BrowserInv'
  <2> SUFFICES ASSUME NEW y \in Sessions PROVE BrowserSound(y)'
    BY DEF BrowserInv
  <2>1. BrowserSound(y)
    BY DEF EnrolInv, BrowserInv
  <2>2. CASE y = x
    BY <2>1, <2>2, <1>1, <1>2 DEF BrowserSound
  <2>3. CASE y # x
    BY <2>1, <2>3, <1>1, <1>2 DEF BrowserSound
  <2> QED BY <2>2, <2>3
<1>7. MixedInv'
  <2> SUFFICES ASSUME removals' = 0
               PROVE  /\ (token /\ change.at \notin {"retire", "clean"})'
                      /\ ServicesMatch' /\ BrowsersMatch' /\ SelectsMatch'
    BY DEF MixedInv
  <2>1. /\ removals = 0 /\ token /\ change.at \notin {"retire", "clean"}
        /\ ServicesMatch /\ BrowsersMatch /\ SelectsMatch
    BY <1>1, <1>2 DEF EnrolInv, MixedInv
  <2>2. (token /\ change.at \notin {"retire", "clean"})'
    BY <1>1, <1>2, <2>1
  <2>3. ServicesMatch'
    BY <1>2, <2>1 DEF ServicesMatch
  <2>4. BrowsersMatch'
    BY <1>2, <2>1 DEF BrowsersMatch, BrowserMatches
  <2>5. SelectsMatch'
    BY <1>1, <1>2, <2>1 DEF SelectsMatch, SelectMatches
  <2> QED BY <2>2, <2>3, <2>4, <2>5
<1>8. ConnectedInv'
  <2>1. (change.at \in {"retire", "clean"} => ~token) /\ SelectsFresh /\ SelectedLinked
    BY DEF EnrolInv, ConnectedInv
  <2>2. (change.at \in {"retire", "clean"} => ~token)'
    BY <1>2, <2>1
  <2>3. SelectsFresh'
    BY <1>1, <1>2, <1>3, <2>1 DEF SelectsFresh, SelectFresh, Chosen, Owning
  <2>4. SelectedLinked'
    BY <1>2, <2>1 DEF SelectedLinked, SelectionLinked
  <2> QED BY <2>2, <2>3, <2>4 DEF ConnectedInv
<1> QED BY <1>4, <1>5, <1>6, <1>7, <1>8 DEF EnrolInv

LEMMA ResolveFailsStep ==
    ASSUME EnrolInv, NEW x \in Sessions, ResolveFails(x) PROVE EnrolInv'
<1>1. /\ select' \in [Sessions -> Selects]
      /\ \A y \in Sessions :
           \/ select'[y] = select[y]
           \/ /\ select[y].at = "resolve"
              /\ select'[y].at = "idle"
  <2>1. select \in [Sessions -> Selects]
    BY DEF EnrolInv, EnrolTypeInv
  <2>2. CASE select[x].at = "resolve" /\ select' = [select EXCEPT ![x] = Idle]
    BY <2>2, Ended
  <2>3. CASE select' = select
    BY <2>1, <2>3
  <2> QED BY <2>2, <2>3 DEF ResolveFails
<1>2. UNCHANGED <<token, enabled, enrolled, map, epoch, removals, session, discovery, updating,
                  blocked, put, change, lost>>
  BY DEF ResolveFails, stored, services, bounds, history
<1>3. epoch \in Nat
  BY DEF EnrolInv, EnrolTypeInv
<1>4. EnrolTypeInv'
  BY <1>1, <1>2 DEF EnrolInv, EnrolTypeInv
<1>5. OwnInv'
  BY <1>1, <1>2 DEF EnrolInv, OwnInv, Chosen, Owning
<1>6. BrowserInv'
  <2> SUFFICES ASSUME NEW y \in Sessions PROVE BrowserSound(y)'
    BY DEF BrowserInv
  <2>1. BrowserSound(y)
    BY DEF EnrolInv, BrowserInv
  <2>2. CASE y = x
    BY <2>1, <2>2, <1>1, <1>2 DEF BrowserSound
  <2>3. CASE y # x
    BY <2>1, <2>3, <1>1, <1>2 DEF BrowserSound
  <2> QED BY <2>2, <2>3
<1>7. MixedInv'
  <2> SUFFICES ASSUME removals' = 0
               PROVE  /\ (token /\ change.at \notin {"retire", "clean"})'
                      /\ ServicesMatch' /\ BrowsersMatch' /\ SelectsMatch'
    BY DEF MixedInv
  <2>1. /\ removals = 0 /\ token /\ change.at \notin {"retire", "clean"}
        /\ ServicesMatch /\ BrowsersMatch /\ SelectsMatch
    BY <1>1, <1>2 DEF EnrolInv, MixedInv
  <2>2. (token /\ change.at \notin {"retire", "clean"})'
    BY <1>1, <1>2, <2>1
  <2>3. ServicesMatch'
    BY <1>2, <2>1 DEF ServicesMatch
  <2>4. BrowsersMatch'
    BY <1>2, <2>1 DEF BrowsersMatch, BrowserMatches
  <2>5. SelectsMatch'
    BY <1>1, <1>2, <2>1 DEF SelectsMatch, SelectMatches
  <2> QED BY <2>2, <2>3, <2>4, <2>5
<1>8. ConnectedInv'
  <2>1. (change.at \in {"retire", "clean"} => ~token) /\ SelectsFresh /\ SelectedLinked
    BY DEF EnrolInv, ConnectedInv
  <2>2. (change.at \in {"retire", "clean"} => ~token)'
    BY <1>2, <2>1
  <2>3. SelectsFresh'
    BY <1>1, <1>2, <1>3, <2>1 DEF SelectsFresh, SelectFresh, Chosen, Owning
  <2>4. SelectedLinked'
    BY <1>2, <2>1 DEF SelectedLinked, SelectionLinked
  <2> QED BY <2>2, <2>3, <2>4 DEF ConnectedInv
<1> QED BY <1>4, <1>5, <1>6, <1>7, <1>8 DEF EnrolInv

LEMMA CheckSelectedStep ==
    ASSUME EnrolInv, NEW x \in Sessions, CheckSelected(x) PROVE EnrolInv'
<1>1. select[x].at = "check" /\ select[x].service \in Services
  BY Shapes DEF CheckSelected
<1>2. UNCHANGED <<token, enabled, enrolled, map, epoch, removals, session, discovery, blocked,
                  put, change, lost>>
  BY DEF CheckSelected, stored, catalog, bounds, history
<1>3. \/ /\ select[x].service \notin updating \cup blocked
         /\ updating' = updating \cup {select[x].service} /\ Moves(x, "read")
      \/ select' = [select EXCEPT ![x] = Idle] /\ updating' = updating
  BY DEF CheckSelected
<1>4. /\ select' \in [Sessions -> Selects]
      /\ \A y \in Sessions \ {x} : select'[y] = select[y]
      /\ \/ /\ select'[x].at = "read"
            /\ select'[x].service = select[x].service /\ select'[x].config = select[x].config
            /\ select'[x].since = select[x].since /\ select'[x].epoch = select[x].epoch
            /\ select[x].service \notin updating \cup blocked
            /\ updating' = updating \cup {select[x].service}
         \/ select'[x].at = "idle" /\ updating' = updating
  <2>1. select[x].at \in Chosen /\ "read" \in Chosen
    BY <1>1 DEF Chosen, Owning
  <2>2. CASE Moves(x, "read")
    BY <1>3, <2>1, <2>2, Moved, Ended
  <2>3. CASE select' = [select EXCEPT ![x] = Idle]
    BY <1>3, <2>1, <2>3, Moved, Ended
  <2> QED BY <1>3, <2>2, <2>3
<1>5. EnrolTypeInv'
  BY <1>1, <1>2, <1>4 DEF EnrolInv, EnrolTypeInv
<1>6. OwnInv'
  BY <1>1, <1>2, <1>4 DEF EnrolInv, OwnInv, Chosen, Owning
<1>7. BrowserInv'
  <2> SUFFICES ASSUME NEW y \in Sessions PROVE BrowserSound(y)'
    BY DEF BrowserInv
  <2>1. BrowserSound(y)
    BY DEF EnrolInv, BrowserInv
  <2>2. CASE y = x
    BY <2>1, <2>2, <1>1, <1>2, <1>4 DEF BrowserSound
  <2>3. CASE y # x
    BY <2>1, <2>3, <1>1, <1>2, <1>4 DEF BrowserSound
  <2> QED BY <2>2, <2>3
<1>8. MixedInv'
  <2> SUFFICES ASSUME removals' = 0
               PROVE  /\ (token /\ change.at \notin {"retire", "clean"})'
                      /\ ServicesMatch' /\ BrowsersMatch' /\ SelectsMatch'
    BY DEF MixedInv
  <2>1. /\ removals = 0 /\ token /\ change.at \notin {"retire", "clean"}
        /\ ServicesMatch /\ BrowsersMatch /\ SelectsMatch
    BY <1>1, <1>2, <1>4 DEF EnrolInv, MixedInv
  <2>2. (token /\ change.at \notin {"retire", "clean"})'
    BY <1>1, <1>2, <1>4, <2>1
  <2>3. ServicesMatch'
    BY <1>2, <2>1 DEF ServicesMatch
  <2>4. BrowsersMatch'
    BY <1>2, <2>1 DEF BrowsersMatch, BrowserMatches
  <2>5. SelectsMatch'
    BY <1>1, <1>2, <1>4, <2>1 DEF SelectsMatch, SelectMatches
  <2> QED BY <2>2, <2>3, <2>4, <2>5
<1>9. ConnectedInv'
  <2>1. (change.at \in {"retire", "clean"} => ~token) /\ SelectsFresh /\ SelectedLinked
    BY DEF EnrolInv, ConnectedInv
  <2>2. (change.at \in {"retire", "clean"} => ~token)'
    BY <1>2, <2>1
  <2>3. SelectsFresh'
    BY <1>1, <1>2, <1>4, <2>1 DEF SelectsFresh, SelectFresh, Chosen, Owning
  <2>4. SelectedLinked'
    BY <1>2, <2>1 DEF SelectedLinked, SelectionLinked
  <2> QED BY <2>2, <2>3, <2>4 DEF ConnectedInv
<1> QED BY <1>5, <1>6, <1>7, <1>8, <1>9 DEF EnrolInv

LEMMA ReadPreviousStep ==
    ASSUME EnrolInv, NEW x \in Sessions, ReadPrevious(x) PROVE EnrolInv'
<1> DEFINE s == select[x].service
           differs == enrolled[s] # None /\ enrolled[s].config # select[x].config
<1>1. select[x].at = "read" /\ s \in Services
  BY Shapes DEF ReadPrevious
<1>2. UNCHANGED <<token, enabled, enrolled, epoch, removals, discovery, updating, put, change,
                  lost>>
  BY DEF ReadPrevious, stored, catalog, bounds, history
<1>3. /\ select' \in [Sessions -> Selects]
      /\ \A y \in Sessions \ {x} : select'[y] = select[y]
      /\ select'[x].at = "save"
      /\ select'[x].service = select[x].service /\ select'[x].config = select[x].config
      /\ select'[x].since = select[x].since /\ select'[x].epoch = select[x].epoch
  <2>1. select[x] \in Selection /\ select \in [Sessions -> Selects]
    BY <1>1, SelectionAt DEF EnrolInv, EnrolTypeInv, Chosen, Owning
  <2>2. /\ select'[x] = [select[x] EXCEPT !.at = "save", !.changing = differs]
        /\ select' = [select EXCEPT ![x] = select'[x]]
        /\ \A y \in Sessions \ {x} : select'[y] = select[y]
    BY <2>1 DEF ReadPrevious
  <2>3. differs \in BOOLEAN
    OBVIOUS
  <2> HIDE DEF differs
  <2>4. /\ select'[x] \in Selection
        /\ select'[x].at = "save"
        /\ select'[x].service = select[x].service /\ select'[x].config = select[x].config
        /\ select'[x].since = select[x].since /\ select'[x].epoch = select[x].epoch
    BY <2>1, <2>2, <2>3 DEF Selection, Chosen, Owning
  <2>5. select' \in [Sessions -> Selects]
    BY <2>1, <2>2, <2>4 DEF Selects
  <2> QED BY <2>2, <2>4, <2>5
<1>4. \/ /\ differs /\ blocked' = blocked \cup {s}
         /\ map' = [r \in Services |-> IF r \in {s} THEN 0 ELSE map[r]]
         /\ session' = Without({s})
      \/ ~differs /\ UNCHANGED <<map, blocked, session>>
  BY DEF ReadPrevious, RemoveServices
<1>5. /\ session' \in [Sessions -> Browser]
      /\ \A y \in Sessions :
           /\ \/ session'[y] = session[y]
              \/ session[y].at = "bound" /\ session'[y].at = "none" /\ session'[y].given = ""
           /\ session'[y].given # "" => session'[y] = session[y]
           /\ differs /\ session'[y].given # "" => session'[y].service # s
  <2>1. CASE session' = Without({s})
    <3>1. {s} \in SUBSET Services
      BY <1>1
    <3> HIDE DEF differs
    <3> QED BY <2>1, <3>1, Closed
  <2>2. CASE ~differs /\ session' = session
    BY <2>2, Shapes DEF EnrolInv, EnrolTypeInv
  <2> QED BY <1>4, <2>1, <2>2
<1>6. /\ map' \in [Services -> Configs \cup {0}]
      /\ \A r \in Services : map'[r] = map[r] \/ map'[r] = 0
      /\ differs => map'[s] = 0 /\ s \in blocked'
      /\ blocked \subseteq blocked' /\ blocked' \subseteq blocked \cup {s}
      /\ ~differs => blocked' = blocked
  BY <1>1, <1>4 DEF EnrolInv, EnrolTypeInv
<1>7. \A y \in Sessions \ {x} : select[y].at \in Owning => select[y].service # select[x].service
  BY <1>1 DEF EnrolInv, OwnInv, Owning
<1>8. enrolled[s].config \notin {0, select[x].config} => differs
  BY DEF None
<1>9. \A y \in Sessions :
         /\ \/ session'[y] = session[y]
            \/ session[y].at = "bound" /\ session'[y].at = "none" /\ session'[y].given = ""
         /\ session'[y].given # "" => session'[y] = session[y]
  BY <1>5
<1>10. /\ session' \in [Sessions -> Browser]
       /\ \A y \in Sessions : session'[y].at # "bound" => session'[y].given = ""
       /\ \A y \in Sessions : session'[y].at = "bound" => session'[y] = session[y]
  <2>1. \A y \in Sessions : session[y].at # "bound" => session[y].given = ""
    BY DEF EnrolInv, EnrolTypeInv
  <2> QED BY <1>5, <2>1
<1>11. \A y \in Sessions : session'[y].given = "selected" => session'[y] = session[y]
  BY <1>9
<1> HIDE DEF differs
<1>12. \A y \in Sessions : select[y].at \in Owning => select[y].service \in Services
  BY Shapes DEF Chosen
<1>13. EnrolTypeInv'
  BY <1>2, <1>3, <1>6, <1>10 DEF EnrolInv, EnrolTypeInv
<1>14. OwnInv'
  BY <1>1, <1>2, <1>3, <1>6 DEF EnrolInv, OwnInv, Chosen, Owning
<1>15. BrowserInv'
  <2> SUFFICES ASSUME NEW y \in Sessions PROVE BrowserSound(y)'
    BY DEF BrowserInv
  <2>1. BrowserSound(y)
    BY DEF EnrolInv, BrowserInv
  <2>2. CASE y = x
    BY <2>1, <2>2, <1>1, <1>2, <1>3, <1>9 DEF BrowserSound
  <2>3. CASE y # x
    BY <2>1, <2>3, <1>1, <1>2, <1>3, <1>9 DEF BrowserSound
  <2> QED BY <2>2, <2>3
<1>16. MixedInv'
  <2> SUFFICES ASSUME removals' = 0
               PROVE  /\ (token /\ change.at \notin {"retire", "clean"})'
                      /\ ServicesMatch' /\ BrowsersMatch' /\ SelectsMatch'
    BY DEF MixedInv
  <2>1. /\ removals = 0 /\ token /\ change.at \notin {"retire", "clean"}
        /\ ServicesMatch /\ BrowsersMatch /\ SelectsMatch
    BY <1>1, <1>2, <1>3, <1>5, <1>6 DEF EnrolInv, MixedInv
  <2>2. (token /\ change.at \notin {"retire", "clean"})'
    BY <1>1, <1>2, <1>3, <1>5, <1>6, <2>1
  <2>3. ServicesMatch'
    BY <1>2, <1>6, <2>1 DEF ServicesMatch
  <2>4. BrowsersMatch'
    BY <1>2, <1>5, <1>6, <2>1 DEF BrowsersMatch, BrowserMatches
  <2>5. SelectsMatch'
    BY <1>1, <1>2, <1>3, <1>6, <1>7, <1>8, <1>12, <2>1 DEF SelectsMatch, SelectMatches, Owning
  <2> QED BY <2>2, <2>3, <2>4, <2>5
<1>17. ConnectedInv'
  <2>1. (change.at \in {"retire", "clean"} => ~token) /\ SelectsFresh /\ SelectedLinked
    BY DEF EnrolInv, ConnectedInv
  <2>2. (change.at \in {"retire", "clean"} => ~token)'
    BY <1>2, <2>1
  <2>3. SelectsFresh'
    BY <1>1, <1>2, <1>3, <2>1 DEF SelectsFresh, SelectFresh, Chosen, Owning
  <2>4. SelectedLinked'
    BY <1>2, <1>11, <2>1 DEF SelectedLinked, SelectionLinked
  <2> QED BY <2>2, <2>3, <2>4 DEF ConnectedInv
<1> QED BY <1>13, <1>14, <1>15, <1>16, <1>17 DEF EnrolInv

LEMMA SaveSelectedStep ==
    ASSUME EnrolInv, NEW x \in Sessions, SaveSelected(x) PROVE EnrolInv'
<1> DEFINE s == select[x].service
           c == select[x].config
<1>1. /\ select[x].at = "save" /\ s \in Services /\ c \in Configs /\ select[x].since \in Nat
      /\ s \in updating /\ put[s] = Idle
  BY Shapes DEF SaveSelected, EnrolInv, OwnInv, Owning
<1>2. UNCHANGED <<token, enabled, map, epoch, removals, session, discovery, blocked, put,
                  change, lost>>
  BY DEF SaveSelected, catalog, history
<1>3. /\ enrolled' \in [Services -> Enrolled]
      /\ \A r \in Services \ {s} : enrolled'[r] = enrolled[r]
      /\ \/ enrolled'[s] = enrolled[s]
         \/ enrolled'[s].config = c /\ enrolled'[s] # None /\ enrolled[s].config # c
  <2>1. CASE Enroll(s, c, select[x].since)
    BY <1>1, <2>1, Written
  <2>2. CASE enrolled' = enrolled
    BY <2>2 DEF EnrolInv, EnrolTypeInv
  <2> QED BY <2>1, <2>2 DEF SaveSelected, Idle
<1>4. \/ Enroll(s, c, select[x].since) /\ Moves(x, "bind") /\ updating' = updating
      \/ select' = [select EXCEPT ![x] = Idle] /\ updating' = updating \ {s}
  BY DEF SaveSelected
<1>5. /\ select' \in [Sessions -> Selects]
      /\ \A y \in Sessions \ {x} : select'[y] = select[y]
      /\ \/ /\ select'[x].at = "bind"
            /\ select'[x].service = s /\ select'[x].config = c
            /\ select'[x].since = select[x].since /\ select'[x].epoch = select[x].epoch
            /\ enrolled'[s].config = c /\ enrolled'[s] # None /\ updating' = updating
         \/ select'[x].at = "idle" /\ updating' = updating \ {s}
  <2>1. CASE Enroll(s, c, select[x].since) /\ Moves(x, "bind") /\ updating' = updating
    <3>1. select[x].at \in Chosen /\ "bind" \in Chosen
      BY <1>1 DEF Chosen, Owning
    <3>2. enrolled'[s].config = c /\ enrolled'[s] # None
      BY <1>1, <2>1, Written
    <3> QED BY <2>1, <3>1, <3>2, Moved
  <2>2. CASE select' = [select EXCEPT ![x] = Idle] /\ updating' = updating \ {s}
    BY <2>2, Ended
  <2> QED BY <1>4, <2>1, <2>2
<1>6. \A y \in Sessions \ {x} : select[y].at \in Owning => select[y].service # select[x].service
  BY <1>1 DEF EnrolInv, OwnInv, Owning
<1>7. \A y \in Sessions : session[y].given # "" =>
         session[y].service \in Services /\ session[y].config \in Configs /\ session[y].config # 0
  BY ConfigsAssumption DEF EnrolInv, EnrolTypeInv
<1>8. \A y \in Sessions : select[y].at \in Owning => select[y].service \in Services
  BY Shapes DEF Chosen
<1>9. EnrolTypeInv'
  BY <1>2, <1>3, <1>5 DEF EnrolInv, EnrolTypeInv
<1>10. OwnInv'
  BY <1>1, <1>2, <1>5 DEF EnrolInv, OwnInv, Chosen, Owning
<1>11. BrowserInv'
  <2> SUFFICES ASSUME NEW y \in Sessions PROVE BrowserSound(y)'
    BY DEF BrowserInv
  <2>1. BrowserSound(y)
    BY DEF EnrolInv, BrowserInv
  <2>2. CASE y = x
    BY <2>1, <2>2, <1>1, <1>2, <1>5 DEF BrowserSound
  <2>3. CASE y # x
    BY <2>1, <2>3, <1>1, <1>2, <1>5 DEF BrowserSound
  <2> QED BY <2>2, <2>3
<1>12. MixedInv'
  <2> SUFFICES ASSUME removals' = 0
               PROVE  /\ (token /\ change.at \notin {"retire", "clean"})'
                      /\ ServicesMatch' /\ BrowsersMatch' /\ SelectsMatch'
    BY DEF MixedInv
  <2>1. /\ removals = 0 /\ token /\ change.at \notin {"retire", "clean"}
        /\ ServicesMatch /\ BrowsersMatch /\ SelectsMatch
    BY <1>2 DEF EnrolInv, MixedInv
  <2>2. (token /\ change.at \notin {"retire", "clean"})'
    BY <1>2, <2>1
  <2>3. ServicesMatch'
    BY <1>1, <1>2, <1>3, <2>1 DEF ServicesMatch, SelectsMatch, SelectMatches
  <2>4. BrowsersMatch'
    <3>1. enrolled'[s] = enrolled[s] \/ enrolled[s].config = 0 \/ s \in blocked
      BY <1>1, <1>3, <2>1 DEF SelectsMatch, SelectMatches
    <3> SUFFICES ASSUME NEW y \in Sessions PROVE BrowserMatches(y)'
      BY DEF BrowsersMatch
    <3>2. BrowserMatches(y)
      BY <2>1 DEF BrowsersMatch
    <3> QED BY <1>1, <1>2, <1>3, <1>7, <3>1, <3>2 DEF BrowserMatches
  <2>5. SelectsMatch'
    BY <1>1, <1>2, <1>3, <1>5, <1>6, <1>8, <2>1 DEF SelectsMatch, SelectMatches, Owning
  <2> QED BY <2>2, <2>3, <2>4, <2>5
<1>13. ConnectedInv'
  <2>1. (change.at \in {"retire", "clean"} => ~token) /\ SelectsFresh /\ SelectedLinked
    BY DEF EnrolInv, ConnectedInv
  <2>2. (change.at \in {"retire", "clean"} => ~token)'
    BY <1>2, <2>1
  <2>3. SelectsFresh'
    BY <1>1, <1>2, <1>3, <1>5, <1>6, <1>8, <2>1 DEF SelectsFresh, SelectFresh, Chosen, Owning
  <2>4. SelectedLinked'
    BY <1>1, <1>2, <1>3, <1>7, <2>1 DEF SelectedLinked, SelectionLinked
  <2> QED BY <2>2, <2>3, <2>4 DEF ConnectedInv
<1> QED BY <1>9, <1>10, <1>11, <1>12, <1>13 DEF EnrolInv

LEMMA BindSelectedStep ==
    ASSUME EnrolInv, NEW x \in Sessions, BindSelected(x) PROVE EnrolInv'
<1>1. /\ select[x].at = "bind" /\ select[x].service \in Services
      /\ select[x].config \in Configs /\ select[x].since \in Nat
  BY Shapes DEF BindSelected
<1>2. UNCHANGED <<token, enabled, enrolled, epoch, removals, discovery, updating, blocked, put,
                  change, lost>>
  BY DEF BindSelected, stored, catalog, bounds, history
<1>3. \/ /\ session[x].at = "discovery"
         /\ map' = [map EXCEPT ![select[x].service] = select[x].config]
         /\ session' = [session EXCEPT ![x] =
              [at |-> "bound", service |-> select[x].service, config |-> select[x].config,
               since |-> select[x].since, given |-> ""]]
         /\ Moves(x, "final")
      \/ Moves(x, "undo") /\ UNCHANGED <<map, session>>
  BY DEF BindSelected, NoSession
<1>4. /\ select' \in [Sessions -> Selects]
      /\ \A y \in Sessions \ {x} : select'[y] = select[y]
      /\ select'[x].service = select[x].service /\ select'[x].config = select[x].config
      /\ select'[x].since = select[x].since /\ select'[x].epoch = select[x].epoch
      /\ \/ /\ select'[x].at = "final"
            /\ map' = [map EXCEPT ![select[x].service] = select[x].config]
            /\ session'[x] =
                 [at |-> "bound", service |-> select[x].service, config |-> select[x].config,
                  since |-> select[x].since, given |-> ""]
         \/ select'[x].at = "undo" /\ UNCHANGED <<map, session>>
  <2>1. select[x].at \in Chosen /\ "final" \in Chosen /\ "undo" \in Chosen
    BY <1>1 DEF Chosen, Owning
  <2>2. CASE Moves(x, "final")
    <3>1. "final" # "undo"
      OBVIOUS
    <3> QED BY <1>3, <2>1, <2>2, Moved DEF EnrolInv, EnrolTypeInv
  <2>3. CASE Moves(x, "undo") /\ UNCHANGED <<map, session>>
    BY <2>1, <2>3, Moved
  <2> QED BY <1>3, <2>2, <2>3
<1>5. /\ session' \in [Sessions -> Browser]
      /\ \A y \in Sessions \ {x} : session'[y] = session[y]
      /\ session[x].given = ""
      /\ session'[x].given = ""
  <2>1. [at |-> "bound", service |-> select[x].service, config |-> select[x].config,
         since |-> select[x].since, given |-> ""] \in Browser
    BY <1>1 DEF Browser
  <2>2. session[x].at \in {"discovery", "none"} /\ session[x].given = ""
    <3>1. session[x].at \in {"discovery", "none"}
      BY <1>1 DEF EnrolInv, BrowserInv, BrowserSound
    <3> QED BY <3>1 DEF EnrolInv, EnrolTypeInv
  <2>3. session \in [Sessions -> Browser]
    BY DEF EnrolInv, EnrolTypeInv
  <2>4. \E b \in Browser : b.given = "" /\ session' = [session EXCEPT ![x] = b]
    <3>1. CASE session' = session
      <4>1. session[x] \in Browser /\ session' = [session EXCEPT ![x] = session[x]]
        BY <2>3, <3>1
      <4> QED BY <2>2, <4>1
    <3>2. CASE session' # session
      BY <1>3, <2>1, <3>2
    <3> QED BY <3>1, <3>2
  <2> QED BY <2>2, <2>3, <2>4
<1>6. /\ \A y \in Sessions \ {x} : select'[y] = select[y]
      /\ select'[x].service = select[x].service /\ select'[x].config = select[x].config
      /\ select'[x].since = select[x].since /\ select'[x].epoch = select[x].epoch
      /\ select'[x].at \in {"final", "undo"}
  BY <1>4
<1>7. \/ /\ select'[x].at = "final"
         /\ session'[x].at = "bound" /\ session'[x].given = ""
         /\ session'[x].service = select[x].service /\ session'[x].config = select[x].config
         /\ session'[x].since = select[x].since
      \/ select'[x].at = "undo" /\ session'[x] = session[x]
  <2> DEFINE bound == [at |-> "bound", service |-> select[x].service,
                       config |-> select[x].config, since |-> select[x].since, given |-> ""]
  <2>1. /\ bound.at = "bound" /\ bound.given = "" /\ bound.service = select[x].service
        /\ bound.config = select[x].config /\ bound.since = select[x].since
    OBVIOUS
  <2>2. \/ select'[x].at = "final" /\ session'[x] = bound
        \/ select'[x].at = "undo" /\ session' = session
    BY <1>4
  <2> HIDE DEF bound
  <2> QED BY <2>1, <2>2
<1>8. \A r \in Services :
         map'[r] = map[r] \/ (r = select[x].service /\ map'[r] = select[x].config)
  <2>1. map \in [Services -> Configs \cup {0}]
    BY DEF EnrolInv, EnrolTypeInv
  <2> DEFINE s == select[x].service
             c == select[x].config
  <2>2. map' = map \/ map' = [map EXCEPT ![s] = c]
    BY <1>3
  <2> HIDE DEF s, c
  <2>3. \A r \in Services : map'[r] = map[r] \/ (r = s /\ map'[r] = c)
    <3>1. CASE map' = map
      BY <3>1
    <3>2. CASE map' = [map EXCEPT ![s] = c]
      BY <2>1, <3>2
    <3> QED BY <2>2, <3>1, <3>2
  <2> QED BY <2>3 DEF s, c
<1>9. map' \in [Services -> Configs \cup {0}]
  BY <1>1, <1>3 DEF EnrolInv, EnrolTypeInv
<1>10. \A y \in Sessions \ {x} : select[y].at \in Owning => select[y].service # select[x].service
  BY <1>1 DEF EnrolInv, OwnInv, Owning
<1>11. removals = 0 => enrolled[select[x].service].config = select[x].config
  BY <1>1 DEF EnrolInv, MixedInv, SelectsMatch, SelectMatches
<1>12. put[select[x].service].at # "save"
  BY <1>1 DEF EnrolInv, OwnInv, Owning, Idle
<1>13. session[x].at \in {"discovery", "none"}
  BY <1>1 DEF EnrolInv, BrowserInv, BrowserSound
<1>14. /\ session'[x].at = "bound" => session'[x].service \in Services /\ session'[x].config \in Configs
       /\ session'[x].at # "bound" => session'[x].given = ""
  BY <1>1, <1>5, <1>13, <1>7
<1>15. \A y \in Sessions : select[y].at \in Owning => select[y].service \in Services
  BY Shapes DEF Chosen
<1>16. EnrolTypeInv'
  BY <1>2, <1>4, <1>5, <1>9, <1>14 DEF EnrolInv, EnrolTypeInv
<1>17. OwnInv'
  BY <1>1, <1>2, <1>6 DEF EnrolInv, OwnInv, Chosen, Owning
<1>18. BrowserInv'
  <2> SUFFICES ASSUME NEW y \in Sessions PROVE BrowserSound(y)'
    BY DEF BrowserInv
  <2>1. BrowserSound(y)
    BY DEF EnrolInv, BrowserInv
  <2>2. CASE y = x
    BY <2>1, <2>2, <1>1, <1>2, <1>5, <1>13, <1>6, <1>7 DEF BrowserSound
  <2>3. CASE y # x
    BY <2>1, <2>3, <1>2, <1>5, <1>6 DEF BrowserSound
  <2> QED BY <2>2, <2>3
<1>19. MixedInv'
  <2> SUFFICES ASSUME removals' = 0
               PROVE  /\ (token /\ change.at \notin {"retire", "clean"})'
                      /\ ServicesMatch' /\ BrowsersMatch' /\ SelectsMatch'
    BY DEF MixedInv
  <2>1. /\ removals = 0 /\ token /\ change.at \notin {"retire", "clean"}
        /\ ServicesMatch /\ BrowsersMatch /\ SelectsMatch
    BY <1>2 DEF EnrolInv, MixedInv
  <2>2. (token /\ change.at \notin {"retire", "clean"})'
    BY <1>2, <2>1
  <2>3. ServicesMatch'
    BY <1>1, <1>2, <1>11, <1>8, <1>12, <2>1 DEF ServicesMatch
  <2>4. BrowsersMatch'
    BY <1>2, <1>5, <2>1 DEF BrowsersMatch, BrowserMatches
  <2>5. SelectsMatch'
    BY <1>1, <1>2, <1>10, <1>6, <1>8, <1>15, <2>1 DEF SelectsMatch, SelectMatches, Owning
  <2> QED BY <2>2, <2>3, <2>4, <2>5
<1>20. ConnectedInv'
  <2>1. (change.at \in {"retire", "clean"} => ~token) /\ SelectsFresh /\ SelectedLinked
    BY DEF EnrolInv, ConnectedInv
  <2>2. (change.at \in {"retire", "clean"} => ~token)'
    BY <1>2, <2>1
  <2>3. SelectsFresh'
    BY <1>1, <1>2, <1>6, <2>1 DEF SelectsFresh, SelectFresh, Chosen, Owning
  <2>4. SelectedLinked'
    BY <1>2, <1>5, <2>1 DEF SelectedLinked, SelectionLinked
  <2> QED BY <2>2, <2>3, <2>4 DEF ConnectedInv
<1> QED BY <1>16, <1>17, <1>18, <1>19, <1>20 DEF EnrolInv

LEMMA ReadConnectionsStep ==
    ASSUME EnrolInv, NEW x \in Sessions, ReadConnections(x) PROVE EnrolInv'
<1>1. select[x].at = "final" /\ select[x].service \in Services
  BY Shapes DEF ReadConnections
<1>2. UNCHANGED <<token, enabled, enrolled, map, epoch, removals, session, discovery, updating,
                  blocked, put, change, lost>>
  BY DEF ReadConnections, stored, catalog, services, bounds, history
<1>3. /\ select' \in [Sessions -> Selects]
      /\ \A y \in Sessions \ {x} : select'[y] = select[y]
      /\ select'[x].service = select[x].service /\ select'[x].config = select[x].config
      /\ select'[x].since = select[x].since /\ select'[x].epoch = select[x].epoch
      /\ select'[x].at \in {"answer", "undo"}
  <2>1. select[x].at \in Chosen /\ "answer" \in Chosen /\ "undo" \in Chosen
    BY <1>1 DEF Chosen, Owning
  <2>2. CASE Moves(x, "answer")
    BY <2>1, <2>2, Moved
  <2>3. CASE Moves(x, "undo")
    BY <2>1, <2>3, Moved
  <2> QED BY <2>2, <2>3 DEF ReadConnections
<1>4. session[x].given = ""
  BY <1>1 DEF EnrolInv, BrowserInv, BrowserSound, EnrolTypeInv
<1>5. EnrolTypeInv'
  BY <1>1, <1>2, <1>3 DEF EnrolInv, EnrolTypeInv
<1>6. OwnInv'
  BY <1>1, <1>2, <1>3 DEF EnrolInv, OwnInv, Chosen, Owning
<1>7. BrowserInv'
  <2> SUFFICES ASSUME NEW y \in Sessions PROVE BrowserSound(y)'
    BY DEF BrowserInv
  <2>1. BrowserSound(y)
    BY DEF EnrolInv, BrowserInv
  <2>2. CASE y = x
    BY <2>1, <2>2, <1>1, <1>2, <1>3, <1>4 DEF BrowserSound
  <2>3. CASE y # x
    BY <2>1, <2>3, <1>1, <1>2, <1>3, <1>4 DEF BrowserSound
  <2> QED BY <2>2, <2>3
<1>8. MixedInv'
  <2> SUFFICES ASSUME removals' = 0
               PROVE  /\ (token /\ change.at \notin {"retire", "clean"})'
                      /\ ServicesMatch' /\ BrowsersMatch' /\ SelectsMatch'
    BY DEF MixedInv
  <2>1. /\ removals = 0 /\ token /\ change.at \notin {"retire", "clean"}
        /\ ServicesMatch /\ BrowsersMatch /\ SelectsMatch
    BY <1>1, <1>2, <1>3 DEF EnrolInv, MixedInv
  <2>2. (token /\ change.at \notin {"retire", "clean"})'
    BY <1>1, <1>2, <1>3, <2>1
  <2>3. ServicesMatch'
    BY <1>2, <2>1 DEF ServicesMatch
  <2>4. BrowsersMatch'
    BY <1>2, <2>1 DEF BrowsersMatch, BrowserMatches
  <2>5. SelectsMatch'
    BY <1>1, <1>2, <1>3, <2>1 DEF SelectsMatch, SelectMatches
  <2> QED BY <2>2, <2>3, <2>4, <2>5
<1>9. ConnectedInv'
  <2>1. (change.at \in {"retire", "clean"} => ~token) /\ SelectsFresh /\ SelectedLinked
    BY DEF EnrolInv, ConnectedInv
  <2>2. (change.at \in {"retire", "clean"} => ~token)'
    BY <1>2, <2>1
  <2>3. SelectsFresh'
    BY <1>1, <1>2, <1>3, <2>1 DEF SelectsFresh, SelectFresh, Chosen, Owning
  <2>4. SelectedLinked'
    BY <1>2, <2>1 DEF SelectedLinked, SelectionLinked
  <2> QED BY <2>2, <2>3, <2>4 DEF ConnectedInv
<1> QED BY <1>5, <1>6, <1>7, <1>8, <1>9 DEF EnrolInv

LEMMA AnswerStep ==
    ASSUME EnrolInv, NEW x \in Sessions, Answer(x) PROVE EnrolInv'
<1> DEFINE s == select[x].service
           given == [session[x] EXCEPT !.given = "selected"]
<1>1. select[x].at = "answer" /\ s \in Services /\ s \in updating /\ put[s] = Idle
  BY Shapes DEF Answer, EnrolInv, OwnInv, Owning
<1>2. UNCHANGED <<token, enabled, enrolled, map, epoch, removals, put, change, lost>>
  BY DEF Answer, stored, bounds, history
<1>3. CASE SameEpoch(x)
  <2>1. /\ discovery' = discovery \ {x} /\ blocked' = blocked \ {s}
        /\ updating' = updating \ {s} /\ select' = [select EXCEPT ![x] = Idle]
        /\ session' = IF session[x].at = "bound" THEN [session EXCEPT ![x] = given] ELSE session
    BY <1>3 DEF Answer
  <2>2. /\ select' \in [Sessions -> Selects]
        /\ select'[x].at = "idle"
        /\ \A y \in Sessions \ {x} : select'[y] = select[y]
    BY <2>1, Ended
  <2>3. /\ session[x].at = "bound" \/ session[x].given = ""
        /\ session[x].at \in {"none", "bound"}
        /\ session[x].at = "bound" =>
             /\ session[x].service = s /\ session[x].config = select[x].config
             /\ session[x].since = select[x].since
    BY <1>1, Shapes DEF EnrolInv, BrowserInv, BrowserSound, EnrolTypeInv, Browser
  <2>4. /\ session' \in [Sessions -> Browser]
        /\ \A y \in Sessions \ {x} : session'[y] = session[y]
        /\ session'[x].at = session[x].at
        /\ session'[x].at = "bound" =>
             /\ session'[x].service = s /\ session'[x].config = select[x].config
             /\ session'[x].since = select[x].since /\ session'[x].given = "selected"
        /\ session'[x].at # "bound" => session'[x].given = ""
    <3>1. session[x] \in Browser /\ session \in [Sessions -> Browser]
      BY DEF EnrolInv, EnrolTypeInv
    <3>2. /\ given \in Browser /\ given.at = session[x].at /\ given.service = session[x].service
          /\ given.config = session[x].config /\ given.since = session[x].since
          /\ given.given = "selected"
      BY <3>1 DEF Browser
    <3> HIDE DEF given
    <3> QED BY <2>1, <2>3, <3>1, <3>2
  <2>5. /\ select[x].epoch = epoch
        /\ token /\ select[x].since = removals /\ enrolled[s] # None /\ removals \in Nat
        /\ removals = 0 => enrolled[s].config = select[x].config
        /\ select[x].config \in Configs
    <3>1. select[x].epoch = epoch /\ SelectFresh(x)
      BY <1>3 DEF SameEpoch, EnrolInv, ConnectedInv, SelectsFresh
    <3>2. token /\ select[x].since = removals /\ enrolled[s] # None
      BY <1>1, <3>1 DEF SelectFresh, Chosen, Owning
    <3>3. removals = 0 => enrolled[s].config = select[x].config
      BY <1>1 DEF EnrolInv, MixedInv, SelectsMatch, SelectMatches
    <3>4. select[x].config \in Configs /\ removals \in Nat
      BY <1>1, Shapes DEF Chosen, Owning, EnrolInv, EnrolTypeInv
    <3> QED BY <3>1, <3>2, <3>3, <3>4
  <2>6. EnrolTypeInv'
    BY <1>1, <1>2, <2>2, <2>4, <2>5 DEF EnrolInv, EnrolTypeInv
  <2>7. OwnInv'
    BY <1>1, <1>2, <2>1, <2>2, Shapes DEF EnrolInv, OwnInv, Owning, Chosen
  <2>8. BrowserInv'
    <3> SUFFICES ASSUME NEW y \in Sessions PROVE BrowserSound(y)'
      BY DEF BrowserInv
    <3>1. BrowserSound(y)
      BY DEF EnrolInv, BrowserInv
    <3>2. CASE y = x
      BY <1>1, <2>1, <2>2, <2>4, <3>1, <3>2 DEF BrowserSound
    <3>3. CASE y # x
      BY <2>1, <2>2, <2>4, <3>1, <3>3 DEF BrowserSound
    <3> QED BY <3>2, <3>3
  <2>9. MixedInv'
    <3>1. \A y \in Sessions \ {x} : select[y].at = "save" => select[y].service # s
      BY <1>1 DEF EnrolInv, OwnInv, Owning
    <3> SUFFICES ASSUME removals = 0
                 PROVE  /\ token /\ change.at \notin {"retire", "clean"}
                        /\ ServicesMatch' /\ BrowsersMatch' /\ SelectsMatch'
      BY <1>2 DEF MixedInv
    <3>2. /\ token /\ change.at \notin {"retire", "clean"}
          /\ ServicesMatch /\ BrowsersMatch /\ SelectsMatch
      BY DEF EnrolInv, MixedInv
    <3>3. ServicesMatch'
      BY <1>2, <3>2 DEF ServicesMatch
    <3>4. BrowsersMatch'
      <4> SUFFICES ASSUME NEW y \in Sessions PROVE BrowserMatches(y)'
        BY DEF BrowsersMatch
      <4>1. BrowserMatches(y)
        BY <3>2 DEF BrowsersMatch
      <4>2. CASE y = x
        <5> SUFFICES ASSUME session'[x].given # ""
                     PROVE  /\ session'[x].service \notin blocked'
                            /\ session'[x].config = enrolled'[session'[x].service].config
          BY <4>2 DEF BrowserMatches
        <5>1. session'[x].service = s /\ session'[x].config = select[x].config
          BY <2>4
        <5>2. s \notin blocked' /\ enrolled'[s].config = select[x].config
          BY <1>2, <2>1, <2>5
        <5> QED BY <5>1, <5>2
      <4>3. CASE y # x
        BY <1>2, <2>1, <2>4, <4>1, <4>3 DEF BrowserMatches
      <4> QED BY <4>2, <4>3
    <3>5. SelectsMatch'
      BY <1>2, <2>1, <2>2, <3>1, <3>2 DEF SelectsMatch, SelectMatches
    <3> QED BY <3>2, <3>3, <3>4, <3>5
  <2>10. ConnectedInv'
    <3>1. change.at # "clean"
      BY <2>5 DEF EnrolInv, ConnectedInv
    <3>2. (change.at \in {"retire", "clean"} => ~token) /\ SelectsFresh /\ SelectedLinked
      BY DEF EnrolInv, ConnectedInv
    <3>3. SelectsFresh'
      BY <1>2, <2>2, <3>2 DEF SelectsFresh, SelectFresh, Chosen, Owning
    <3>4. SelectedLinked'
      <4> SUFFICES ASSUME NEW y \in Sessions PROVE SelectionLinked(y)'
        BY DEF SelectedLinked
      <4>1. SelectionLinked(y)
        BY <3>2 DEF SelectedLinked
      <4>2. CASE y = x
        <5> SUFFICES ASSUME session'[x].given = "selected"
                     PROVE  /\ session'[x].since = removals
                            /\ enrolled[session'[x].service] # None
          BY <1>2, <2>5, <3>1, <4>2 DEF SelectionLinked
        <5>1. session'[x].service = s /\ session'[x].since = select[x].since
          BY <2>4
        <5> QED BY <2>5, <5>1
      <4>3. CASE y # x
        <5>1. session'[y] = session[y]
          BY <2>4, <4>3
        <5> QED BY <1>2, <4>1, <5>1 DEF SelectionLinked
      <4> QED BY <4>2, <4>3
    <3> QED BY <1>2, <3>2, <3>3, <3>4 DEF ConnectedInv
  <2> QED BY <2>6, <2>7, <2>8, <2>9, <2>10 DEF EnrolInv
<1>4. CASE ~SameEpoch(x)
  <2>1. Moves(x, "undo") /\ UNCHANGED <<discovery, blocked, updating, session>>
    BY <1>4 DEF Answer
  <2>2. /\ select' \in [Sessions -> Selects]
        /\ select'[x].at = "undo"
        /\ \A y \in Sessions \ {x} : select'[y] = select[y]
        /\ select'[x].service = select[x].service /\ select'[x].config = select[x].config
      /\ select'[x].since = select[x].since /\ select'[x].epoch = select[x].epoch
    BY <1>1, <2>1, Moved DEF Chosen, Owning
  <2>3. session[x].given = ""
    <3>1. BrowserSound(x) /\ (session[x].at # "bound" => session[x].given = "")
      BY DEF EnrolInv, BrowserInv, EnrolTypeInv
    <3> QED BY <1>1, <3>1 DEF BrowserSound
  <2>4. EnrolTypeInv'
    BY <1>2, <2>1, <2>2 DEF EnrolInv, EnrolTypeInv
  <2>5. OwnInv'
    BY <1>1, <1>2, <2>1, <2>2, Shapes DEF EnrolInv, OwnInv, Owning, Chosen
  <2>6. BrowserInv'
    <3> SUFFICES ASSUME NEW y \in Sessions PROVE BrowserSound(y)'
      BY DEF BrowserInv
    <3>1. BrowserSound(y)
      BY DEF EnrolInv, BrowserInv
    <3> QED BY <2>1, <2>2, <2>3, <3>1 DEF BrowserSound
  <2>7. MixedInv'
    <3>1. SelectsMatch => SelectsMatch'
      BY <1>1, <1>2, <2>1, <2>2 DEF SelectsMatch, SelectMatches
    <3>2. ServicesMatch => ServicesMatch'
      BY <1>2 DEF ServicesMatch
    <3>3. BrowsersMatch => BrowsersMatch'
      BY <1>2, <2>1 DEF BrowsersMatch, BrowserMatches
    <3> QED BY <1>2, <3>1, <3>2, <3>3 DEF EnrolInv, MixedInv
  <2>8. ConnectedInv'
    BY <1>1, <1>2, <2>1, <2>2
       DEF EnrolInv, ConnectedInv, SelectsFresh, SelectFresh, SelectedLinked, SelectionLinked,
           Owning, Chosen
  <2> QED BY <2>4, <2>5, <2>6, <2>7, <2>8 DEF EnrolInv
<1> QED BY <1>3, <1>4

LEMMA UndoStep ==
    ASSUME EnrolInv, NEW x \in Sessions, Undo(x) PROVE EnrolInv'
<1>1. /\ select[x].at = "undo" /\ select[x].service \in Services
      /\ select[x].service \in updating /\ put[select[x].service] = Idle
      /\ session[x].given = ""
  BY Shapes DEF Undo, EnrolInv, OwnInv, BrowserInv, BrowserSound, Owning
<1>2. /\ UNCHANGED <<token, enabled, enrolled, map, epoch, removals, blocked, put, change,
                     lost>>
      /\ discovery' = discovery \ {x} /\ updating' = updating \ {select[x].service}
  BY DEF Undo, stored, bounds, history
<1>3. /\ select' \in [Sessions -> Selects]
      /\ select'[x].at = "idle"
      /\ \A y \in Sessions \ {x} : select'[y] = select[y]
  BY Ended DEF Undo
<1>4. /\ session' \in [Sessions -> Browser]
      /\ \A y \in Sessions \ {x} : session'[y] = session[y]
      /\ session'[x] = session[x] \/ session'[x].at = "none"
      /\ session'[x].given = ""
  <2>1. NoSession \in Browser /\ NoSession.at = "none" /\ NoSession.given = ""
    BY DEF NoSession, Browser
  <2> QED BY <1>1, <2>1 DEF EnrolInv, EnrolTypeInv, Undo
<1>5. EnrolTypeInv'
  BY <1>2, <1>3, <1>4 DEF EnrolInv, EnrolTypeInv
<1>6. OwnInv'
  BY <1>1, <1>2, <1>3 DEF EnrolInv, OwnInv, Chosen, Owning
<1>7. BrowserInv'
  <2> SUFFICES ASSUME NEW y \in Sessions PROVE BrowserSound(y)'
    BY DEF BrowserInv
  <2>1. BrowserSound(y)
    BY DEF EnrolInv, BrowserInv
  <2>2. CASE y = x
    BY <2>1, <2>2, <1>1, <1>2, <1>3, <1>4 DEF BrowserSound
  <2>3. CASE y # x
    BY <2>1, <2>3, <1>1, <1>2, <1>3, <1>4 DEF BrowserSound
  <2> QED BY <2>2, <2>3
<1>8. MixedInv'
  <2> SUFFICES ASSUME removals' = 0
               PROVE  /\ (token /\ change.at \notin {"retire", "clean"})'
                      /\ ServicesMatch' /\ BrowsersMatch' /\ SelectsMatch'
    BY DEF MixedInv
  <2>1. /\ removals = 0 /\ token /\ change.at \notin {"retire", "clean"}
        /\ ServicesMatch /\ BrowsersMatch /\ SelectsMatch
    BY <1>1, <1>2, <1>3, <1>4 DEF EnrolInv, MixedInv
  <2>2. (token /\ change.at \notin {"retire", "clean"})'
    BY <1>1, <1>2, <1>3, <1>4, <2>1
  <2>3. ServicesMatch'
    BY <1>2, <2>1 DEF ServicesMatch
  <2>4. BrowsersMatch'
    BY <1>2, <1>4, <2>1 DEF BrowsersMatch, BrowserMatches
  <2>5. SelectsMatch'
    BY <1>2, <1>3, <2>1 DEF SelectsMatch, SelectMatches
  <2> QED BY <2>2, <2>3, <2>4, <2>5
<1>9. ConnectedInv'
  <2>1. (change.at \in {"retire", "clean"} => ~token) /\ SelectsFresh /\ SelectedLinked
    BY DEF EnrolInv, ConnectedInv
  <2>2. (change.at \in {"retire", "clean"} => ~token)'
    BY <1>2, <2>1
  <2>3. SelectsFresh'
    BY <1>2, <1>3, <2>1 DEF SelectsFresh, SelectFresh, Chosen, Owning
  <2>4. SelectedLinked'
    BY <1>2, <1>4, <2>1 DEF SelectedLinked, SelectionLinked
  <2> QED BY <2>2, <2>3, <2>4 DEF ConnectedInv
<1> QED BY <1>5, <1>6, <1>7, <1>8, <1>9 DEF EnrolInv

\* A service is enrolled by hand.
LEMMA BeginPutStep ==
    ASSUME EnrolInv, NEW s \in Services, NEW c \in Configs, BeginPut(s, c) PROVE EnrolInv'
<1>1. EnrolTypeInv'
  BY DEF EnrolInv, EnrolTypeInv, Browser, Puts, BeginPut, RemoveServices, Without, stored,
         catalog, bounds, NoSession
<1>2. OwnInv'
  BY Shapes DEF EnrolInv, OwnInv, EnrolTypeInv, BeginPut, Chosen, Owning
<1>3. BrowserInv'
  BY DEF EnrolInv, BrowserInv, BrowserSound, BeginPut, RemoveServices, Without, catalog,
         NoSession
<1>4. MixedInv'
  BY Shapes
     DEF EnrolInv, MixedInv, ServicesMatch, BrowsersMatch, BrowserMatches, SelectsMatch,
         SelectMatches, EnrolTypeInv, BeginPut, RemoveServices, Without, stored, bounds,
         NoSession
<1>5. ConnectedInv'
  BY DEF EnrolInv, ConnectedInv, SelectsFresh, SelectFresh, SelectedLinked, SelectionLinked,
         BeginPut, RemoveServices, Without, stored, catalog, bounds, history, NoSession
<1> QED BY <1>1, <1>2, <1>3, <1>4, <1>5 DEF EnrolInv

LEMMA SavePutStep ==
    ASSUME EnrolInv, NEW s \in Services, SavePut(s) PROVE EnrolInv'
<1>1. /\ put[s].at = "save" /\ put[s] # Idle /\ put[s].config \in Configs
      /\ s \in updating /\ s \in blocked /\ removals \in Nat
      /\ \A y \in Sessions : select[y].at \in Owning => select[y].service # s
  <2>1. put[s].at = "save" /\ put[s] # Idle
    BY DEF SavePut, Idle
  <2>2. put[s].config \in Configs /\ removals \in Nat
    BY <2>1, Shapes DEF EnrolInv, EnrolTypeInv
  <2>3. /\ s \in updating /\ s \in blocked
        /\ \A y \in Sessions : select[y].at \in Owning => select[y].service # s
    BY <2>1 DEF EnrolInv, OwnInv
  <2> QED BY <2>1, <2>2, <2>3
<1>2. UNCHANGED <<token, enabled, epoch, removals, session, discovery, updating, blocked,
                  select, change, lost>>
  BY DEF SavePut, Enroll, Fails, catalog, history
<1>3. /\ enrolled' \in [Services -> Enrolled]
      /\ \A r \in Services \ {s} : enrolled'[r] = enrolled[r]
      /\ \/ enrolled'[s] = enrolled[s]
         \/ enrolled'[s].config = put[s].config /\ enrolled'[s] # None
  <2>1. CASE Enroll(s, put[s].config, removals)
    BY <1>1, <2>1, Written
  <2>2. CASE enrolled' = enrolled
    BY <2>2 DEF EnrolInv, EnrolTypeInv
  <2> QED BY <2>1, <2>2 DEF SavePut
<1>4. /\ put' \in [Services -> Puts]
      /\ put'[s].at \in {"set", "undo"} /\ put'[s] # Idle
      /\ \A r \in Services \ {s} : put'[r] = put[r]
  <2>1. put \in [Services -> Puts] /\ put[s] \in Puts \ {Idle}
    BY <1>1 DEF EnrolInv, EnrolTypeInv
  <2>2. \A to \in {"set", "undo"} :
           /\ [put[s] EXCEPT !.at = to] \in Puts /\ [put[s] EXCEPT !.at = to].at = to
           /\ [put[s] EXCEPT !.at = to] # Idle
    BY <2>1 DEF Puts, Idle
  <2>3. \E to \in {"set", "undo"} : put' = [put EXCEPT ![s] = [put[s] EXCEPT !.at = to]]
    BY DEF SavePut
  <2> QED BY <2>1, <2>2, <2>3
<1>5. \/ map' = [map EXCEPT ![s] = put[s].config] /\ enrolled'[s].config = put[s].config
      \/ map' = map
  BY <1>1, Written DEF SavePut
<1>6. /\ map' \in [Services -> Configs \cup {0}]
      /\ \A r \in Services \ {s} : map'[r] = map[r]
      /\ map'[s] = map[s] \/ map'[s] = enrolled'[s].config
      /\ removals = 0 => map[s] = 0
  BY <1>1, <1>5 DEF EnrolInv, EnrolTypeInv, MixedInv, ServicesMatch
<1>7. \A y \in Sessions : session[y].given # "" =>
         session[y].service \in Services /\ session[y].config \in Configs /\ session[y].config # 0
  BY ConfigsAssumption DEF EnrolInv, EnrolTypeInv
<1>8. \A y \in Sessions : select[y].at \in Owning => select[y].service \in Services
  BY Shapes DEF Chosen
<1>9. EnrolTypeInv'
  BY <1>2, <1>3, <1>4, <1>6 DEF EnrolInv, EnrolTypeInv
<1>10. OwnInv'
  BY <1>1, <1>2, <1>4, <1>8 DEF EnrolInv, OwnInv, Chosen, Owning
<1>11. BrowserInv'
  BY <1>2 DEF EnrolInv, BrowserInv, BrowserSound, Chosen, Owning
<1>12. MixedInv'
  <2> SUFFICES ASSUME removals' = 0
               PROVE  /\ (token /\ change.at \notin {"retire", "clean"})'
                      /\ ServicesMatch' /\ BrowsersMatch' /\ SelectsMatch'
    BY DEF MixedInv
  <2>1. /\ removals = 0 /\ token /\ change.at \notin {"retire", "clean"}
        /\ ServicesMatch /\ BrowsersMatch /\ SelectsMatch
    BY <1>2 DEF EnrolInv, MixedInv
  <2>2. (token /\ change.at \notin {"retire", "clean"})'
    BY <1>2, <2>1
  <2>3. ServicesMatch'
    BY <1>1, <1>2, <1>3, <1>4, <1>6, <2>1 DEF ServicesMatch
  <2>4. BrowsersMatch'
    BY <1>1, <1>2, <1>3, <1>7, <2>1 DEF BrowsersMatch, BrowserMatches
  <2>5. SelectsMatch'
    BY <1>1, <1>2, <1>3, <1>6, <1>8, <2>1 DEF SelectsMatch, SelectMatches, Owning
  <2> QED BY <2>2, <2>3, <2>4, <2>5
<1>13. ConnectedInv'
  <2>1. (change.at \in {"retire", "clean"} => ~token) /\ SelectsFresh /\ SelectedLinked
    BY DEF EnrolInv, ConnectedInv
  <2>2. (change.at \in {"retire", "clean"} => ~token)'
    BY <1>2, <2>1
  <2>3. SelectsFresh'
    BY <1>1, <1>2, <1>3, <1>8, <2>1 DEF SelectsFresh, SelectFresh, Chosen, Owning
  <2>4. SelectedLinked'
    BY <1>2, <1>3, <1>7, <2>1 DEF SelectedLinked, SelectionLinked
  <2> QED BY <2>2, <2>3, <2>4 DEF ConnectedInv
<1> QED BY <1>9, <1>10, <1>11, <1>12, <1>13 DEF EnrolInv

LEMMA SetPutStep ==
    ASSUME EnrolInv, NEW s \in Services, SetPut(s) PROVE EnrolInv'
<1>1. EnrolTypeInv'
  BY DEF EnrolInv, EnrolTypeInv, Browser, Puts, SetPut, Without, stored, catalog, bounds,
         NoSession
<1>2. OwnInv'
  BY Shapes DEF EnrolInv, OwnInv, EnrolTypeInv, SetPut, Owning
<1>3. BrowserInv'
  BY DEF EnrolInv, BrowserInv, BrowserSound, SetPut, Without, catalog, NoSession
<1>4. MixedInv'
  <2>1. /\ session' = Without({s})
        /\ blocked' = blocked \ {s}
        /\ put'[s].at = "idle"
        /\ \A r \in Services \ {s} : put'[r] = put[r]
        /\ \A y \in Sessions : select[y].at \in Owning => select[y].service # s
        /\ UNCHANGED <<token, enabled, enrolled, map, epoch, removals, discovery, select,
                       change, lost>>
    BY Shapes DEF EnrolInv, EnrolTypeInv, OwnInv, SetPut, stored, catalog, bounds, history, Idle
  <2>2. \A y \in Sessions : session'[y].given # "" =>
           session'[y] = session[y] /\ session'[y].service # s
    <3>1. {s} \in SUBSET Services
      OBVIOUS
    <3> QED BY <2>1, <3>1, Closed
  <2>3. ServicesMatch => ServicesMatch'
    BY <2>1 DEF ServicesMatch
  <2>4. BrowsersMatch => BrowsersMatch'
    BY <2>1, <2>2 DEF BrowsersMatch, BrowserMatches
  <2>5. SelectsMatch => SelectsMatch'
    BY <2>1 DEF SelectsMatch, SelectMatches, Owning
  <2>6. UNCHANGED removals
    BY DEF SetPut, bounds
  <2> QED BY <2>1, <2>3, <2>4, <2>5, <2>6 DEF EnrolInv, MixedInv
<1>5. ConnectedInv'
  BY DEF EnrolInv, ConnectedInv, SelectsFresh, SelectFresh, SelectedLinked, SelectionLinked,
         SetPut, Without, stored, catalog, bounds, history, NoSession
<1> QED BY <1>1, <1>2, <1>3, <1>4, <1>5 DEF EnrolInv

LEMMA UndoPutStep ==
    ASSUME EnrolInv, NEW s \in Services, UndoPut(s) PROVE EnrolInv'
<1>1. EnrolTypeInv'
  BY DEF EnrolInv, EnrolTypeInv, Browser, Puts, UndoPut, RemoveServices, Without, stored,
         catalog, bounds, NoSession
<1>2. OwnInv'
  BY Shapes DEF EnrolInv, OwnInv, EnrolTypeInv, UndoPut, Owning
<1>3. BrowserInv'
  BY DEF EnrolInv, BrowserInv, BrowserSound, UndoPut, RemoveServices, Without, catalog,
         NoSession
<1>4. MixedInv'
  BY Shapes
     DEF EnrolInv, MixedInv, ServicesMatch, BrowsersMatch, BrowserMatches, SelectsMatch,
         SelectMatches, EnrolTypeInv, UndoPut, RemoveServices, Without, stored, bounds,
         NoSession
<1>5. ConnectedInv'
  BY DEF EnrolInv, ConnectedInv, SelectsFresh, SelectFresh, SelectedLinked, SelectionLinked,
         UndoPut, RemoveServices, Without, stored, catalog, bounds, history, NoSession
<1> QED BY <1>1, <1>2, <1>3, <1>4, <1>5 DEF EnrolInv

\* The connections change: removed, put again, switched; and the executor restarts.
LEMMA BeginRemoveStep ==
    ASSUME EnrolInv, BeginRemove PROVE EnrolInv'
<1>1. EnrolTypeInv'
  BY DEF EnrolInv, EnrolTypeInv, Changing, Changes, BeginRemove, stored, catalog, services,
         bounds
<1>2. OwnInv'
  BY DEF EnrolInv, OwnInv, BeginRemove, services
<1>3. BrowserInv'
  BY DEF EnrolInv, BrowserInv, BrowserSound, BeginRemove, catalog
<1>4. MixedInv'
  BY DEF EnrolInv, MixedInv, ServicesMatch, BrowsersMatch, BrowserMatches, SelectsMatch,
         SelectMatches, BeginRemove, stored, services, bounds
<1>5. ConnectedInv'
  BY DEF EnrolInv, ConnectedInv, SelectsFresh, SelectFresh, SelectedLinked, SelectionLinked,
         BeginRemove, stored, catalog, bounds, Idle
<1> QED BY <1>1, <1>2, <1>3, <1>4, <1>5 DEF EnrolInv

LEMMA DropStep ==
    ASSUME EnrolInv, Drop PROVE EnrolInv'
<1>1. /\ change.at = "drop" /\ change # Idle /\ epoch' = epoch + 1
      /\ epoch \in Nat /\ removals \in Nat
  <2>1. epoch \in Nat /\ removals \in Nat
    BY DEF EnrolInv, EnrolTypeInv
  <2>2. change.at = "drop" /\ epoch' = epoch + 1
    BY DEF Drop, NewEpoch
  <2> QED BY <2>1, <2>2 DEF Idle
<1>2. UNCHANGED <<enrolled, map, session, discovery, updating, blocked, select, put, lost>>
  BY DEF Drop, services, history
<1>3. /\ change' \in Changes /\ change'.at \in {"retire", "idle"}
      /\ change'.at = "retire" => ~token'
  <2>1. CASE Change("retire") /\ token' = FALSE
    BY <1>1, <2>1, Turned DEF Changing
  <2>2. CASE change' = Idle
    BY <2>2 DEF Idle, Changes
  <2> QED BY <2>1, <2>2 DEF Drop
<1>4. /\ token' \in BOOLEAN /\ enabled' \in BOOLEAN /\ removals' \in Nat
      /\ \/ ~token' /\ removals' = removals + 1
         \/ (token' <=> token) /\ removals' = removals /\ change'.at = "idle"
  <2>1. CASE token' = FALSE /\ enabled' = FALSE /\ removals' = removals + 1
    <3>1. token' \in BOOLEAN /\ enabled' \in BOOLEAN /\ ~token'
      BY <2>1
    <3>2. removals' \in Nat /\ removals' = removals + 1
      BY <1>1, <2>1
    <3> QED BY <3>1, <3>2
  <2>2. CASE UNCHANGED <<token, enabled, removals>> /\ change' = Idle
    BY <1>1, <2>2 DEF EnrolInv, EnrolTypeInv, Idle
  <2> QED BY <2>1, <2>2 DEF Drop
<1>5. EnrolTypeInv'
  <2>1. epoch' \in Nat
    BY <1>1
  <2> QED BY <1>2, <1>3, <1>4, <2>1 DEF EnrolInv, EnrolTypeInv
<1>6. OwnInv'
  BY <1>2 DEF EnrolInv, OwnInv, Chosen, Owning
<1>7. BrowserInv'
  BY <1>2 DEF EnrolInv, BrowserInv, BrowserSound, Chosen, Owning
<1>8. MixedInv'
  <2> SUFFICES ASSUME removals' = 0
               PROVE  /\ (token /\ change.at \notin {"retire", "clean"})'
                      /\ ServicesMatch' /\ BrowsersMatch' /\ SelectsMatch'
    BY DEF MixedInv
  <2>1. /\ removals = 0 /\ token /\ change.at \notin {"retire", "clean"}
        /\ ServicesMatch /\ BrowsersMatch /\ SelectsMatch
    BY <1>1, <1>2, <1>3, <1>4 DEF EnrolInv, MixedInv
  <2>2. (token /\ change.at \notin {"retire", "clean"})'
    BY <1>1, <1>2, <1>3, <1>4, <2>1
  <2>3. ServicesMatch'
    BY <1>1, <1>2, <1>3, <1>4, <2>1 DEF ServicesMatch
  <2>4. BrowsersMatch'
    BY <1>1, <1>2, <1>3, <1>4, <2>1 DEF BrowsersMatch, BrowserMatches
  <2>5. SelectsMatch'
    BY <1>1, <1>2, <1>3, <1>4, <2>1 DEF SelectsMatch, SelectMatches
  <2> QED BY <2>2, <2>3, <2>4, <2>5
<1>9. ConnectedInv'
  <2>1. (change.at \in {"retire", "clean"} => ~token) /\ SelectsFresh /\ SelectedLinked
    BY DEF EnrolInv, ConnectedInv
  <2>2. (change.at \in {"retire", "clean"} => ~token)'
    BY <1>1, <1>2, <1>3, <1>4, <2>1
  <2>3. SelectsFresh'
    BY <1>1, <1>2, FreshAfter
  <2>4. SelectedLinked'
    <3> SUFFICES ASSUME NEW y \in Sessions, session[y].given = "selected",
                        session[y].service \notin lost
                 PROVE  SelectionLinked(y)'
      BY <1>2 DEF SelectedLinked, SelectionLinked
    <3>1. /\ session[y].since <= removals
          /\ session[y].since = removals => token
          /\ token => session[y].since = removals
          /\ enrolled[session[y].service] # None
      BY <1>1, <2>1 DEF SelectedLinked, SelectionLinked
    <3>2. session[y].since \in Nat
      BY Shapes DEF Browser
    <3>3. CASE ~token' /\ removals' = removals + 1
      <4>1. session[y].since <= removals' /\ session[y].since # removals'
        BY <1>1, <3>1, <3>2, <3>3
      <4> QED BY <1>2, <1>3, <3>1, <3>3, <4>1 DEF SelectionLinked
    <3>4. CASE (token' <=> token) /\ removals' = removals
      BY <1>2, <1>3, <3>1, <3>4 DEF SelectionLinked
    <3> QED BY <1>4, <3>3, <3>4
  <2> QED BY <2>2, <2>3, <2>4 DEF ConnectedInv
<1> QED BY <1>5, <1>6, <1>7, <1>8, <1>9 DEF EnrolInv

LEMMA BeginPutConnectionStep ==
    ASSUME EnrolInv, BeginPutConnection PROVE EnrolInv'
<1>1. EnrolTypeInv'
  BY DEF EnrolInv, EnrolTypeInv, Changing, Changes, BeginPutConnection, stored, services, bounds
<1>2. OwnInv'
  BY DEF EnrolInv, OwnInv, BeginPutConnection, services
<1>3. BrowserInv'
  BY DEF EnrolInv, BrowserInv, BrowserSound, BeginPutConnection
<1>4. MixedInv'
  BY DEF EnrolInv, MixedInv, ServicesMatch, BrowsersMatch, BrowserMatches, SelectsMatch,
         SelectMatches, BeginPutConnection, stored, services, bounds
<1>5. ConnectedInv'
  BY DEF EnrolInv, ConnectedInv, SelectsFresh, SelectFresh, SelectedLinked, SelectionLinked,
         BeginPutConnection, stored, bounds, Idle
<1> QED BY <1>1, <1>2, <1>3, <1>4, <1>5 DEF EnrolInv

LEMMA ValidatedStep ==
    ASSUME EnrolInv, Validated PROVE EnrolInv'
<1>1. /\ \/ change' = change
         \/ /\ change.at = "validate" /\ change'.at \in {"store", "retire"}
            /\ change'.at = "store" => token
            /\ change'.at = "retire" => ~token
  <2>1. CASE change.at = "validate"
    <3>1. Change(IF token THEN "store" ELSE "retire") /\ change # Idle
      BY <2>1, Shapes DEF Validated, Change
    <3>2. (IF token THEN "store" ELSE "retire") \in Changing
      BY DEF Changing
    <3>3. change'.at = IF token THEN "store" ELSE "retire"
      BY <3>1, <3>2, Turned
    <3> QED BY <2>1, <3>3
  <2>2. CASE change.at # "validate"
    BY <2>2 DEF Validated
  <2> QED BY <2>1, <2>2
<1>2. UNCHANGED <<token, enabled, enrolled, map, epoch, removals, session, discovery, updating,
                  blocked, select, put, lost>>
  BY DEF Validated, stored, services, bounds, history
<1>3. EnrolTypeInv'
  BY Shapes DEF EnrolInv, EnrolTypeInv, Changing, Changes, Validated, stored, services, bounds
<1>4. OwnInv'
  BY DEF EnrolInv, OwnInv, Validated, services
<1>5. BrowserInv'
  BY DEF EnrolInv, BrowserInv, BrowserSound, Validated
<1>6. MixedInv'
  <2> SUFFICES ASSUME removals = 0
               PROVE  /\ token' /\ change'.at \notin {"retire", "clean"}
                      /\ ServicesMatch' /\ BrowsersMatch' /\ SelectsMatch'
    BY <1>2 DEF MixedInv
  <2>1. /\ token /\ change.at \notin {"retire", "clean"}
        /\ ServicesMatch /\ BrowsersMatch /\ SelectsMatch
    BY DEF EnrolInv, MixedInv
  <2>2. token' /\ change'.at \notin {"retire", "clean"}
    BY <1>1, <1>2, <2>1
  <2>3. ServicesMatch' /\ BrowsersMatch'
    BY <1>2, <2>1 DEF ServicesMatch, BrowsersMatch, BrowserMatches
  <2>4. SelectsMatch'
    BY <1>2, <2>1 DEF SelectsMatch, SelectMatches
  <2> QED BY <2>2, <2>3, <2>4
<1>7. ConnectedInv'
  <2>1. (change.at \in {"retire", "clean"} => ~token) /\ SelectsFresh /\ SelectedLinked
    BY DEF EnrolInv, ConnectedInv
  <2>2. (change.at \in {"retire", "clean"} => ~token)'
    BY <1>1, <1>2, <2>1
  <2>3. SelectsFresh'
    BY <1>2, <2>1 DEF SelectsFresh, SelectFresh
  <2>4. SelectedLinked'
    <3> SUFFICES ASSUME NEW y \in Sessions PROVE SelectionLinked(y)'
      BY DEF SelectedLinked
    <3>1. SelectionLinked(y)
      BY <2>1 DEF SelectedLinked
    <3>2. change'.at = "clean" => change' = change
      BY <1>1
    <3>3. token' \/ change'.at = "store" => token \/ change.at = "store"
      BY <1>1, <1>2
    <3>4. change.at = "clean" => change' = change
      BY <1>1
    <3> QED BY <1>2, <3>1, <3>2, <3>3, <3>4 DEF SelectionLinked
  <2> QED BY <2>2, <2>3, <2>4 DEF ConnectedInv
<1> QED BY <1>3, <1>4, <1>5, <1>6, <1>7 DEF EnrolInv

LEMMA ValidationFailsStep ==
    ASSUME EnrolInv, ValidationFails PROVE EnrolInv'
<1>1. EnrolTypeInv'
  BY DEF EnrolInv, EnrolTypeInv, Changes, ValidationFails, stored, services, bounds
<1>2. OwnInv'
  BY DEF EnrolInv, OwnInv, ValidationFails, services
<1>3. BrowserInv'
  BY DEF EnrolInv, BrowserInv, BrowserSound, ValidationFails
<1>4. MixedInv'
  BY DEF EnrolInv, MixedInv, ServicesMatch, BrowsersMatch, BrowserMatches, SelectsMatch,
         SelectMatches, ValidationFails, stored, services, bounds, Idle
<1>5. ConnectedInv'
  BY DEF EnrolInv, ConnectedInv, SelectsFresh, SelectFresh, SelectedLinked, SelectionLinked,
         ValidationFails, stored, bounds, history, Idle
<1> QED BY <1>1, <1>2, <1>3, <1>4, <1>5 DEF EnrolInv

LEMMA RetireStep ==
    ASSUME EnrolInv, Retire PROVE EnrolInv'
<1>1. change.at = "retire" /\ change # Idle /\ ~token
  BY DEF Retire, Idle, EnrolInv, ConnectedInv
<1>2. UNCHANGED <<token, enabled, map, epoch, removals, session, discovery, updating, blocked,
                  select, put>>
  BY DEF Retire, catalog, services
<1>3. /\ enrolled' \in [Services -> Enrolled] /\ change' \in Changes
      /\ change'.at \in {"clean", "idle"}
      /\ lost \subseteq lost'
      /\ change'.at = "clean" => change'.clean = {r \in Services : enrolled[r] # None}
      /\ change'.at = "idle" =>
           \/ enrolled' = enrolled
           \/ lost' = lost \cup {r \in Services : enrolled[r] # None}
  <2>1. [r \in Services |-> None] \in [Services -> Enrolled]
    BY DEF Enrolled
  <2>2. CASE change' = Idle
    BY <2>1, <2>2 DEF Retire, EnrolInv, EnrolTypeInv, Idle, Changes
  <2>3. CASE /\ change' = [change EXCEPT !.at = "clean",
                                        !.clean = {r \in Services : enrolled[r] # None}]
             /\ enrolled' = [r \in Services |-> None] /\ lost' = lost
    <3>1. change \in [at : Changing, op : {"remove", "put", "discovery"}, clean : SUBSET Services]
      BY <1>1 DEF EnrolInv, EnrolTypeInv, Changes
    <3>2. /\ change' \in [at : Changing, op : {"remove", "put", "discovery"}, clean : SUBSET Services]
          /\ change'.at = "clean" /\ change'.clean = {r \in Services : enrolled[r] # None}
      BY <2>3, <3>1 DEF Changing
    <3> QED BY <2>1, <2>3, <3>2 DEF Changes
  <2> QED BY <2>2, <2>3 DEF Retire
<1>4. \A y \in Sessions :
         session[y].given = "selected" => session[y].service \in Services
  BY DEF EnrolInv, EnrolTypeInv
<1>5. /\ removals = 0 => FALSE
      /\ \A y \in Sessions : select[y].at \in Chosen => select[y].epoch # epoch
  BY <1>1 DEF EnrolInv, MixedInv, ConnectedInv, SelectsFresh, SelectFresh
<1>6. EnrolTypeInv'
  BY <1>1, <1>2, <1>3, <1>4, <1>5, Shapes DEF EnrolInv, EnrolTypeInv
<1>7. OwnInv'
  BY <1>1, <1>2, <1>3, <1>4, <1>5, Shapes DEF EnrolInv, OwnInv, Chosen, Owning
<1>8. BrowserInv'
  BY <1>1, <1>2, <1>3, <1>4, <1>5, Shapes DEF EnrolInv, BrowserInv, BrowserSound, Chosen, Owning
<1>9. MixedInv'
  BY <1>2, <1>5 DEF MixedInv
<1>10. ConnectedInv'
  BY <1>1, <1>2, <1>3, <1>4
     DEF EnrolInv, ConnectedInv, SelectsFresh, SelectFresh, SelectedLinked, SelectionLinked,
         Chosen, Owning
<1> QED BY <1>6, <1>7, <1>8, <1>9, <1>10 DEF EnrolInv

LEMMA CleanUpStep ==
    ASSUME EnrolInv, CleanUp PROVE EnrolInv'
<1>1. EnrolTypeInv'
  BY Shapes
     DEF EnrolInv, EnrolTypeInv, Selection, Selects, Browser, Changing, Changes, Puts, Enrolled,
         CleanUp, RemoveServices, Without, Change, stored, catalog, bounds, NoSession, Idle,
         Chosen, Owning
<1>2. OwnInv'
  BY DEF EnrolInv, OwnInv, CleanUp
<1>3. BrowserInv'
  BY DEF EnrolInv, BrowserInv, BrowserSound, CleanUp, RemoveServices, Without, catalog,
         NoSession
<1>4. MixedInv'
  BY DEF EnrolInv, MixedInv, CleanUp, bounds
<1>5. ConnectedInv'
  BY DEF EnrolInv, ConnectedInv, SelectsFresh, SelectFresh, SelectedLinked, SelectionLinked,
         EnrolTypeInv, CleanUp, RemoveServices, Without, stored, catalog, NoSession
<1> QED BY <1>1, <1>2, <1>3, <1>4, <1>5 DEF EnrolInv

LEMMA StoreTokenStep ==
    ASSUME EnrolInv, StoreToken PROVE EnrolInv'
<1>1. /\ change.at = "store" /\ epoch' = epoch + 1 /\ epoch \in Nat
      /\ change' = Idle /\ change'.at = "idle"
      /\ token' \in BOOLEAN /\ enabled' \in BOOLEAN /\ (token => token')
  <2>1. epoch \in Nat /\ token \in BOOLEAN /\ enabled \in BOOLEAN
    BY DEF EnrolInv, EnrolTypeInv
  <2>2. change.at = "store" /\ epoch' = epoch + 1 /\ change' = Idle
    BY DEF StoreToken, NewEpoch
  <2>3. /\ token' = TRUE \/ token' = token
        /\ enabled' \in BOOLEAN \/ enabled' = enabled
    BY DEF StoreToken
  <2>4. change'.at = "idle"
    BY <2>2 DEF Idle
  <2>5. token' \in BOOLEAN /\ (token => token')
    <3>1. CASE token' = TRUE
      BY <3>1
    <3>2. CASE token' = token
      BY <2>1, <3>2
    <3> QED BY <2>3, <3>1, <3>2
  <2>6. enabled' \in BOOLEAN
    BY <2>1, <2>3
  <2> QED BY <2>1, <2>2, <2>4, <2>5, <2>6
<1>2. UNCHANGED <<enrolled, map, removals, session, discovery, updating, blocked, select, put,
                  lost>>
  BY DEF StoreToken, services, history
<1>3. Idle \in Changes
  BY DEF Changes
<1>4. EnrolTypeInv'
  <2>1. epoch' \in Nat /\ change' \in Changes
    BY <1>1, <1>3
  <2> QED BY <1>1, <1>2, <2>1 DEF EnrolInv, EnrolTypeInv
<1>5. OwnInv'
  BY <1>2 DEF EnrolInv, OwnInv, Chosen, Owning
<1>6. BrowserInv'
  BY <1>2 DEF EnrolInv, BrowserInv, BrowserSound, Chosen, Owning
<1>7. MixedInv'
  <2> SUFFICES ASSUME removals' = 0
               PROVE  /\ (token /\ change.at \notin {"retire", "clean"})'
                      /\ ServicesMatch' /\ BrowsersMatch' /\ SelectsMatch'
    BY DEF MixedInv
  <2>1. /\ removals = 0 /\ token /\ change.at \notin {"retire", "clean"}
        /\ ServicesMatch /\ BrowsersMatch /\ SelectsMatch
    BY <1>1, <1>2 DEF EnrolInv, MixedInv
  <2>2. (token /\ change.at \notin {"retire", "clean"})'
    BY <1>1, <1>2, <2>1
  <2>3. ServicesMatch'
    BY <1>1, <1>2, <2>1 DEF ServicesMatch
  <2>4. BrowsersMatch'
    BY <1>1, <1>2, <2>1 DEF BrowsersMatch, BrowserMatches
  <2>5. SelectsMatch'
    BY <1>1, <1>2, <2>1 DEF SelectsMatch, SelectMatches
  <2> QED BY <2>2, <2>3, <2>4, <2>5
<1>8. ConnectedInv'
  <2>1. (change.at \in {"retire", "clean"} => ~token) /\ SelectsFresh /\ SelectedLinked
    BY DEF EnrolInv, ConnectedInv
  <2>2. (change.at \in {"retire", "clean"} => ~token)'
    BY <1>1, <1>2, <2>1
  <2>3. SelectsFresh'
    BY <1>1, <1>2, FreshAfter
  <2>4. SelectedLinked'
    BY <1>1, <1>2, <2>1 DEF SelectedLinked, SelectionLinked
  <2> QED BY <2>2, <2>3, <2>4 DEF ConnectedInv
<1> QED BY <1>4, <1>5, <1>6, <1>7, <1>8 DEF EnrolInv

LEMMA SwitchStep ==
    ASSUME EnrolInv, Switch PROVE EnrolInv'
<1>1. EnrolTypeInv'
  BY DEF EnrolInv, EnrolTypeInv, Changing, Changes, Switch, catalog, services, bounds
<1>2. OwnInv'
  BY DEF EnrolInv, OwnInv, Switch, services
<1>3. BrowserInv'
  BY DEF EnrolInv, BrowserInv, BrowserSound, Switch, catalog
<1>4. MixedInv'
  BY DEF EnrolInv, MixedInv, ServicesMatch, BrowsersMatch, BrowserMatches, SelectsMatch,
         SelectMatches, Switch, services, bounds
<1>5. ConnectedInv'
  BY DEF EnrolInv, ConnectedInv, SelectsFresh, SelectFresh, SelectedLinked, SelectionLinked,
         Switch, catalog, bounds, history, Idle
<1> QED BY <1>1, <1>2, <1>3, <1>4, <1>5 DEF EnrolInv

LEMMA SwitchedStep ==
    ASSUME EnrolInv, Switched PROVE EnrolInv'
<1>1. /\ epoch' = epoch + 1 /\ epoch \in Nat
      /\ change' = Idle /\ change'.at = "idle" /\ change.at = "switched"
  BY DEF Switched, NewEpoch, Idle, EnrolInv, EnrolTypeInv
<1>2. UNCHANGED <<token, enabled, enrolled, map, removals, session, discovery, updating, blocked,
                  select, put, lost>>
  BY DEF Switched, stored, services, bounds, history
<1>3. epoch' \in Nat /\ change' \in Changes
  BY <1>1 DEF Changes
<1>4. EnrolTypeInv'
  BY <1>2, <1>3 DEF EnrolInv, EnrolTypeInv
<1>5. OwnInv'
  BY <1>2 DEF EnrolInv, OwnInv
<1>6. BrowserInv'
  BY <1>2 DEF EnrolInv, BrowserInv, BrowserSound
<1>7. MixedInv'
  BY <1>1, <1>2 DEF EnrolInv, MixedInv, ServicesMatch, BrowsersMatch, BrowserMatches,
                    SelectsMatch, SelectMatches
<1>8. ConnectedInv'
  <2>1. (change.at \in {"retire", "clean"} => ~token) /\ SelectedLinked
    BY DEF EnrolInv, ConnectedInv
  <2>2. SelectsFresh'
    BY <1>1, <1>2, FreshAfter
  <2>3. SelectedLinked'
    BY <1>1, <1>2, <2>1 DEF SelectedLinked, SelectionLinked
  <2> QED BY <1>1, <2>2, <2>3 DEF ConnectedInv
<1> QED BY <1>4, <1>5, <1>6, <1>7, <1>8 DEF EnrolInv

LEMMA RestartStep ==
    ASSUME EnrolInv, Restart PROVE EnrolInv'
<1>1. EnrolTypeInv'
  BY Shapes
     DEF EnrolInv, EnrolTypeInv, Selects, Browser, Changes, Puts, Restart, stored, NoSession
<1>2. OwnInv'
  BY DEF OwnInv, Restart, Idle, Owning
<1>3. BrowserInv'
  BY DEF BrowserInv, BrowserSound, Restart, Idle
<1>4. MixedInv'
  BY DEF EnrolInv, MixedInv, ServicesMatch, BrowsersMatch, BrowserMatches, SelectsMatch,
         SelectMatches, Restart, stored, NoSession, Idle
<1>5. ConnectedInv'
  BY DEF ConnectedInv, SelectsFresh, SelectFresh, SelectedLinked, SelectionLinked, Restart,
         NoSession, Idle, Chosen, Owning
<1> QED BY <1>1, <1>2, <1>3, <1>4, <1>5 DEF EnrolInv

\* The invariant holds at the start, and every step keeps it.
LEMMA EnrolInit == Init => EnrolInv
<1> SUFFICES ASSUME Init PROVE EnrolInv
  OBVIOUS
<1>1. /\ None \in Enrolled /\ NoSession \in Browser /\ Idle \in Selects /\ Idle \in Puts
      /\ Idle \in Changes /\ Idle.at = "idle" /\ None.config = 0
      /\ NoSession.at = "none" /\ NoSession.given = ""
  BY DEF None, NoSession, Idle, Enrolled, Browser, Selects, Puts, Changes
<1>2. /\ \A x \in Sessions : session[x] = NoSession /\ select[x] = Idle
      /\ \A s \in Services : put[s] = Idle /\ enrolled[s] = None /\ map[s] = 0
      /\ change = Idle /\ discovery = {} /\ token = TRUE
  BY DEF Init
<1>3. EnrolTypeInv
  BY <1>1 DEF Init, EnrolTypeInv
<1>4. OwnInv
  BY <1>1, <1>2 DEF OwnInv, Owning
<1>5. BrowserInv
  BY <1>1, <1>2 DEF BrowserInv, BrowserSound
<1>6. MixedInv
  <2>1. ServicesMatch
    BY <1>1, <1>2 DEF ServicesMatch
  <2>2. BrowsersMatch /\ SelectsMatch
    BY <1>1, <1>2 DEF BrowsersMatch, BrowserMatches, SelectsMatch, SelectMatches
  <2> QED BY <1>1, <1>2, <2>1, <2>2 DEF MixedInv
<1>7. ConnectedInv
  <2>1. SelectsFresh
    BY <1>1, <1>2 DEF SelectsFresh, SelectFresh, Chosen, Owning
  <2>2. SelectedLinked
    BY <1>1, <1>2 DEF SelectedLinked, SelectionLinked
  <2> QED BY <1>1, <1>2, <2>1, <2>2 DEF ConnectedInv
<1> QED BY <1>3, <1>4, <1>5, <1>6, <1>7 DEF EnrolInv

LEMMA EnrolStep == EnrolInv /\ [Next]_vars => EnrolInv'
<1> SUFFICES ASSUME EnrolInv, [Next]_vars PROVE EnrolInv'
  OBVIOUS
<1>1. CASE UNCHANGED vars
  <2>1. UNCHANGED <<token, enabled, enrolled, map, epoch, updating, blocked, discovery, session,
                    select, put, change, removals, lost>>
    BY <1>1 DEF vars, stored, catalog, services, bounds, history
  <2>2. EnrolTypeInv' /\ OwnInv'
    BY <2>1 DEF EnrolInv, EnrolTypeInv, OwnInv
  <2>3. BrowserInv'
    BY <2>1 DEF EnrolInv, BrowserInv, BrowserSound
  <2>4. MixedInv'
    BY <2>1 DEF EnrolInv, MixedInv, ServicesMatch, BrowsersMatch, BrowserMatches, SelectsMatch,
                SelectMatches
  <2>5. ConnectedInv'
    BY <2>1 DEF EnrolInv, ConnectedInv, SelectsFresh, SelectFresh, SelectedLinked,
                SelectionLinked
  <2> QED BY <2>2, <2>3, <2>4, <2>5 DEF EnrolInv
<1>2. ASSUME NEW x \in Sessions,
             \/ OpenDiscovery(x) \/ CloseBrowser(x)
             \/ \E s \in Services : OpenService(x, s)
      PROVE  EnrolInv'
  BY <1>2, OpenDiscoveryStep, CloseBrowserStep, OpenServiceStep
<1>3. ASSUME NEW x \in Sessions,
             \/ BeginSelect(x) \/ SelectTimesOut(x) \/ ResolveFails(x)
             \/ \E s \in Services, c \in Configs : Resolved(x, s, c)
             \/ CheckSelected(x) \/ ReadPrevious(x) \/ SaveSelected(x) \/ BindSelected(x)
             \/ ReadConnections(x) \/ Answer(x) \/ Undo(x)
      PROVE  EnrolInv'
  BY <1>3, BeginSelectStep, SelectTimesOutStep, ResolveFailsStep, ResolvedStep,
     CheckSelectedStep, ReadPreviousStep, SaveSelectedStep, BindSelectedStep,
     ReadConnectionsStep, AnswerStep, UndoStep
<1>4. ASSUME NEW s \in Services,
             \/ \E c \in Configs : BeginPut(s, c)
             \/ SavePut(s) \/ SetPut(s) \/ UndoPut(s)
      PROVE  EnrolInv'
  BY <1>4, BeginPutStep, SavePutStep, SetPutStep, UndoPutStep
<1>5. ASSUME \/ BeginRemove \/ Drop \/ BeginPutConnection \/ Validated \/ ValidationFails
             \/ Retire \/ CleanUp \/ StoreToken \/ Switch \/ Switched
             \/ Restart
      PROVE  EnrolInv'
  BY <1>5, BeginRemoveStep, DropStep, BeginPutConnectionStep, ValidatedStep,
     ValidationFailsStep, RetireStep, CleanUpStep, StoreTokenStep, SwitchStep, SwitchedStep,
     RestartStep
<1> QED BY <1>1, <1>2, <1>3, <1>4, <1>5 DEF Next

\* EnrolInv is an invariant of the model.
LEMMA SoundEnrollments == MCSpec => []EnrolInv
<1>1. MCInit => EnrolInv
  BY EnrolInit DEF MCInit
<1>2. [MCNext]_<<part, vars, catalogVars, storeVars, handoffVars, waitVars>> => [Next]_vars
  BY DEF MCNext
<1> QED BY <1>1, <1>2, EnrolStep, PTL DEF MCSpec

\* As long as nothing is removed, a browser that was opened or selected for a service is
\* configured as the service is enrolled (auth/runtime.js select and putEnrollment).
THEOREM NoBrowserIsMixed == MCSpec => []NoMixedConfiguration
<1>1. EnrolInv => NoMixedConfiguration
  BY DEF EnrolInv, MixedInv, BrowsersMatch, BrowserMatches, NoMixedConfiguration
<1> QED BY <1>1, SoundEnrollments, PTL

\* A select that is answered across a removal leaves its browser connected: the epoch that
\* is compared before the answer is of the token it rests on (auth/runtime.js select, retire).
THEOREM SelectionsStayConnected == MCSpec => []SelectedIsConnected
<1>1. EnrolInv => SelectedIsConnected
  BY DEF EnrolInv, ConnectedInv, SelectedLinked, SelectionLinked, SelectedIsConnected
<1> QED BY <1>1, SoundEnrollments, PTL

-----------------------------------------------------------------------------
(* The catalog of accounts.                                                *)

\* The connections, and the accounts that were listed.
Vaulted == Catalog!Connections
Listing == [provider : Vaulted, generation : Nat, since : Nat]

\* What an index may have been made of: nothing, or a token and a state of the vault.
Contents == {<<>>} \cup (Nat \X Nat)

LEMMA ContentsAre == <<>> \in Contents /\ \A t, c \in Nat : <<t, c>> \in Contents
BY DEF Contents

\* What an index of a connection is.
Index == [entry : Nat, generation : Nat, listing : Contents, fresh : BOOLEAN,
          job : {"none", "list"}, conn : Nat]

\* What every variable holds.
CatalogTypeInv ==
    /\ secret \in [Vaulted -> Nat] /\ client \in [Vaulted -> Nat]
    /\ version \in [Vaulted -> Nat] /\ made \in [Vaulted -> Nat]
    /\ DOMAIN health = Vaulted
    /\ cache \in [Vaulted -> Index]
    /\ content \in [Vaulted -> Nat]
    /\ handles \subseteq Listing
    /\ search \in {Catalog!Idle} \cup
           [at : {"next", "wait"}, rest : Seq(Vaulted), found : SUBSET Listing, entry : Nat]
    /\ resolution \in {Catalog!Idle} \cup
           [at : {"wait", "client", "get", "returned"}, handle : Listing, entry : Nat,
            conn : Nat]
    /\ use \in {Catalog!Idle} \cup [at : {"using"}, provider : Vaulted, version : Nat]

\* The accounts somebody may still hold: a handle was given out for them, or a search found
\* them and has not ended.
Held == handles \cup (IF search = Catalog!Idle THEN {} ELSE search.found)

\* An index has a generation of its own, and an account of the present generation was found
\* since the connection was last reset.
GenerationInv ==
    /\ \A p \in Vaulted :
         /\ cache[p].generation <= made[p]
         /\ cache[p] # Catalog!NoCache => cache[p].generation # 0
    /\ \A h \in Held :
         /\ h.generation \in 1..made[h.provider]
         /\ h.generation = cache[h.provider].generation => h.since = version[h.provider]

\* The inductive invariant of the catalog.
CatalogInv ==
    /\ CatalogTypeInv /\ GenerationInv
    /\ Catalog!ClientIsStored /\ Catalog!HealthIsCurrent

\* A search visits connections there are.
LEMMA VisitsAreVaults == Visits \in Seq(Vaulted)
<1>1. /\ Cardinality(Vaults) \in Nat
      /\ \E f \in [1..Cardinality(Vaults) -> Vaults] : IsInjective(f)
  <2>1. Cardinality(Vaults) \in Nat /\ ExistsBijection(1..Cardinality(Vaults), Vaults)
    BY FS_CardinalityType, VaultsAssumption
  <2> QED BY <2>1 DEF ExistsBijection, Bijection, Injection, IsInjective
<1>2. Visits \in [1..Cardinality(Vaults) -> Vaults]
  BY <1>1 DEF Visits, SetToSeq
<1>3. \A k \in DOMAIN Visits : Visits[k] \in Vaulted
  BY DEF Vaulted, Catalog!Connections
<1>4. Visits \in [1..Cardinality(Vaults) -> Vaulted]
  BY <1>2, <1>3
<1> QED BY <1>1, <1>4

LEMMA CatalogInit == Catalog!Init => CatalogInv
<1> USE DEF Catalog!Init
<1>1. Catalog!Init => CatalogTypeInv
  BY ContentsAre DEF CatalogTypeInv, Catalog!NoCache, Vaulted, Index
<1>2. Catalog!Init => GenerationInv
  BY DEF GenerationInv, Held, Vaulted, Catalog!NoCache
<1> QED BY <1>1, <1>2 DEF CatalogInv, Catalog!ClientIsStored, Catalog!HealthIsCurrent, Vaulted

\* What a caller of the vault may do to a client: it stays, goes, or is made from the token.
LEMMA KeepStep ==
    ASSUME CatalogInv, NEW p \in Vaulted,
           \E c \in {0, client[p], Catalog!Client(p)} : Catalog!Keep(p, c),
           UNCHANGED <<secret, changing>>
    PROVE  client' \in [Vaulted -> Nat] /\ Catalog!ClientIsStored'
BY DEF CatalogInv, CatalogTypeInv, Catalog!ClientIsStored, Catalog!Keep, Catalog!Client, Vaulted

\* An index may be changed as long as its generation stays or is one that no account has,
\* and the latter whenever the connection is reset.
LEMMA IndexStep ==
    ASSUME CatalogInv, NEW p \in Vaulted, NEW index \in Index,
           cache' = [cache EXCEPT ![p] = index], index.generation <= made'[p],
           index # Catalog!NoCache => index.generation # 0,
           made' \in [Vaulted -> Nat], \A v \in Vaulted : made[v] <= made'[v],
           \/ index.generation = 0 \/ index.generation > made[p]
           \/ index.generation = cache[p].generation /\ version'[p] = version[p],
           \A v \in Vaulted \ {p} : version'[v] = version[v],
           Held' \subseteq Held
    PROVE  GenerationInv'
<1>1. cache \in [Vaulted -> Index] /\ made \in [Vaulted -> Nat]
  BY DEF CatalogInv, CatalogTypeInv
<1>2. index.generation \in Nat /\ \A v \in Vaulted : cache[v].generation \in Nat
  BY <1>1 DEF Index
<1>3. /\ cache'[p] = index
      /\ \A v \in Vaulted \ {p} : cache'[v] = cache[v]
  BY <1>1
<1>4. \A v \in Vaulted :
        /\ cache'[v].generation <= made'[v]
        /\ cache'[v] # Catalog!NoCache => cache'[v].generation # 0
  <2>1. \A v \in Vaulted : /\ cache[v].generation <= made[v]
                           /\ cache[v] # Catalog!NoCache => cache[v].generation # 0
    BY DEF CatalogInv, GenerationInv
  <2>2. TAKE v \in Vaulted
  <2>3. CASE v = p
    BY <1>3, <2>3
  <2>4. CASE v # p
    BY <1>1, <1>2, <1>3, <2>1, <2>4
  <2> QED BY <2>3, <2>4
<1>5. ASSUME NEW h \in Held'
      PROVE  /\ h.generation \in 1..made'[h.provider]
             /\ h.generation = cache'[h.provider].generation => h.since = version'[h.provider]
  <2>1. /\ h \in Held /\ h.provider \in Vaulted /\ h.generation \in Nat
    BY DEF CatalogInv, CatalogTypeInv, Held, Catalog!Idle, Listing
  <2>2. /\ h.generation \in 1..made[h.provider]
        /\ h.generation = cache[h.provider].generation => h.since = version[h.provider]
    BY <2>1 DEF CatalogInv, GenerationInv
  <2>3. h.generation \in 1..made'[h.provider]
    BY <1>1, <2>1, <2>2
  <2>4. CASE h.provider = p
    <3>1. CASE index.generation = 0 \/ index.generation > made[p]
      BY <1>1, <1>2, <1>3, <2>1, <2>2, <2>3, <2>4, <3>1
    <3>2. CASE index.generation = cache[p].generation /\ version'[p] = version[p]
      BY <1>3, <2>2, <2>3, <2>4, <3>2
    <3> QED BY <3>1, <3>2
  <2>5. CASE h.provider # p
    BY <1>3, <2>1, <2>2, <2>3, <2>5
  <2> QED BY <2>4, <2>5
<1> QED BY <1>4, <1>5 DEF GenerationInv

\* A refresh leaves the accounts that were listed as they are: the index keeps its
\* generation, or gets one that none of them has.
LEMMA StartJobStep ==
    ASSUME CatalogInv, NEW p \in Vaulted, Catalog!StartJob(p),
           UNCHANGED <<secret, changing, version>>, Held' \subseteq Held
    PROVE  /\ cache' \in [Vaulted -> Index]
           /\ made' \in [Vaulted -> Nat] /\ client' \in [Vaulted -> Nat]
           /\ DOMAIN health' = Vaulted
           /\ GenerationInv' /\ Catalog!ClientIsStored' /\ Catalog!HealthIsCurrent'
<1> DEFINE entry == IF cache[p] # Catalog!NoCache THEN cache[p]
                    ELSE [Catalog!NoCache EXCEPT !.entry = made[p] + 1,
                                                 !.generation = made[p] + 1]
           new == [entry EXCEPT !.job = "list", !.conn = Catalog!Client(p)]
<1>1. /\ cache' = [cache EXCEPT ![p] = new]
      /\ made' = IF cache[p] = Catalog!NoCache THEN [made EXCEPT ![p] = @ + 1] ELSE made
      /\ Catalog!Keep(p, Catalog!Client(p)) /\ Catalog!Report(p)
  BY DEF Catalog!StartJob
<1>2. /\ cache \in [Vaulted -> Index] /\ made \in [Vaulted -> Nat]
      /\ Catalog!Client(p) \in Nat
  BY DEF CatalogInv, CatalogTypeInv, Catalog!Client
<1>3. /\ entry \in Index /\ entry.generation # 0 /\ entry.generation <= made'[p]
      /\ entry.generation = cache[p].generation \/ entry.generation = made[p] + 1
  <2>1. CASE cache[p] # Catalog!NoCache
    BY <1>1, <1>2, <2>1 DEF CatalogInv, GenerationInv
  <2>2. CASE cache[p] = Catalog!NoCache
    <3>1. entry = [entry |-> made[p] + 1, generation |-> made[p] + 1, listing |-> <<>>,
                   fresh |-> FALSE, job |-> "none", conn |-> 0]
      BY <2>2 DEF Catalog!NoCache
    <3>2. made'[p] = made[p] + 1 /\ made[p] \in Nat
      BY <1>1, <1>2, <2>2
    <3> HIDE DEF entry
    <3> QED BY <3>1, <3>2, ContentsAre DEF Index
  <2> QED BY <2>1, <2>2
<1>4. new \in Index /\ new.generation = entry.generation
  BY <1>2, <1>3 DEF Index
<1> HIDE DEF new, entry
<1>5. made' \in [Vaulted -> Nat] /\ \A v \in Vaulted : made[v] <= made'[v]
  BY <1>1, <1>2
<1>6. GenerationInv'
  <2>1. /\ new.generation <= made'[p] /\ new.generation # 0
        /\ new.generation > made[p] \/ new.generation = cache[p].generation
    BY <1>2, <1>3, <1>4
  <2> QED BY <1>1, <1>4, <1>5, <2>1, IndexStep
<1>7. Catalog!HealthIsCurrent' /\ DOMAIN health' = Vaulted
  BY <1>1 DEF Catalog!Report, Catalog!HealthIsCurrent, Vaulted, CatalogInv, CatalogTypeInv
<1> QED BY <1>1, <1>2, <1>4, <1>5, <1>6, <1>7, KeepStep

\* The owner stores a token: until the change has ended nothing is said of its client.
LEMMA StoreTokensStep == ASSUME CatalogInv, NEW p \in Vaulted, Catalog!Store(p) PROVE CatalogInv'
<1> USE DEF CatalogInv, CatalogTypeInv, Catalog!Store
<1>1. secret' \in [Vaulted -> Nat] /\ \A v \in Vaulted \ {p} : secret'[v] = secret[v]
  OBVIOUS
<1>2. CatalogTypeInv'
  BY <1>1
<1>3. GenerationInv'
  BY DEF GenerationInv, Held
<1>4. Catalog!ClientIsStored'
  BY <1>1 DEF Catalog!ClientIsStored, Vaulted
<1>5. Catalog!HealthIsCurrent'
  BY DEF Catalog!HealthIsCurrent
<1> QED BY <1>2, <1>3, <1>4, <1>5

\* A reset ends the generation of every account that was listed before.
LEMMA ResetsStep ==
    ASSUME CatalogInv, NEW p \in Vaulted, Catalog!Activate(p) \/ Catalog!Forget(p)
    PROVE  CatalogInv'
<1>1. /\ changing' = changing \ {p} /\ Catalog!Reset(p)
      /\ UNCHANGED <<secret, content, search, resolution, use>>
      /\ client' = [client EXCEPT ![p] = secret[p]] \/ client' = [client EXCEPT ![p] = 0]
  BY DEF Catalog!Activate, Catalog!Forget
<1>2. /\ cache \in [Vaulted -> Index] /\ made \in [Vaulted -> Nat]
      /\ secret[p] \in Nat /\ content[p] \in Nat
      /\ client \in [Vaulted -> Nat] /\ DOMAIN health = Vaulted
  BY DEF CatalogInv, CatalogTypeInv
<1>3. PICK index \in Index :
        /\ cache' = [cache EXCEPT ![p] = index]
        /\ \/ index = Catalog!NoCache /\ made' = made
           \/ index.generation = made[p] + 1 /\ made' = [made EXCEPT ![p] = @ + 1]
  <2>1. CASE Catalog!Forget(p)
    BY <2>1, ContentsAre DEF Catalog!Forget, Catalog!NoCache, Index
  <2>2. CASE Catalog!Activate(p)
    <3> DEFINE index == [Catalog!NoCache EXCEPT !.entry = made[p] + 1,
                                                !.generation = made[p] + 1,
                                                !.listing = <<secret[p], content[p]>>,
                                                !.fresh = TRUE]
    <3>1. ASSUME NEW n \in Nat, NEW l \in Contents
          PROVE  LET i == [Catalog!NoCache EXCEPT !.entry = n, !.generation = n,
                                                  !.listing = l, !.fresh = TRUE]
                 IN  i \in Index /\ i.generation = n
      BY ContentsAre DEF Catalog!NoCache, Index
    <3>2. index \in Index /\ index.generation = made[p] + 1
      <4>1. made[p] + 1 \in Nat /\ <<secret[p], content[p]>> \in Contents
        BY <1>2, ContentsAre
      <4> QED BY <3>1, <4>1, Zenon
    <3>3. cache' = [cache EXCEPT ![p] = index] /\ made' = [made EXCEPT ![p] = @ + 1]
      BY <2>2 DEF Catalog!Activate, Catalog!Adopt
    <3> HIDE DEF index
    <3> QED BY <3>2, <3>3
  <2> QED BY <2>1, <2>2
<1>4. /\ version' \in [Vaulted -> Nat] /\ \A v \in Vaulted \ {p} : version'[v] = version[v]
      /\ handles' \subseteq handles
      /\ health' = [health EXCEPT ![p] = Catalog!Unchecked]
  BY <1>1 DEF Catalog!Reset, CatalogInv, CatalogTypeInv
<1>5. /\ made' \in [Vaulted -> Nat] /\ \A v \in Vaulted : made[v] <= made'[v]
      /\ index.generation <= made'[p] /\ (index # Catalog!NoCache => index.generation # 0)
      /\ index.generation = 0 \/ index.generation > made[p]
  <2>1. index.generation \in Nat /\ Catalog!NoCache.generation = 0
    BY DEF Index, Catalog!NoCache
  <2>2. CASE index = Catalog!NoCache /\ made' = made
    BY <1>2, <2>1, <2>2
  <2>3. CASE index.generation = made[p] + 1 /\ made' = [made EXCEPT ![p] = @ + 1]
    BY <1>2, <2>1, <2>3
  <2> QED BY <1>3, <2>2, <2>3
<1>6. cache' \in [Vaulted -> Index]
  BY <1>2, <1>3
<1>7. CatalogTypeInv'
  <2>1. client' \in [Vaulted -> Nat] /\ DOMAIN health' = Vaulted
    BY <1>1, <1>2, <1>4
  <2> QED BY <1>1, <1>4, <1>5, <1>6, <2>1, Zenon DEF CatalogInv, CatalogTypeInv
<1>8. Held' \subseteq Held
  BY <1>1, <1>4 DEF Held
<1>9. GenerationInv'
  BY <1>3, <1>4, <1>5, <1>8, IndexStep
<1>10. Catalog!ClientIsStored'
  BY <1>1 DEF CatalogInv, CatalogTypeInv, Catalog!ClientIsStored, Vaulted
<1>11. Catalog!HealthIsCurrent'
  BY <1>4 DEF CatalogInv, CatalogTypeInv, Catalog!HealthIsCurrent, Vaulted
<1> QED BY <1>7, <1>9, <1>10, <1>11 DEF CatalogInv


\* The vault changes, or an index grows old: no generation begins.
LEMMA TimeStep ==
    ASSUME CatalogInv, NEW p \in Vaulted, Catalog!VaultChanges(p) \/ Catalog!Age(p)
    PROVE  CatalogInv'
<1>1. CASE Catalog!VaultChanges(p)
  <2>1. content' \in [Vaulted -> Nat]
    BY <1>1 DEF Catalog!VaultChanges, CatalogInv, CatalogTypeInv
  <2>2. UNCHANGED <<secret, changing, client, version, cache, handles, search, resolution, use,
                    made, health>>
    BY <1>1 DEF Catalog!VaultChanges
  <2> QED BY <2>1, <2>2 DEF CatalogInv, CatalogTypeInv, GenerationInv, Held,
               Catalog!ClientIsStored, Catalog!HealthIsCurrent
<1>2. CASE Catalog!Age(p)
  <2> DEFINE index == [cache[p] EXCEPT !.fresh = FALSE]
  <2>1. cache \in [Vaulted -> Index] /\ made \in [Vaulted -> Nat]
    BY DEF CatalogInv, CatalogTypeInv
  <2>2. /\ cache' = [cache EXCEPT ![p] = index] /\ handles' \subseteq handles
        /\ cache[p].fresh
        /\ UNCHANGED <<secret, changing, content, client, version, search, resolution, use,
                       made, health>>
    BY <1>2 DEF Catalog!Age
  <2>3. index \in Index /\ index.generation = cache[p].generation
    BY <2>1 DEF Index
  <2>4. index.generation <= made[p] /\ index.generation # 0
    BY <2>2, <2>3 DEF CatalogInv, GenerationInv, Catalog!NoCache
  <2> HIDE DEF index
  <2>5. GenerationInv'
    <3>1. Held' \subseteq Held
      BY <2>2 DEF Held
    <3>2. /\ made' \in [Vaulted -> Nat] /\ \A v \in Vaulted : made[v] <= made'[v]
          /\ index.generation <= made'[p] /\ version' = version
      BY <2>1, <2>2, <2>4
    <3> QED BY <2>2, <2>3, <2>4, <3>1, <3>2, IndexStep
  <2>6. cache' \in [Vaulted -> Index]
    BY <2>1, <2>2, <2>3
  <2>7. CatalogTypeInv'
    BY <2>2, <2>6, Zenon DEF CatalogInv, CatalogTypeInv
  <2> QED BY <2>2, <2>5, <2>7 DEF CatalogInv, Catalog!ClientIsStored, Catalog!HealthIsCurrent
<1> QED BY <1>1, <1>2

\* A job ends: with another listing the index has another generation, else the one it had.
LEMMA JobEndsStep ==
    ASSUME CatalogInv, NEW p \in Vaulted, Catalog!Listed(p) \/ Catalog!JobFails(p)
    PROVE  CatalogInv'
<1>1. /\ cache \in [Vaulted -> Index] /\ made \in [Vaulted -> Nat]
      /\ client \in [Vaulted -> Nat] /\ content \in [Vaulted -> Nat]
      /\ version \in [Vaulted -> Nat] /\ DOMAIN health = Vaulted
  BY DEF CatalogInv, CatalogTypeInv
<1>2. /\ UNCHANGED <<secret, changing, content, version, handles, search, resolution, use>>
      /\ health' = [health EXCEPT ![p] = version[p]]
      /\ cache[p].job = "list"
      /\ \E c \in {0, client[p], Catalog!Client(p)} : Catalog!Keep(p, c)
  <2>1. CASE Catalog!Listed(p)
    <3>1. client = [client EXCEPT ![p] = client[p]]
      BY <1>1
    <3> QED BY <2>1, <3>1 DEF Catalog!Listed, Catalog!Report, Catalog!Keep
  <2>2. CASE Catalog!JobFails(p)
    BY <2>2 DEF Catalog!JobFails, Catalog!Report
  <2> QED BY <2>1, <2>2
<1>3. PICK index \in Index :
        /\ cache' = [cache EXCEPT ![p] = index]
        /\ \/ index.generation = cache[p].generation /\ made' = made
           \/ index.generation = made[p] + 1 /\ made' = [made EXCEPT ![p] = @ + 1]
  <2>1. CASE Catalog!Listed(p)
    <3> DEFINE listing == <<cache[p].conn, content[p]>>
               changed == cache[p].listing # listing
               generation == IF changed THEN made[p] + 1 ELSE cache[p].generation
               index == [cache[p] EXCEPT !.listing = listing, !.fresh = TRUE, !.job = "none",
                                         !.conn = 0, !.generation = generation]
    <3>1. /\ cache' = [cache EXCEPT ![p] = index]
          /\ made' = IF changed THEN [made EXCEPT ![p] = @ + 1] ELSE made
      BY <1>1, <2>1 DEF Catalog!Listed
    <3>2. ASSUME NEW g \in Nat, NEW l \in Contents
          PROVE  LET i == [cache[p] EXCEPT !.listing = l, !.fresh = TRUE, !.job = "none",
                                           !.conn = 0, !.generation = g]
                 IN  i \in Index /\ i.generation = g
      BY <1>1 DEF Index
    <3>3. listing \in Contents /\ generation \in Nat
      BY <1>1, ContentsAre DEF Index
    <3>4. index \in Index /\ index.generation = generation
      <4> HIDE DEF listing, generation
      <4> QED BY <3>2, <3>3, Zenon
    <3> HIDE DEF index, listing
    <3> QED BY <3>1, <3>4
  <2>2. CASE Catalog!JobFails(p)
    <3> DEFINE index == [cache[p] EXCEPT !.job = "none", !.conn = 0]
    <3>1. cache' = [cache EXCEPT ![p] = index] /\ made' = made
      BY <2>2 DEF Catalog!JobFails
    <3>2. index \in Index /\ index.generation = cache[p].generation
      BY <1>1 DEF Index
    <3> HIDE DEF index
    <3> QED BY <3>1, <3>2
  <2> QED BY <2>1, <2>2
<1>4. GenerationInv'
  <2>1. cache[p].generation # 0 /\ cache[p].generation <= made[p] /\ made[p] \in Nat
        /\ cache[p].generation \in Nat
    BY <1>1, <1>2 DEF CatalogInv, GenerationInv, Catalog!NoCache, Index
  <2>2. /\ made' \in [Vaulted -> Nat] /\ \A v \in Vaulted : made[v] <= made'[v]
        /\ index.generation <= made'[p] /\ index.generation # 0
        /\ index.generation = cache[p].generation \/ index.generation > made[p]
    BY <1>1, <1>3, <2>1
  <2>3. Held' \subseteq Held
    BY <1>2 DEF Held
  <2> QED BY <1>2, <1>3, <2>2, <2>3, IndexStep
<1>5. client' \in [Vaulted -> Nat] /\ Catalog!ClientIsStored'
  BY <1>2, KeepStep
<1>6. CatalogTypeInv'
  <2>1. cache' \in [Vaulted -> Index] /\ made' \in [Vaulted -> Nat] /\ DOMAIN health' = Vaulted
    BY <1>1, <1>2, <1>3
  <2> QED BY <1>2, <1>5, <2>1, Zenon DEF CatalogInv, CatalogTypeInv
<1>7. Catalog!HealthIsCurrent'
  BY <1>1, <1>2 DEF CatalogInv, Catalog!HealthIsCurrent, Vaulted
<1> QED BY <1>4, <1>5, <1>6, <1>7 DEF CatalogInv

\* A search holds the accounts it found since the connection was reset, or found before and
\* of another generation.
LEMMA SearchStep ==
    ASSUME CatalogInv,
           \/ Catalog!BeginSearch \/ Catalog!Collect \/ Catalog!SearchRefreshes
           \/ Catalog!SearchFails \/ Catalog!EndSearch
    PROVE  CatalogInv'
<1> DEFINE Search == [at : {"next", "wait"}, rest : Seq(Vaulted), found : SUBSET Listing,
                      entry : Nat]
<1>1. /\ UNCHANGED <<secret, changing, content, version, resolution, use>>
      /\ \/ UNCHANGED <<cache, client, made, health>>
         \/ \E p \in Vaulted : search.at = "next" /\ Catalog!StartJob(p)
  <2>1. CASE Catalog!SearchRefreshes
    <3>1. search \in Search /\ search.rest # <<>>
      BY <2>1 DEF Catalog!SearchRefreshes, Catalog!Idle, CatalogInv, CatalogTypeInv
    <3>2. Head(search.rest) \in Vaulted
      BY <3>1
    <3> QED BY <2>1, <3>2 DEF Catalog!SearchRefreshes
  <2> QED BY <2>1 DEF Catalog!BeginSearch, Catalog!Collect, Catalog!SearchFails,
               Catalog!EndSearch
<1>2. CASE Catalog!Collect
  <2>1. search \in Search /\ search.rest # <<>>
    BY <1>2 DEF Catalog!Collect, Catalog!Idle, CatalogInv, CatalogTypeInv
  <2> DEFINE p == Head(search.rest)
  <2>2. p \in Vaulted /\ Tail(search.rest) \in Seq(Vaulted)
    BY <2>1
  <2>3. /\ search' = [search EXCEPT !.at = "next", !.rest = Tail(@), !.entry = 0,
                                    !.found = @ \cup {Catalog!Account(p)}]
        /\ Catalog!Ready(p) /\ UNCHANGED <<cache, client, made, health, handles>>
    BY <1>2 DEF Catalog!Collect
  <2> HIDE DEF p
  <2>4. /\ Catalog!Account(p) \in Listing
        /\ Catalog!Account(p).provider = p
        /\ Catalog!Account(p).generation = cache[p].generation
        /\ Catalog!Account(p).since = version[p]
    BY <2>2 DEF Catalog!Account, Listing, CatalogInv, CatalogTypeInv, Index
  <2>5. search' \in Search /\ search'.found = search.found \cup {Catalog!Account(p)}
    BY <2>1, <2>2, <2>3, <2>4
  <2>6. cache[p].generation \in 1..made[p]
    <3>1. cache[p] # Catalog!NoCache
      BY <2>3 DEF Catalog!Ready, Catalog!NoCache
    <3>2. cache[p].generation \in Nat /\ made[p] \in Nat
      BY <2>2 DEF CatalogInv, CatalogTypeInv, Index
    <3> QED BY <2>2, <3>1, <3>2 DEF CatalogInv, GenerationInv
  <2>7. GenerationInv'
    <3>1. Held' \subseteq Held \cup {Catalog!Account(p)}
      BY <2>1, <2>3, <2>5 DEF Held, Catalog!Idle
    <3>2. \A h \in Held \cup {Catalog!Account(p)} :
            /\ h.generation \in 1..made[h.provider]
            /\ h.generation = cache[h.provider].generation => h.since = version[h.provider]
      BY <2>4, <2>6 DEF CatalogInv, GenerationInv
    <3> QED BY <1>1, <2>3, <3>1, <3>2 DEF CatalogInv, GenerationInv
  <2>8. CatalogTypeInv'
    BY <1>1, <2>3, <2>5, Zenon DEF CatalogInv, CatalogTypeInv
  <2> QED BY <1>1, <2>3, <2>7, <2>8 DEF CatalogInv, Catalog!ClientIsStored,
             Catalog!HealthIsCurrent
<1>3. CASE ~Catalog!Collect
  <2>1. /\ search' \in {Catalog!Idle} \cup Search
        /\ handles' \subseteq Listing /\ Held' \subseteq Held
    <3>1. CASE Catalog!BeginSearch
      <4>1. search = Catalog!Idle /\ handles' = handles
            /\ search' = [at |-> "next", rest |-> Visits, found |-> {}, entry |-> 0]
        BY <3>1 DEF Catalog!BeginSearch
      <4> QED BY <4>1, VisitsAreVaults DEF Held, CatalogInv, CatalogTypeInv
    <3>2. CASE Catalog!SearchRefreshes
      <4>1. search \in Search /\ search.rest # <<>> /\ handles' = handles
        BY <3>2 DEF Catalog!SearchRefreshes, Catalog!Idle, CatalogInv, CatalogTypeInv
      <4> DEFINE p == Head(search.rest)
      <4>2. search' = [search EXCEPT !.at = "wait", !.entry = cache'[p].entry]
        BY <3>2 DEF Catalog!SearchRefreshes
      <4>3. cache'[p].entry \in Nat
        <5>1. p \in Vaulted
          BY <4>1
        <5>2. Held' \subseteq Held
          BY <4>1, <4>2 DEF Held, Catalog!Idle
        <5>3. cache' \in [Vaulted -> Index]
          BY <1>1, <4>1, <5>2, StartJobStep DEF CatalogInv, CatalogTypeInv
        <5> QED BY <5>1, <5>3 DEF Index
      <4> HIDE DEF p
      <4>4. search' \in Search /\ search'.found = search.found
        BY <4>1, <4>2, <4>3
      <4>5. Held' \subseteq Held
        BY <4>1, <4>4 DEF Held, Catalog!Idle
      <4> QED BY <4>1, <4>4, <4>5 DEF CatalogInv, CatalogTypeInv
    <3>3. CASE Catalog!SearchFails \/ Catalog!EndSearch
      <4>1. search \in Search /\ search' = Catalog!Idle
        BY <3>3 DEF Catalog!SearchFails, Catalog!EndSearch, Catalog!Idle, CatalogInv,
                    CatalogTypeInv
      <4>2. handles' \subseteq handles \cup search.found
        BY <3>3 DEF Catalog!SearchFails, Catalog!EndSearch
      <4>3. search # Catalog!Idle
        BY <3>3 DEF Catalog!SearchFails, Catalog!EndSearch, Catalog!Idle
      <4> QED BY <4>1, <4>2, <4>3 DEF Held, CatalogInv, CatalogTypeInv
    <3> QED BY <1>3, <3>1, <3>2, <3>3
  <2>2. /\ cache' \in [Vaulted -> Index] /\ made' \in [Vaulted -> Nat]
        /\ client' \in [Vaulted -> Nat] /\ DOMAIN health' = Vaulted
        /\ GenerationInv' /\ Catalog!ClientIsStored' /\ Catalog!HealthIsCurrent'
    <3>1. CASE UNCHANGED <<cache, client, made, health>>
      BY <1>1, <2>1, <3>1 DEF CatalogInv, CatalogTypeInv, GenerationInv,
           Catalog!ClientIsStored, Catalog!HealthIsCurrent
    <3>2. CASE \E p \in Vaulted : Catalog!StartJob(p)
      BY <1>1, <2>1, <3>2, StartJobStep
    <3> QED BY <1>1, <3>1, <3>2
  <2>3. CatalogTypeInv'
    BY <1>1, <2>1, <2>2, Zenon DEF CatalogInv, CatalogTypeInv
  <2> QED BY <2>2, <2>3 DEF CatalogInv
<1> QED BY <1>2, <1>3

\* A resolution only asks for what there is: accounts and generations stay.
LEMMA ResolutionStep ==
    ASSUME CatalogInv,
           \/ \E h \in handles : Catalog!BeginResolution(h)
           \/ Catalog!Refreshed \/ Catalog!AskClient \/ Catalog!Got \/ Catalog!GetFails
           \/ Catalog!Returned
    PROVE  CatalogInv'
<1> DEFINE Resolution == [at : {"wait", "client", "get", "returned"}, handle : Listing,
                          entry : Nat, conn : Nat]
<1>1. /\ UNCHANGED <<secret, changing, content, version, handles, search, use>>
      /\ Held' = Held
  BY DEF Catalog!BeginResolution, Catalog!Refreshed, Catalog!AskClient, Catalog!Got,
         Catalog!GetFails, Catalog!Returned, Held
<1>2. /\ cache' \in [Vaulted -> Index] /\ made' \in [Vaulted -> Nat]
      /\ client' \in [Vaulted -> Nat] /\ DOMAIN health' = Vaulted
      /\ GenerationInv' /\ Catalog!ClientIsStored' /\ Catalog!HealthIsCurrent'
  <2>1. CASE UNCHANGED <<cache, client, made, health>>
    BY <1>1, <2>1 DEF CatalogInv, CatalogTypeInv, GenerationInv, Catalog!ClientIsStored,
         Catalog!HealthIsCurrent
  <2>2. CASE \E p \in Vaulted : Catalog!StartJob(p)
    BY <1>1, <2>2, StartJobStep
  <2>3. CASE Catalog!AskClient
    <3>1. resolution \in Resolution
      BY <2>3 DEF Catalog!AskClient, Catalog!Idle, CatalogInv, CatalogTypeInv
    <3>2. PICK p \in Vaulted : Catalog!Keep(p, Catalog!Client(p))
      BY <2>3, <3>1 DEF Catalog!AskClient, Listing
    <3>3. client' \in [Vaulted -> Nat] /\ Catalog!ClientIsStored'
      BY <1>1, <3>2, KeepStep
    <3> QED BY <1>1, <2>3, <3>3 DEF Catalog!AskClient, CatalogInv, CatalogTypeInv,
               GenerationInv, Catalog!HealthIsCurrent
  <2> QED
    <3>1. ASSUME NEW h \in handles, Catalog!BeginResolution(h)
          PROVE  \/ UNCHANGED <<cache, client, made, health>>
                 \/ \E p \in Vaulted : Catalog!StartJob(p)
      <4>1. h.provider \in Vaulted
        BY DEF CatalogInv, CatalogTypeInv, Listing
      <4> QED BY <3>1, <4>1 DEF Catalog!BeginResolution
    <3> QED BY <2>1, <2>2, <2>3, <3>1 DEF Catalog!Refreshed, Catalog!Got, Catalog!GetFails,
               Catalog!Returned
<1>3. resolution' \in {Catalog!Idle} \cup Resolution
  <2>1. ASSUME NEW h \in handles, Catalog!BeginResolution(h)
        PROVE  resolution' \in Resolution
    <3>1. h \in Listing /\ h.provider \in Vaulted
      BY DEF CatalogInv, CatalogTypeInv, Listing
    <3>2. cache'[h.provider].entry \in Nat
      BY <1>2, <3>1 DEF Index
    <3> QED BY <2>1, <3>1, <3>2 DEF Catalog!BeginResolution
  <2>2. CASE Catalog!Refreshed
    <3>1. resolution \in Resolution
      BY <2>2 DEF Catalog!Refreshed, Catalog!Idle, CatalogInv, CatalogTypeInv
    <3>2. resolution' \in {[resolution EXCEPT !.at = "client"], Catalog!Idle}
      BY <2>2 DEF Catalog!Refreshed
    <3> QED BY <3>1, <3>2
  <2>3. CASE Catalog!AskClient
    <3>1. resolution \in Resolution
      BY <2>3 DEF Catalog!AskClient, Catalog!Idle, CatalogInv, CatalogTypeInv
    <3> DEFINE c == Catalog!Client(resolution.handle.provider)
    <3>2. c \in Nat
      BY <3>1 DEF Catalog!Client, Listing, CatalogInv, CatalogTypeInv
    <3>3. resolution' = IF c = 0 THEN Catalog!Idle
                        ELSE [resolution EXCEPT !.at = "get", !.conn = c]
      BY <2>3 DEF Catalog!AskClient
    <3> HIDE DEF c
    <3> QED BY <3>1, <3>2, <3>3
  <2>4. CASE Catalog!Got \/ Catalog!GetFails \/ Catalog!Returned
    <3>1. resolution \in Resolution
      BY <2>4 DEF Catalog!Got, Catalog!GetFails, Catalog!Returned, Catalog!Idle, CatalogInv,
           CatalogTypeInv
    <3>2. resolution' \in {[resolution EXCEPT !.at = "returned"], Catalog!Idle}
      BY <2>4 DEF Catalog!Got, Catalog!GetFails, Catalog!Returned
    <3> QED BY <3>1, <3>2
  <2> QED BY <2>1, <2>2, <2>3, <2>4
<1>4. CatalogTypeInv'
  BY <1>1, <1>2, <1>3, Zenon DEF CatalogInv, CatalogTypeInv
<1> QED BY <1>2, <1>4 DEF CatalogInv

\* A use of factors that fails says something of the connection it began with, or nothing.
LEMMA UseStep ==
    ASSUME CatalogInv,
           \/ \E p \in Vaulted : Catalog!BeginUse(p)
           \/ Catalog!UseFails \/ Catalog!UseEnds
    PROVE  CatalogInv'
<1> DEFINE Use == [at : {"using"}, provider : Vaulted, version : Nat]
<1>1. /\ UNCHANGED <<secret, changing, content, version, cache, handles, search, resolution,
                     made>>
      /\ Held' = Held
  BY DEF Catalog!BeginUse, Catalog!UseFails, Catalog!UseEnds, Held
<1>2. /\ use' \in {Catalog!Idle} \cup Use
      /\ client' \in [Vaulted -> Nat] /\ Catalog!ClientIsStored'
      /\ DOMAIN health' = Vaulted /\ Catalog!HealthIsCurrent'
  <2>1. CASE \E p \in Vaulted : Catalog!BeginUse(p)
    <3>1. PICK p \in Vaulted : Catalog!BeginUse(p)
      BY <2>1
    <3>2. client' \in [Vaulted -> Nat] /\ Catalog!ClientIsStored'
      BY <1>1, <3>1, KeepStep DEF Catalog!BeginUse
    <3> QED BY <1>1, <3>1, <3>2 DEF Catalog!BeginUse, CatalogInv, CatalogTypeInv,
               Catalog!HealthIsCurrent
  <2>2. CASE Catalog!UseFails /\ Catalog!Concerned
    <3>1. use \in Use /\ version[use.provider] = use.version
      BY <2>2 DEF Catalog!UseFails, Catalog!Concerned, CatalogInv, CatalogTypeInv
    <3>2. Catalog!Keep(use.provider, 0)
      BY <2>2 DEF Catalog!UseFails
    <3>3. client' \in [Vaulted -> Nat] /\ Catalog!ClientIsStored'
      BY <1>1, <3>1, <3>2, KeepStep
    <3>4. health' = [health EXCEPT ![use.provider] = version[use.provider]]
      BY <2>2, <3>1 DEF Catalog!UseFails
    <3>5. DOMAIN health' = Vaulted /\ Catalog!HealthIsCurrent'
      BY <1>1, <3>1, <3>4 DEF CatalogInv, CatalogTypeInv, Catalog!HealthIsCurrent, Vaulted
    <3> QED BY <2>2, <3>3, <3>5 DEF Catalog!UseFails
  <2>3. CASE Catalog!UseEnds \/ (Catalog!UseFails /\ ~Catalog!Concerned)
    <3>1. use' = Catalog!Idle /\ client' = client /\ health' = health
      BY <2>3 DEF Catalog!UseEnds, Catalog!UseFails
    <3> QED BY <1>1, <3>1 DEF CatalogInv, CatalogTypeInv, Catalog!ClientIsStored,
               Catalog!HealthIsCurrent
  <2> QED BY <2>1, <2>2, <2>3
<1>3. CatalogTypeInv' /\ GenerationInv'
  BY <1>1, <1>2, Zenon DEF CatalogInv, CatalogTypeInv, GenerationInv
<1> QED BY <1>2, <1>3 DEF CatalogInv

\* Every step keeps the invariant.
LEMMA CatalogStep == CatalogInv /\ [Catalog!Next]_(Catalog!vars) => CatalogInv'
<1> SUFFICES ASSUME CatalogInv, [Catalog!Next]_(Catalog!vars)
             PROVE  CatalogInv'
  OBVIOUS
<1>1. CASE UNCHANGED Catalog!vars
  BY <1>1 DEF Catalog!vars, CatalogInv, CatalogTypeInv, GenerationInv, Held,
       Catalog!ClientIsStored, Catalog!HealthIsCurrent
<1>2. CASE Catalog!Next
  BY <1>2, StoreTokensStep, ResetsStep, TimeStep, JobEndsStep, SearchStep, ResolutionStep,
     UseStep DEF Catalog!Next, Vaulted
<1> QED BY <1>1, <1>2

\* A handle that is still valid is of the connection as it is.
LEMMA ValidIsCurrent ==
    ASSUME CatalogInv, NEW h, Catalog!Valid(h)
    PROVE  h.since = version[h.provider]
BY DEF CatalogInv, GenerationInv, Held, Catalog!Valid

\* An account is returned after its handle was found valid.
LEMMA ReturnedStep ==
    ASSUME CatalogInv, Catalog!Next, resolution.at = "get", resolution'.at = "returned"
    PROVE  resolution.handle.since = version[resolution.handle.provider]
<1>1. resolution # Catalog!Idle /\ resolution'.at # "idle" /\ resolution' # resolution
  BY DEF Catalog!Idle
<1>2. Catalog!Got
  <2>1. ~(Catalog!Refreshed \/ Catalog!AskClient \/ Catalog!GetFails \/ Catalog!Returned)
    BY <1>1 DEF Catalog!Refreshed, Catalog!AskClient, Catalog!GetFails, Catalog!Returned,
         Catalog!Idle
  <2>2. ~\E h \in handles : Catalog!BeginResolution(h)
    BY <1>1 DEF Catalog!BeginResolution
  <2> QED BY <1>1, <2>1, <2>2 DEF Catalog!Next, Catalog!Store, Catalog!Activate,
             Catalog!Forget, Catalog!VaultChanges, Catalog!Age, Catalog!Listed,
             Catalog!JobFails, Catalog!BeginUse, Catalog!BeginSearch, Catalog!Collect,
             Catalog!SearchRefreshes, Catalog!SearchFails, Catalog!EndSearch,
             Catalog!UseFails, Catalog!UseEnds
<1>3. Catalog!Valid(resolution.handle)
  BY <1>1, <1>2 DEF Catalog!Got, Catalog!Idle
<1> QED BY <1>3, ValidIsCurrent

\* An account is resolved over the connection it was listed by, with the client of the token
\* that is stored, and what is reported of a connection is about this one, however refreshes,
\* searches, resolutions and uses overlap changes of the connections
\* (auth/onepassword-catalog.js, auth/onepassword.js).
THEOREM CatalogStaysCurrent == MCSpec => CatalogIsCurrent
<1>1. MCInit => CatalogInv
  BY CatalogInit DEF MCInit
<1>2. [MCNext]_<<part, vars, catalogVars, storeVars, handoffVars, waitVars>>
        => [Catalog!Next]_(Catalog!vars)
  <2>1. catalogVars' = catalogVars <=> Catalog!vars' = Catalog!vars
    BY DEF catalogVars, Catalog!vars
  <2> QED BY <2>1 DEF MCNext
<1>3. CatalogInv /\ [MCNext]_<<part, vars, catalogVars, storeVars, handoffVars, waitVars>>
        => CatalogInv'
  BY <1>2, CatalogStep
<1>4. CatalogInv /\ [MCNext]_<<part, vars, catalogVars, storeVars, handoffVars, waitVars>>
        => [resolution.at = "get" /\ resolution'.at = "returned" =>
              resolution.handle.since = version[resolution.handle.provider]]_(Catalog!vars)
  BY <1>2, ReturnedStep
<1>5. CatalogInv => Catalog!ClientIsStored /\ Catalog!HealthIsCurrent
  BY DEF CatalogInv
<1> QED BY <1>1, <1>3, <1>4, <1>5, PTL DEF MCSpec, CatalogIsCurrent, Catalog!ResolvedAsListed
=============================================================================
