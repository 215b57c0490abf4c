------------------------- MODULE ReceiverSyncProofs -------------------------
(***************************************************************************)
(* Proofs about ReceiverSync, for any cookies, counters, clocks, relays and *)
(* Chrome processes.                                                       *)
(*                                                                         *)
(* What makes the properties inductive is which snapshot a run carries:    *)
(* from the moment it connects, it is the one published under the consumed *)
(* counter, it is in the recovery file, and the run is either after a      *)
(* counter that was not accepted or in a Chrome process that was not seen. *)
(*                                                                         *)
(* The last section proves that a source and a relay (CookieSync) are such *)
(* surroundings as ReceiverSync assumes, so that its theorems hold there.  *)
(***************************************************************************)
EXTENDS ReceiverSync, TLAPS

\* One snapshot per counter, as SourcePublish promises and the relay keeps.
WorldInv ==
    /\ \A a, b \in published : a.counter = b.counter => a = b
    /\ \A b \in published : b.counter > 0
    /\ relay \subseteq published

\* The files and the vault.
DiskInv ==
    /\ accepted <= chan
    /\ applied <= chan
    /\ recovery # None => recovery \in published /\ recovery.counter >= chan
    /\ chan > 0 => recovery # None
    /\ seenBrowser <= browser

Carrying == pc \in {"journal", "set", "delete", "accept"}

\* What a run may rely on.
RunInv ==
    /\ pc = "fetch" => latest >= chan /\ latest > accepted
    /\ pc = "commit" => /\ snap # None /\ snap \in published
                        /\ snap.counter = latest /\ latest > chan
                        /\ recovery = snap
    /\ pc = "connect" /\ snap = None => latest = accepted /\ latest = chan
    /\ pc \in {"idle", "list", "fetch"} => snap = None
    /\ (pc = "connect" /\ snap # None) \/ Carrying =>
         /\ snap # None
         /\ snap \in published
         /\ snap.counter = latest
         /\ latest = chan
    /\ Carrying => /\ client <= browser
                   /\ accepted = chan => seenBrowser < client

\* What the journal on disk covers while a run goes on.
JournalInv ==
    /\ pc \in {"list", "fetch", "commit", "connect", "journal"} =>
         previous = journal
    /\ pc = "set" => journal = previous \cup Identities(snap.cookies)
    /\ pc \in {"delete", "accept"} =>
         /\ Identities(snap.cookies) \subseteq journal
         /\ previous \cap Identities(snap.cookies) = {}
         /\ imported \subseteq previous \cup Identities(snap.cookies)
    /\ pc = "accept" => previous = {}

\* What the jar of Chrome holds of an accepted snapshot, and of one that a run
\* has just written into the process it is connected to.
Holds(b) == \A c \in Identities(b.cookies) \ drift : jar[c] = b.cookies[c]

JarInv ==
    /\ chan = accepted /\ seenBrowser = browser =>
         \A b \in published : b.counter = accepted => Holds(b)
    /\ pc \in {"delete", "accept"} /\ client = browser => Holds(snap)

IInv ==
    /\ TypeOK
    /\ WorldInv
    /\ DiskInv
    /\ RunInv
    /\ JournalInv
    /\ JarInv
    /\ JournalCovers
    /\ LogoutReachesReceiver

-----------------------------------------------------------------------------

\* The operators on jars return jars.
LEMMA EmptyJarType == EmptyJar \in Jar
BY DEF EmptyJar, Jar

LEMMA SetCookiesType ==
    ASSUME NEW j \in Jar, NEW s \in Jar, NEW ids
    PROVE  SetCookies(j, s, ids) \in Jar
BY DEF SetCookies, Jar

LEMMA DeleteCookieType ==
    ASSUME NEW j \in Jar, NEW c \in Cookies
    PROVE  DeleteCookie(j, c) \in Jar
BY DEF DeleteCookie, Jar

LEMMA AfterRestartType ==
    ASSUME NEW j \in Jar PROVE AfterRestart(j) \in Jar
BY DEF AfterRestart, Jar

\* What the relay lists is a set of counters.
LEMMA CandidatesType == TypeOK => Candidates \subseteq Nat
BY DEF TypeOK, Candidates, Listed, Blob

LEMMA InitInv == Init => IInv
<1> USE CookieAssumption DEF Init
<1>1. Init => TypeOK
  <2> SUFFICES ASSUME Init PROVE TypeOK
    OBVIOUS
  <2>1. jar \in Jar
    BY EmptyJarType
  <2>2. published \in SUBSET Blob /\ relay \in SUBSET Blob
    OBVIOUS
  <2>3. /\ journal \in SUBSET Cookies
        /\ previous \in SUBSET Cookies
        /\ imported \in SUBSET Cookies
        /\ drift \in SUBSET Cookies
    OBVIOUS
  <2>4. recovery \in Blob \cup {None} /\ snap \in Blob \cup {None}
    OBVIOUS
  <2> QED
    BY <2>1, <2>2, <2>3, <2>4 DEF TypeOK, PcValues
<1>2. Init => WorldInv /\ DiskInv /\ RunInv /\ JournalInv /\ JarInv
  BY DEF WorldInv, DiskInv, RunInv, Carrying, JournalInv, JarInv, Holds
<1>3. Init => JournalCovers /\ LogoutReachesReceiver
  BY DEF JournalCovers, LogoutReachesReceiver
<1> QED
  BY <1>1, <1>2, <1>3 DEF IInv

\* A run that ends without a further write keeps the invariant.
LEMMA ReturnInv == IInv /\ Return => IInv'
<1> SUFFICES ASSUME IInv, Return PROVE IInv'
  OBVIOUS
<1> USE DEF IInv, Return, EmptyLocals, world, disk, history
<1>1. TypeOK'
  BY DEF TypeOK, PcValues, Jar
<1>2. WorldInv' /\ DiskInv' /\ RunInv'
  BY DEF WorldInv, DiskInv, RunInv, Carrying
<1>3. JournalInv' /\ JarInv' /\ JournalCovers' /\ LogoutReachesReceiver'
  BY DEF JournalInv, JarInv, Holds, JournalCovers, LogoutReachesReceiver, DiskInv, RunInv, Carrying
<1> QED
  BY <1>1, <1>2, <1>3

LEMMA StartInv == IInv /\ Start => IInv'
<1> SUFFICES ASSUME IInv, Start PROVE IInv'
  OBVIOUS
<1> USE NoneAssumption DEF IInv, Start, world, disk, locals, history, EmptyLocals
<1>1. TypeOK'
  BY DEF TypeOK, PcValues, Jar, Blob
<1>2. WorldInv' /\ DiskInv'
  BY DEF TypeOK, WorldInv, DiskInv, RunInv, Carrying
<1>3. RunInv'
  BY DEF TypeOK, WorldInv, DiskInv, RunInv, Carrying
<1>4. JournalInv' /\ JournalCovers'
  BY DEF TypeOK, RunInv, Carrying, JournalInv, JournalCovers
<1>5. LogoutReachesReceiver'
  BY DEF TypeOK, WorldInv, DiskInv, RunInv, Carrying, JournalInv, LogoutReachesReceiver
<1>6. JarInv'
  BY DEF TypeOK, WorldInv, DiskInv, RunInv, Carrying, JarInv, Holds
<1> QED
  BY <1>1, <1>2, <1>3, <1>4, <1>5, <1>6

LEMMA ListInv == IInv /\ List => IInv'
<1> SUFFICES ASSUME IInv, List PROVE IInv'
  OBVIOUS
<1> USE NoneAssumption DEF IInv, List, world, disk, locals, history, EmptyLocals
<1>1. TypeOK'
  BY CandidatesType DEF TypeOK, PcValues, Jar, Blob
<1>2. WorldInv' /\ DiskInv'
  BY DEF TypeOK, WorldInv, DiskInv, RunInv, Carrying
<1>3. RunInv'
  BY CandidatesType DEF Candidates, Listed, Blob, TypeOK, WorldInv, DiskInv, RunInv, Carrying
<1>4. JournalInv' /\ JournalCovers'
  BY DEF TypeOK, RunInv, Carrying, JournalInv, JournalCovers
<1>5. LogoutReachesReceiver'
  BY DEF TypeOK, WorldInv, DiskInv, RunInv, Carrying, JournalInv, LogoutReachesReceiver
<1>6. JarInv'
  BY DEF TypeOK, WorldInv, DiskInv, RunInv, Carrying, JarInv, Holds
<1> QED
  BY <1>1, <1>2, <1>3, <1>4, <1>5, <1>6

LEMMA ListFailedInv == IInv /\ ListFailed => IInv'
<1> SUFFICES ASSUME IInv, ListFailed PROVE IInv'
  OBVIOUS
<1> USE NoneAssumption DEF IInv, ListFailed, world, disk, locals, history, EmptyLocals
<1>1. TypeOK'
  BY DEF TypeOK, PcValues, Jar, Blob
<1>2. WorldInv' /\ DiskInv'
  BY DEF TypeOK, WorldInv, DiskInv, RunInv, Carrying
<1>3. RunInv'
  BY DEF Usable, TypeOK, WorldInv, DiskInv, RunInv, Carrying
<1>4. JournalInv' /\ JournalCovers'
  BY DEF Usable, TypeOK, RunInv, Carrying, JournalInv, JournalCovers
<1>5. LogoutReachesReceiver'
  BY DEF TypeOK, WorldInv, DiskInv, RunInv, Carrying, JournalInv, LogoutReachesReceiver
<1>6. JarInv'
  BY DEF Usable, TypeOK, WorldInv, DiskInv, RunInv, Carrying, JarInv, Holds
<1> QED
  BY <1>1, <1>2, <1>3, <1>4, <1>5, <1>6

LEMMA FetchRecoveryInv == IInv /\ FetchRecovery => IInv'
<1> SUFFICES ASSUME IInv, FetchRecovery PROVE IInv'
  OBVIOUS
<1> USE NoneAssumption DEF IInv, FetchRecovery, world, disk, locals, history, EmptyLocals
<1>1. TypeOK'
  BY DEF TypeOK, PcValues, Jar, Blob
<1>2. WorldInv' /\ DiskInv'
  BY DEF TypeOK, WorldInv, DiskInv, RunInv, Carrying
<1>3. RunInv'
  BY DEF Usable, TypeOK, WorldInv, DiskInv, RunInv, Carrying
<1>4. JournalInv' /\ JournalCovers'
  BY DEF Usable, TypeOK, RunInv, Carrying, JournalInv, JournalCovers
<1>5. LogoutReachesReceiver'
  BY DEF TypeOK, WorldInv, DiskInv, RunInv, Carrying, JournalInv, LogoutReachesReceiver
<1>6. JarInv'
  BY DEF Usable, TypeOK, WorldInv, DiskInv, RunInv, Carrying, JarInv, Holds
<1> QED
  BY <1>1, <1>2, <1>3, <1>4, <1>5, <1>6

LEMMA FetchRelayInv == IInv /\ FetchRelay => IInv'
<1> SUFFICES ASSUME IInv, FetchRelay PROVE IInv'
  OBVIOUS
<1> USE NoneAssumption DEF IInv, FetchRelay, world, disk, locals, history, EmptyLocals
<1>1. TypeOK'
  BY DEF TypeOK, PcValues, Jar, Blob
<1>2. WorldInv' /\ DiskInv'
  BY DEF TypeOK, WorldInv, DiskInv, RunInv, Carrying
<1>3. RunInv'
  BY DEF TypeOK, WorldInv, DiskInv, RunInv, Carrying
<1>4. JournalInv' /\ JournalCovers'
  BY DEF TypeOK, RunInv, Carrying, JournalInv, JournalCovers
<1>5. LogoutReachesReceiver'
  BY DEF TypeOK, WorldInv, DiskInv, RunInv, Carrying, JournalInv, LogoutReachesReceiver
<1>6. JarInv'
  BY DEF TypeOK, WorldInv, DiskInv, RunInv, Carrying, JarInv, Holds
<1> QED
  BY <1>1, <1>2, <1>3, <1>4, <1>5, <1>6

LEMMA CommitInv == IInv /\ Commit => IInv'
<1> SUFFICES ASSUME IInv, Commit PROVE IInv'
  OBVIOUS
<1> USE NoneAssumption DEF IInv, Commit, world, disk, locals, history, EmptyLocals
<1>1. TypeOK'
  BY DEF TypeOK, PcValues, Jar, Blob
<1>2. WorldInv' /\ DiskInv'
  BY DEF TypeOK, WorldInv, DiskInv, RunInv, Carrying
<1>3. RunInv'
  BY DEF TypeOK, WorldInv, DiskInv, RunInv, Carrying
<1>4. JournalInv' /\ JournalCovers'
  BY DEF TypeOK, RunInv, Carrying, JournalInv, JournalCovers
<1>5. LogoutReachesReceiver'
  BY DEF TypeOK, WorldInv, DiskInv, RunInv, Carrying, JournalInv, LogoutReachesReceiver
<1>6. JarInv'
  BY DEF TypeOK, WorldInv, DiskInv, RunInv, Carrying, JarInv, Holds
<1> QED
  BY <1>1, <1>2, <1>3, <1>4, <1>5, <1>6

LEMMA ConnectInv == IInv /\ Connect => IInv'
<1> SUFFICES ASSUME IInv, Connect PROVE IInv'
  OBVIOUS
<1> USE NoneAssumption DEF IInv, Connect, world, disk, locals, history, EmptyLocals
<1>1. TypeOK'
  BY DEF TypeOK, PcValues, Jar, Blob
<1>2. WorldInv' /\ DiskInv'
  BY DEF TypeOK, WorldInv, DiskInv, RunInv, Carrying
<1>3. RunInv'
  BY DEF UpToDate, Usable, TypeOK, WorldInv, DiskInv, RunInv, Carrying
<1>4. JournalInv' /\ JournalCovers'
  BY DEF UpToDate, Usable, TypeOK, RunInv, Carrying, JournalInv, JournalCovers
<1>5. LogoutReachesReceiver'
  BY DEF TypeOK, WorldInv, DiskInv, RunInv, Carrying, JournalInv, LogoutReachesReceiver
<1>6. JarInv'
  BY DEF UpToDate, Usable, TypeOK, WorldInv, DiskInv, RunInv, Carrying, JarInv, Holds
<1> QED
  BY <1>1, <1>2, <1>3, <1>4, <1>5, <1>6

LEMMA JournalStepInv == IInv /\ Journal => IInv'
<1> SUFFICES ASSUME IInv, Journal PROVE IInv'
  OBVIOUS
<1> USE NoneAssumption DEF IInv, Journal, world, disk, locals, history, EmptyLocals
<1>1. TypeOK'
  BY DEF TypeOK, PcValues, Identities
<1>2. WorldInv' /\ DiskInv'
  BY DEF TypeOK, WorldInv, DiskInv, RunInv, Carrying
<1>3. RunInv'
  BY DEF TypeOK, WorldInv, DiskInv, RunInv, Carrying
<1>4. JournalInv' /\ JournalCovers'
  BY DEF TypeOK, RunInv, Carrying, JournalInv, JournalCovers
<1>5. LogoutReachesReceiver'
  BY DEF TypeOK, WorldInv, DiskInv, RunInv, Carrying, JournalInv, LogoutReachesReceiver
<1>6. JarInv'
  BY DEF TypeOK, WorldInv, DiskInv, RunInv, Carrying, JarInv, Holds
<1> QED
  BY <1>1, <1>2, <1>3, <1>4, <1>5, <1>6

LEMMA SetAllInv == IInv /\ SetAll => IInv'
<1> SUFFICES ASSUME IInv, SetAll PROVE IInv'
  OBVIOUS
<1> USE NoneAssumption DEF WriteCookies, IInv, SetAll, world, disk, locals, history, EmptyLocals
<1>1. TypeOK'
  BY SetCookiesType DEF TypeOK, PcValues, Blob, Identities, RunInv, Carrying
<1>2. WorldInv' /\ DiskInv'
  BY DEF Identities, TypeOK, WorldInv, DiskInv, RunInv, Carrying
<1>3. RunInv'
  BY DEF Identities, TypeOK, WorldInv, DiskInv, RunInv, Carrying
<1>4. JournalInv' /\ JournalCovers'
  BY DEF Identities, TypeOK, RunInv, Carrying, JournalInv, JournalCovers
<1>5. LogoutReachesReceiver'
  BY DEF Identities, TypeOK, WorldInv, DiskInv, RunInv, Carrying, JournalInv, LogoutReachesReceiver
<1>6. JarInv'
  BY DEF Identities, TypeOK, WorldInv, DiskInv, RunInv, Carrying, JarInv, SetCookies, Jar, Blob, Holds
<1> QED
  BY <1>1, <1>2, <1>3, <1>4, <1>5, <1>6

LEMMA SetPartlyInv == IInv /\ SetPartly => IInv'
<1> SUFFICES ASSUME IInv, SetPartly PROVE IInv'
  OBVIOUS
<1> USE NoneAssumption DEF WriteCookies, IInv, SetPartly, world, disk, locals, history, EmptyLocals
<1>1. TypeOK'
  <2>1. PICK ids \in SUBSET Identities(snap.cookies) : WriteCookies(ids)
    BY DEF SetPartly
  <2>2. snap \in Blob /\ ids \subseteq Cookies
    BY DEF TypeOK, RunInv, Carrying, Identities
  <2>3. jar' \in Jar
    BY <2>1, <2>2, SetCookiesType DEF TypeOK, Blob
  <2>4. /\ imported' \in SUBSET Cookies
        /\ drift' \in SUBSET Cookies
        /\ applied' \in Nat
    BY <2>1, <2>2 DEF TypeOK, Blob
  <2> QED
    BY <2>1, <2>3, <2>4 DEF TypeOK, PcValues
<1>2. WorldInv' /\ DiskInv'
  BY DEF Identities, TypeOK, WorldInv, DiskInv, RunInv, Carrying
<1>3. RunInv'
  BY DEF Identities, TypeOK, WorldInv, DiskInv, RunInv, Carrying
<1>4. JournalInv' /\ JournalCovers'
  BY DEF Identities, TypeOK, RunInv, Carrying, JournalInv, JournalCovers
<1>5. LogoutReachesReceiver'
  BY DEF Identities, TypeOK, WorldInv, DiskInv, RunInv, Carrying, JournalInv, LogoutReachesReceiver
<1>6. JarInv'
  BY DEF Identities, TypeOK, WorldInv, DiskInv, RunInv, Carrying, JarInv, SetCookies, Jar, Blob, Holds
<1> QED
  BY <1>1, <1>2, <1>3, <1>4, <1>5, <1>6

LEMMA SaveRecoveryInv == IInv /\ SaveRecovery => IInv'
<1> SUFFICES ASSUME IInv, SaveRecovery PROVE IInv'
  OBVIOUS
<1> USE NoneAssumption DEF IInv, SaveRecovery, world, disk, locals, history, EmptyLocals
<1>1. TypeOK'
  BY DEF TypeOK, PcValues, Jar, Blob
<1>2. WorldInv' /\ DiskInv'
  BY DEF TypeOK, WorldInv, DiskInv, RunInv, Carrying
<1>3. RunInv'
  BY DEF TypeOK, WorldInv, DiskInv, RunInv, Carrying
<1>4. JournalInv' /\ JournalCovers'
  BY DEF TypeOK, RunInv, Carrying, JournalInv, JournalCovers
<1>5. LogoutReachesReceiver'
  BY DEF TypeOK, WorldInv, DiskInv, RunInv, Carrying, JournalInv, LogoutReachesReceiver
<1>6. JarInv'
  BY DEF TypeOK, WorldInv, DiskInv, RunInv, Carrying, JarInv, Holds
<1> QED
  BY <1>1, <1>2, <1>3, <1>4, <1>5, <1>6

LEMMA AcceptInv == IInv /\ Accept => IInv'
<1> SUFFICES ASSUME IInv, Accept PROVE IInv'
  OBVIOUS
<1> USE NoneAssumption DEF IInv, Accept, world, disk, locals, history, EmptyLocals
<1>1. TypeOK'
  BY DEF TypeOK, PcValues, Blob, Identities, RunInv, Carrying
<1>2. WorldInv' /\ DiskInv'
  BY DEF TypeOK, WorldInv, DiskInv, RunInv, Carrying
<1>3. RunInv'
  BY DEF TypeOK, WorldInv, DiskInv, RunInv, Carrying
<1>4. JournalInv' /\ JournalCovers'
  BY DEF TypeOK, RunInv, Carrying, JournalInv, JournalCovers
<1>5. LogoutReachesReceiver'
  BY DEF TypeOK, WorldInv, DiskInv, RunInv, Carrying, JournalInv, LogoutReachesReceiver
<1>6. JarInv'
  BY DEF TypeOK, WorldInv, DiskInv, RunInv, Carrying, JarInv, Holds
<1> QED
  BY <1>1, <1>2, <1>3, <1>4, <1>5, <1>6

LEMMA TickInv == IInv /\ Tick => IInv'
<1> SUFFICES ASSUME IInv, Tick PROVE IInv'
  OBVIOUS
<1> USE NoneAssumption DEF IInv, Tick, world, disk, locals, history, EmptyLocals
<1>1. TypeOK'
  BY DEF TypeOK, PcValues, Jar, Blob
<1>2. WorldInv' /\ DiskInv'
  BY DEF TypeOK, WorldInv, DiskInv, RunInv, Carrying
<1>3. RunInv'
  BY DEF TypeOK, WorldInv, DiskInv, RunInv, Carrying
<1>4. JournalInv' /\ JournalCovers'
  BY DEF TypeOK, RunInv, Carrying, JournalInv, JournalCovers
<1>5. LogoutReachesReceiver'
  BY DEF TypeOK, WorldInv, DiskInv, RunInv, Carrying, JournalInv, LogoutReachesReceiver
<1>6. JarInv'
  BY DEF TypeOK, WorldInv, DiskInv, RunInv, Carrying, JarInv, Holds
<1> QED
  BY <1>1, <1>2, <1>3, <1>4, <1>5, <1>6

LEMMA RelayChangesInv == IInv /\ RelayChanges => IInv'
<1> SUFFICES ASSUME IInv, RelayChanges PROVE IInv'
  OBVIOUS
<1> USE NoneAssumption DEF IInv, RelayChanges, world, disk, locals, history, EmptyLocals
<1>1. TypeOK'
  BY DEF TypeOK, PcValues, Jar, Blob
<1>2. WorldInv' /\ DiskInv'
  BY DEF TypeOK, WorldInv, DiskInv, RunInv, Carrying
<1>3. RunInv'
  BY DEF TypeOK, WorldInv, DiskInv, RunInv, Carrying
<1>4. JournalInv' /\ JournalCovers'
  BY DEF TypeOK, RunInv, Carrying, JournalInv, JournalCovers
<1>5. LogoutReachesReceiver'
  BY DEF TypeOK, WorldInv, DiskInv, RunInv, Carrying, JournalInv, LogoutReachesReceiver
<1>6. JarInv'
  BY DEF TypeOK, WorldInv, DiskInv, RunInv, Carrying, JarInv, Holds
<1> QED
  BY <1>1, <1>2, <1>3, <1>4, <1>5, <1>6

LEMMA RestartInv == IInv /\ RestartChrome => IInv'
<1> SUFFICES ASSUME IInv, RestartChrome PROVE IInv'
  OBVIOUS
<1> USE NoneAssumption DEF IInv, RestartChrome, world, disk, locals, history, EmptyLocals
<1>1. TypeOK'
  BY AfterRestartType DEF TypeOK, PcValues
<1>2. WorldInv' /\ DiskInv'
  BY DEF TypeOK, WorldInv, DiskInv, RunInv, Carrying
<1>3. RunInv'
  BY DEF TypeOK, WorldInv, DiskInv, RunInv, Carrying
<1>4. JournalInv' /\ JournalCovers'
  BY DEF TypeOK, RunInv, Carrying, JournalInv, JournalCovers
<1>5. LogoutReachesReceiver'
  BY DEF TypeOK, WorldInv, DiskInv, RunInv, Carrying, JournalInv, LogoutReachesReceiver
<1>6. JarInv'
  BY DEF TypeOK, WorldInv, DiskInv, RunInv, Carrying, JarInv, AfterRestart, Holds
<1> QED
  BY <1>1, <1>2, <1>3, <1>4, <1>5, <1>6

LEMMA DeleteInv == ASSUME NEW c \in Cookies, IInv, Delete(c) PROVE IInv'
<1> USE NoneAssumption DEF IInv, Delete, world, disk, locals, history
<1>1. TypeOK'
  BY DeleteCookieType DEF TypeOK, PcValues
<1>2. WorldInv' /\ DiskInv'
  BY DEF TypeOK, WorldInv, DiskInv, RunInv, Carrying
<1>3. RunInv'
  BY DEF TypeOK, WorldInv, DiskInv, RunInv, Carrying
<1>4. JournalInv' /\ JournalCovers'
  BY DEF TypeOK, RunInv, Carrying, JournalInv, JournalCovers
<1>5. LogoutReachesReceiver'
  BY DEF TypeOK, WorldInv, DiskInv, RunInv, Carrying, JournalInv, LogoutReachesReceiver
<1>6. JarInv'
  BY DEF TypeOK, WorldInv, DiskInv, RunInv, Carrying, JournalInv, JarInv, Holds, Identities, DeleteCookie, Jar, Blob
<1> QED
  BY <1>1, <1>2, <1>3, <1>4, <1>5, <1>6

LEMMA PublishInv == ASSUME NEW n \in 1..MaxCounter, NEW s \in Jar, NEW t \in 0..now,
           IInv, Publish(n, s, t) PROVE IInv'
<1> USE NoneAssumption DEF IInv, Publish, world, disk, locals, history
<1>1. TypeOK'
  BY BoundsAssumption DEF TypeOK, PcValues, Blob
<1>2. WorldInv' /\ DiskInv'
  BY DEF TypeOK, WorldInv, DiskInv, RunInv, Carrying, Blob
<1>3. RunInv'
  BY DEF TypeOK, WorldInv, DiskInv, RunInv, Carrying, Blob
<1>4. JournalInv' /\ JournalCovers'
  BY DEF TypeOK, RunInv, Carrying, JournalInv, JournalCovers
<1>5. LogoutReachesReceiver'
  BY DEF TypeOK, WorldInv, DiskInv, RunInv, Carrying, JournalInv, LogoutReachesReceiver, Blob
<1>6. JarInv'
  BY DEF TypeOK, WorldInv, DiskInv, RunInv, Carrying, JournalInv, JarInv, Holds, Identities, Blob
<1> QED
  BY <1>1, <1>2, <1>3, <1>4, <1>5, <1>6

LEMMA SiteSetsInv == ASSUME NEW c \in Cookies, NEW v \in Values, IInv, SiteSets(c, v) PROVE IInv'
<1> USE NoneAssumption DEF IInv, SiteSets, world, disk, locals, history
<1>1. TypeOK'
  BY DEF TypeOK, PcValues, Jar
<1>2. WorldInv' /\ DiskInv'
  BY DEF TypeOK, WorldInv, DiskInv, RunInv, Carrying
<1>3. RunInv'
  BY DEF TypeOK, WorldInv, DiskInv, RunInv, Carrying
<1>4. JournalInv' /\ JournalCovers'
  BY DEF TypeOK, RunInv, Carrying, JournalInv, JournalCovers
<1>5. LogoutReachesReceiver'
  BY DEF TypeOK, WorldInv, DiskInv, RunInv, Carrying, JournalInv, LogoutReachesReceiver
<1>6. JarInv'
  BY DEF TypeOK, WorldInv, DiskInv, RunInv, Carrying, JournalInv, JarInv, Holds, Identities, Jar, Blob
<1> QED
  BY <1>1, <1>2, <1>3, <1>4, <1>5, <1>6

LEMMA SiteDeletesInv == ASSUME NEW c \in Cookies, IInv, SiteDeletes(c) PROVE IInv'
<1> USE NoneAssumption DEF IInv, SiteDeletes, world, disk, locals, history
<1>1. TypeOK'
  BY DeleteCookieType DEF TypeOK, PcValues
<1>2. WorldInv' /\ DiskInv'
  BY DEF TypeOK, WorldInv, DiskInv, RunInv, Carrying
<1>3. RunInv'
  BY DEF TypeOK, WorldInv, DiskInv, RunInv, Carrying
<1>4. JournalInv' /\ JournalCovers'
  BY DEF TypeOK, RunInv, Carrying, JournalInv, JournalCovers
<1>5. LogoutReachesReceiver'
  BY DEF TypeOK, WorldInv, DiskInv, RunInv, Carrying, JournalInv, LogoutReachesReceiver
<1>6. JarInv'
  BY DEF TypeOK, WorldInv, DiskInv, RunInv, Carrying, JournalInv, JarInv, Holds, Identities, DeleteCookie, Jar, Blob
<1> QED
  BY <1>1, <1>2, <1>3, <1>4, <1>5, <1>6

LEMMA StepInv == IInv /\ [Next]_vars => IInv'
<1> SUFFICES ASSUME IInv, [Next]_vars PROVE IInv'
  OBVIOUS
<1>1. CASE RunStep
  BY <1>1, StartInv, ReturnInv, ListInv, FetchRecoveryInv, FetchRelayInv,
     CommitInv, ConnectInv, JournalStepInv, SetAllInv, DeleteInv,
     SaveRecoveryInv, AcceptInv
     DEF RunStep, ListNothing, ConnectUnchanged, Throw
<1>2. CASE Fault
  BY <1>2, ListFailedInv, SetPartlyInv, ReturnInv DEF Fault, Abort
<1>3. CASE Environment
  BY <1>3, TickInv, PublishInv, RelayChangesInv, RestartInv, SiteSetsInv,
     SiteDeletesInv DEF Environment
<1>4. CASE UNCHANGED vars
  BY <1>4 DEF vars, world, disk, locals, history, IInv, TypeOK, WorldInv,
     DiskInv, RunInv, Carrying, JournalInv, JarInv, Holds, JournalCovers,
     LogoutReachesReceiver
<1> QED
  BY <1>1, <1>2, <1>3, <1>4 DEF Next

LEMMA Inductive == Spec => []IInv
<1> QED
  BY InitInv, StepInv, PTL DEF Spec

-----------------------------------------------------------------------------

\* Every variable of a receiver keeps its type.
THEOREM ReceiverTypeCorrect == Spec => []TypeOK
<1>1. IInv => TypeOK
  BY DEF IInv
<1> QED
  BY <1>1, Inductive, PTL

\* Every cookie that a run of applySnapshot put into Chrome and that is still
\* there is in the journal on disk, whatever the run got to.
THEOREM JournalIsComplete == Spec => []JournalCovers
<1>1. IInv => JournalCovers
  BY DEF IInv
<1> QED
  BY <1>1, Inductive, PTL

\* Once the newest consumed snapshot is accepted, no cookie that applySnapshot
\* imported earlier, and the source no longer has, is left in the browser.
THEOREM LogoutArrives == Spec => []LogoutReachesReceiver
<1>1. IInv => LogoutReachesReceiver
  BY DEF IInv
<1> QED
  BY <1>1, Inductive, PTL

\* Once accepted in the Chrome process that runs, the cookies of a snapshot are
\* what the jar holds, but for those that sites changed.
THEOREM AcceptedApplied == Spec => []AcceptedIsApplied
<1>1. IInv => AcceptedIsApplied
  BY DEF IInv, JarInv, Holds, AcceptedIsApplied
<1> QED
  BY <1>1, Inductive, PTL

\* receiveSnapshot never consumes a key without the recovery file holding the
\* snapshot of that key or a newer one.
THEOREM ConsumedRecoverable == Spec => []ConsumedIsRecoverable
<1>1. IInv => ConsumedIsRecoverable
  BY DEF IInv, DiskInv, ConsumedIsRecoverable
<1> QED
  BY <1>1, Inductive, PTL

\* Neither the key chain, nor the accepted counter, nor what is written to the
\* browser ever goes back to an older snapshot.
THEOREM NoRollback == Spec => NeverRollsBack
<1> DEFINE Forward == applied' >= applied /\ chan' >= chan /\ accepted' >= accepted
<1>1. IInv /\ [Next]_vars => [Forward]_vars
  <2> SUFFICES ASSUME IInv, [Next]_vars PROVE [Forward]_vars
    OBVIOUS
  <2> USE DEF IInv, TypeOK, world, disk, locals, history
  <2>1. CASE UNCHANGED vars
    BY <2>1
  <2>2. CASE Environment
    BY <2>2 DEF Environment, Tick, Publish, RelayChanges, RestartChrome,
       SiteSets, SiteDeletes
  <2>3. CASE Return
    BY <2>3 DEF Return
  <2>4. CASE Start \/ List \/ ListFailed \/ FetchRecovery \/ FetchRelay
    BY <2>4 DEF Start, List, ListFailed, FetchRecovery, FetchRelay
  <2>5. CASE Connect \/ Journal \/ SaveRecovery \/ \E c \in Cookies : Delete(c)
    BY <2>5 DEF Connect, Journal, SaveRecovery, Delete
  <2>6. CASE Commit
    BY <2>6 DEF Commit, RunInv
  <2>7. CASE SetAll \/ SetPartly
    BY <2>7 DEF SetAll, SetPartly, WriteCookies, RunInv, Carrying, DiskInv
  <2>8. CASE Accept
    BY <2>8 DEF Accept, RunInv, Carrying, DiskInv
  <2> QED
    BY <2>1, <2>2, <2>3, <2>4, <2>5, <2>6, <2>7, <2>8
    DEF Next, RunStep, Fault, ListNothing, ConnectUnchanged, Throw, Abort
<1> QED
  BY <1>1, Inductive, PTL DEF Spec, NeverRollsBack

-----------------------------------------------------------------------------
(* Behind a real source and the retention of the relay (CookieSync).        *)

CONSTANTS Receiver, RefreshAge, Keep, MaxChanges, MaxFaults

\* The variables of the source and of the composition; the receiver's are those above.
VARIABLES paired, revoked, counter, acked, pending, spc, todo, cur, collected, sat, emitted,
          stored, src, changes, faults

Both == INSTANCE CookieSync WITH rpc <- pc, rat <- at

\* What left the source, and what its pending file holds.
Sent == emitted[Receiver]
Waiting == pending[Receiver]

AtReceiver == spc \in {"channel", "advance", "push", "ack", "clean"}

\* What every variable of the source holds, as far as the receiver can tell.
SourceTypeInv ==
    /\ now \in Nat
    /\ counter \in [{Receiver} -> 0..MaxCounter]
    /\ DOMAIN pending = {Receiver} /\ DOMAIN emitted = {Receiver}
    /\ Waiting # None => Waiting \in Both!Blob
    /\ Sent \subseteq Both!Blob /\ relay \subseteq Sent
    /\ todo \subseteq {Receiver} /\ paired \subseteq {Receiver}
    /\ src \in Both!Jar
    /\ spc # "idle" => collected \in Both!Jar /\ sat \in 0..now

\* The pending snapshot is of the newest counter or, before the chain advanced, of the next;
\* nothing else of its counter was sent, and nothing of a later one.
WaitingInv ==
    /\ Waiting # None =>
         /\ Waiting.counter \in {counter[Receiver], counter[Receiver] + 1}
         /\ Waiting.counter \in 1..MaxCounter /\ Waiting.createdAt \in 0..now
         /\ \A b \in Sent : b.counter = Waiting.counter => b = Waiting
    /\ \A b \in Sent : b.counter <= counter[Receiver]

\* The run is at the one receiver there is, and what it pushes is of the newest counter.
SourceRunInv ==
    /\ AtReceiver => cur = Receiver
    /\ spc = "advance" => Waiting # None /\ Waiting.counter = counter[Receiver] + 1
    /\ spc = "push" => Waiting # None /\ Waiting.counter = counter[Receiver]

\* The invariant of what the receiver is connected to.
BehindInv == SourceTypeInv /\ WaitingInv /\ SourceRunInv

LEMMA BothInit == Both!Init => BehindInv /\ Both!R!Init
<1>1. Both!Init => Both!R!Init
  BY DEF Both!Init
<1>2. Both!Init => BehindInv
  BY BoundsAssumption DEF Both!Init, Both!S!Init, Both!R!Init, BehindInv, SourceTypeInv,
     WaitingInv, SourceRunInv, AtReceiver, Sent, Waiting, Both!EmptyJar, Both!Jar
<1> QED BY <1>1, <1>2

\* What stays when the receiver, its Chrome or its relay step.
LEMMA ReceiverLeavesSource ==
    ASSUME BehindInv, UNCHANGED <<Both!sourceOwn, emitted, src>>, now' = now, relay' \subseteq Sent
    PROVE  BehindInv'
BY DEF BehindInv, SourceTypeInv, WaitingInv, SourceRunInv, AtReceiver, Sent, Waiting,
       Both!sourceOwn

LEMMA RunLeavesWorld ==
    Both!R!RunStep \/ Both!R!Fault => UNCHANGED <<now, relay>>
BY DEF Both!R!RunStep, Both!R!Fault, Both!R!Start, Both!R!ListNothing, Both!R!List,
       Both!R!FetchRecovery, Both!R!FetchRelay, Both!R!Commit, Both!R!ConnectUnchanged,
       Both!R!Connect, Both!R!Journal, Both!R!SetAll, Both!R!Delete, Both!R!SaveRecovery,
       Both!R!Accept, Both!R!Throw, Both!R!ListFailed, Both!R!SetPartly, Both!R!Abort,
       Both!R!Return, Both!R!WriteCookies, Both!R!world

\* A step of the receiver or its relay is one of ReceiverSync.
LEMMA ReceiverPart ==
    ASSUME BehindInv,
           \/ Both!ReceiverRun \/ Both!ReceiverFault \/ Both!ReceiverChromeRestarts
           \/ \E b \in relay : Both!Expire(b)
    PROVE  BehindInv' /\ Both!R!Next
<1>1. relay \subseteq Sent
  BY DEF BehindInv, SourceTypeInv
<1>2. CASE Both!ReceiverRun \/ Both!ReceiverFault
  <2>1. Both!R!RunStep \/ Both!R!Fault
    BY <1>2 DEF Both!ReceiverRun, Both!ReceiverFault
  <2>2. BehindInv'
    BY <1>1, <1>2, <2>1, RunLeavesWorld, ReceiverLeavesSource DEF Both!ReceiverRun,
       Both!ReceiverFault
  <2> QED BY <2>1, <2>2 DEF Both!R!Next
<1>3. CASE Both!ReceiverChromeRestarts
  <2>1. Both!R!RestartChrome /\ UNCHANGED <<now, relay>>
    BY <1>3 DEF Both!ReceiverChromeRestarts, Both!R!RestartChrome
  <2>2. BehindInv'
    BY <1>1, <1>3, <2>1, ReceiverLeavesSource DEF Both!ReceiverChromeRestarts
  <2> QED BY <2>1, <2>2 DEF Both!R!Next, Both!R!Environment
<1>4. CASE \E b \in relay : Both!Expire(b)
  <2>1. /\ relay' \subseteq relay
        /\ UNCHANGED <<Both!sourceOwn, Both!receiverOwn, now, emitted, src>>
    BY <1>4 DEF Both!Expire
  <2>2. BehindInv'
    BY <1>1, <2>1, ReceiverLeavesSource
  <2>3. Both!R!RelayChanges
    BY <1>1, <2>1 DEF Both!R!RelayChanges, Both!receiverOwn, Both!R!disk, Both!R!locals,
       Both!R!history, Sent
  <2> QED BY <2>2, <2>3 DEF Both!R!Next, Both!R!Environment
<1> QED BY <1>2, <1>3, <1>4

\* What a step of the source leaves alone.
LEMMA RunStepWorld ==
    ASSUME spc # "push", Both!S!RunStep \/ Both!S!Begin(src)
    PROVE  UNCHANGED <<now, emitted>>
BY DEF Both!S!RunStep, Both!S!Begin, Both!S!NextChannel, Both!S!DiscardStale,
       Both!S!SkipUnchanged, Both!S!WritePending, Both!S!Advance, Both!S!RetryPending,
       Both!S!PushStored, Both!S!RecordAck, Both!S!RemovePending, Both!S!Finish

\* Whatever a run of the source does but pushing keeps the invariant.
LEMMA SourceKeepsBehind ==
    ASSUME BehindInv, spc # "push", Both!S!RunStep \/ Both!S!Begin(src),
           UNCHANGED <<relay, src>>
    PROVE  BehindInv'
<1> USE DEF BehindInv, SourceTypeInv, WaitingInv, SourceRunInv, AtReceiver, Sent, Waiting
<1>0. UNCHANGED <<now, emitted>>
  BY RunStepWorld
<1>1. CASE Both!S!Begin(src)
  BY <1>0, <1>1 DEF Both!S!Begin
<1>2. CASE \E d \in {Receiver} : Both!S!NextChannel(d)
  BY <1>0, <1>2 DEF Both!S!NextChannel
<1>3. CASE Both!S!DiscardStale
  BY <1>0, <1>3 DEF Both!S!DiscardStale
<1>4. CASE Both!S!SkipUnchanged
  BY <1>0, <1>4 DEF Both!S!SkipUnchanged
<1>5. CASE Both!S!WritePending
  <2> DEFINE blob == [counter |-> counter[cur] + 1, cookies |-> collected, createdAt |-> sat]
  <2>1. cur = Receiver /\ counter[Receiver] \in Nat /\ counter[Receiver] < MaxCounter
    BY <1>5, BoundsAssumption DEF Both!S!WritePending
  <2>2. blob.counter = counter[Receiver] + 1 /\ blob.createdAt = sat /\ blob \in Both!Blob
    BY <2>1, <1>5 DEF Both!S!WritePending, Both!Blob
  <2>3. Waiting' = blob /\ DOMAIN pending' = {Receiver}
    BY <2>1, <1>5 DEF Both!S!WritePending
  <2>4. \A b \in Sent : b.counter \in Nat /\ b.counter <= counter[Receiver]
    BY DEF Both!Blob
  <2>5. \A b \in Sent : b.counter # blob.counter
    BY <2>1, <2>2, <2>4
  <2> HIDE DEF blob
  <2>6. SourceTypeInv'
    BY <1>0, <1>5, <2>2, <2>3 DEF Both!S!WritePending
  <2>7. WaitingInv'
    BY <1>0, <1>5, <2>1, <2>2, <2>3, <2>5, BoundsAssumption DEF Both!S!WritePending
  <2>8. SourceRunInv'
    BY <1>5, <2>1, <2>2, <2>3, NoneAssumption DEF Both!S!WritePending, Blob, Jar, Both!Blob, Both!Jar
  <2> QED BY <2>6, <2>7, <2>8
<1>6. CASE Both!S!Advance
  <2>1. cur = Receiver /\ Waiting # None /\ Waiting.counter = counter[Receiver] + 1
    BY <1>6 DEF Both!S!Advance
  <2>2. /\ counter' \in [{Receiver} -> 0..MaxCounter]
        /\ counter'[Receiver] = counter[Receiver] + 1
    BY <1>6, <2>1, BoundsAssumption DEF Both!S!Advance
  <2>3. \A b \in Sent : b.counter \in Nat
    BY DEF Both!Blob
  <2>4. \A b \in Sent : b.counter <= counter'[Receiver]
    BY <2>2, <2>3, BoundsAssumption
  <2> QED BY <1>0, <1>6, <2>1, <2>2, <2>4 DEF Both!S!Advance
<1>7. CASE Both!S!RetryPending
  BY <1>0, <1>7 DEF Both!S!RetryPending
<1>8. CASE Both!S!RecordAck
  BY <1>0, <1>8 DEF Both!S!RecordAck
<1>9. CASE Both!S!RemovePending
  BY <1>0, <1>9 DEF Both!S!RemovePending
<1>10. CASE Both!S!Finish
  BY <1>0, <1>10 DEF Both!S!Finish
<1> QED
  BY <1>1, <1>2, <1>3, <1>4, <1>5, <1>6, <1>7, <1>8, <1>9, <1>10
  DEF Both!S!RunStep, Both!S!PushStored

\* A push sends the pending snapshot: of a newer counter than all before, or one that was
\* sent already.  What the relay holds is what was sent.
LEMMA PushPart ==
    ASSUME BehindInv, Both!S!PushStored \/ Both!S!PushFailed,
           relay' \subseteq relay \cup {Waiting}, UNCHANGED <<Both!receiverOwn, src>>
    PROVE  BehindInv' /\ Both!R!Next
<1>1. spc = "push" /\ cur = Receiver /\ spc' \in {"ack", "next"}
  BY DEF BehindInv, SourceRunInv, AtReceiver, Both!S!PushStored, Both!S!PushFailed
<1>2. Waiting # None /\ Waiting.counter = counter[Receiver]
  BY <1>1 DEF BehindInv, SourceRunInv
<1>3. /\ UNCHANGED <<now, counter, pending, todo, collected, sat, paired>>
      /\ spc' = "ack" => cur' = cur
      /\ DOMAIN emitted' = {Receiver} /\ Sent' = Sent \cup {Waiting}
  BY <1>1 DEF BehindInv, SourceTypeInv, Both!S!PushStored, Both!S!PushFailed, Both!S!Emit,
     Sent, Waiting
<1>4. relay' \subseteq Sent'
  BY <1>3 DEF BehindInv, SourceTypeInv
<1>5. /\ Waiting \in Both!Blob /\ Waiting.counter \in 1..MaxCounter /\ Waiting.createdAt \in 0..now
      /\ \A b \in Sent : b.counter = Waiting.counter => b = Waiting
      /\ \A b \in Sent : b \in Both!Blob /\ b.counter <= counter[Receiver]
  BY <1>2 DEF BehindInv, SourceTypeInv, WaitingInv
<1>6. BehindInv'
  <2>1. SourceTypeInv'
    BY <1>1, <1>3, <1>4, <1>5 DEF BehindInv, SourceTypeInv, Waiting
  <2>2. WaitingInv'
    BY <1>2, <1>3, <1>5, BoundsAssumption DEF BehindInv, WaitingInv, Waiting
  <2>3. SourceRunInv'
    BY <1>1, <1>3 DEF SourceRunInv, AtReceiver
  <2> QED BY <2>1, <2>2, <2>3 DEF BehindInv
<1>7. UNCHANGED <<now, browser, Both!R!disk, jar, pc, Both!R!locals, Both!R!history>>
  BY <1>3 DEF Both!receiverOwn, Both!R!disk, Both!R!locals, Both!R!history
<1>8. CASE Waiting \in Sent
  <2>1. Sent' = Sent
    BY <1>3, <1>8
  <2>2. Both!R!RelayChanges
    BY <1>4, <1>7, <2>1 DEF Both!R!RelayChanges, Sent
  <2> QED BY <1>6, <2>2 DEF Both!R!Next, Both!R!Environment
<1>9. CASE Waiting \notin Sent
  <2>1. \A b \in Sent : b.counter < Waiting.counter
    <3> TAKE b \in Sent
    <3>1. b.counter \in Nat /\ b.counter # Waiting.counter /\ b.counter <= Waiting.counter
      BY <1>2, <1>5, <1>9 DEF Both!Blob
    <3> QED BY <3>1, <1>5, BoundsAssumption
  <2>2. /\ Waiting.cookies \in Both!Jar
        /\ Waiting = [counter |-> Waiting.counter, cookies |-> Waiting.cookies,
                      createdAt |-> Waiting.createdAt]
    BY <1>5 DEF Both!Blob
  <2>3. Both!R!Publish(Waiting.counter, Waiting.cookies, Waiting.createdAt)
    BY <1>3, <1>4, <1>7, <2>1, <2>2 DEF Both!R!Publish, Sent
  <2>4. Waiting.cookies \in Both!R!Jar
    BY <2>2 DEF Both!Jar, Both!R!Jar
  <2>5. \E n \in 1..MaxCounter, s \in Both!R!Jar, t \in 0..now : Both!R!Publish(n, s, t)
    BY <1>5, <2>3, <2>4
  <2> QED BY <1>6, <2>5 DEF Both!R!Next, Both!R!Environment
<1> QED BY <1>8, <1>9

\* The blobs that applyRetention leaves are among those it is given.
LEMMA KeptPart == \A blobs : Both!Kept(blobs) \subseteq blobs
BY DEF Both!Kept

\* A step of the source is a publication, a change of the relay or nothing to the receiver.
LEMMA SourcePart ==
    ASSUME BehindInv, Both!SourceStep
    PROVE  BehindInv' /\ (Both!R!Next \/ UNCHANGED Both!R!vars)
<1>1. Both!SourceAndRelay /\ UNCHANGED <<Both!receiverOwn, src, changes>>
  BY DEF Both!SourceStep
<1>2. CASE Both!S!PushStored \/ Both!S!PushFailed
  <2>1. cur = Receiver
    BY <1>2 DEF BehindInv, SourceRunInv, AtReceiver, Both!S!PushStored, Both!S!PushFailed
  <2>2. relay' = relay \/ relay' = Both!Kept(relay \cup {Waiting})
    BY <1>1, <1>2, <2>1 DEF Both!SourceAndRelay, Waiting, Both!S!PushStored,
       Both!S!PushFailed, Both!S!Abort
  <2>3. relay' \subseteq relay \cup {Waiting}
    BY <2>2, KeptPart
  <2> QED BY <1>1, <1>2, <2>3, PushPart
<1>3. CASE Both!S!Abort /\ UNCHANGED relay
  <2>1. BehindInv'
    BY <1>1, <1>3 DEF Both!S!Abort, BehindInv, SourceTypeInv, WaitingInv, SourceRunInv,
       AtReceiver, Sent, Waiting
  <2>2. UNCHANGED Both!R!vars
    BY <1>1, <1>3 DEF Both!S!Abort, Both!receiverOwn, Both!R!vars, Both!R!world,
       Both!R!disk, Both!R!locals, Both!R!history
  <2> QED BY <2>1, <2>2
<1>4. CASE spc # "push" /\ (Both!S!RunStep \/ Both!S!Begin(src)) /\ UNCHANGED relay
  <2>1. UNCHANGED <<now, emitted>>
    BY <1>4, RunStepWorld
  <2>2. UNCHANGED Both!R!vars
    BY <1>1, <1>4, <2>1 DEF Both!receiverOwn, Both!R!vars, Both!R!world, Both!R!disk,
       Both!R!locals, Both!R!history
  <2> QED BY <1>1, <1>4, <2>2, SourceKeepsBehind
<1> QED BY <1>1, <1>2, <1>3, <1>4 DEF Both!SourceAndRelay

\* The user pairs or browses, or the clock passes.
LEMMA UserPart ==
    ASSUME BehindInv, Both!Pair \/ Both!Browse \/ Both!Tick
    PROVE  BehindInv' /\ (Both!R!Next \/ UNCHANGED Both!R!vars)
<1> USE DEF BehindInv, SourceTypeInv, WaitingInv, SourceRunInv, AtReceiver, Sent, Waiting
<1>1. CASE Both!Pair
  <2>1. UNCHANGED Both!R!vars
    BY <1>1 DEF Both!Pair, Both!S!Approve, Both!receiverOwn, Both!R!vars, Both!R!world,
       Both!R!disk, Both!R!locals, Both!R!history
  <2> QED BY <1>1, <2>1 DEF Both!Pair, Both!S!Approve
<1>2. CASE Both!Browse
  <2>1. UNCHANGED Both!R!vars
    BY <1>2 DEF Both!Browse, Both!between, Both!receiverOwn, Both!R!vars, Both!R!world,
       Both!R!disk, Both!R!locals, Both!R!history
  <2> QED BY <1>2, <2>1 DEF Both!Browse, Both!between, Both!sourceOwn
<1>3. CASE Both!Tick
  <2>1. Both!R!Tick
    BY <1>3 DEF Both!Tick, Both!S!Tick, Both!R!Tick, Both!receiverOwn, Both!R!disk,
       Both!R!locals, Both!R!history
  <2>2. now' = now + 1 /\ 0..now \subseteq 0..now'
    BY <1>3 DEF Both!Tick, Both!S!Tick
  <2>3. BehindInv'
    BY <1>3, <2>2 DEF Both!Tick, Both!S!Tick
  <2> QED BY <2>1, <2>3 DEF Both!R!Next, Both!R!Environment
<1> QED BY <1>1, <1>2, <1>3

LEMMA BothStutter ==
    ASSUME BehindInv, UNCHANGED Both!vars
    PROVE  BehindInv' /\ UNCHANGED Both!R!vars
BY DEF BehindInv, SourceTypeInv, WaitingInv, SourceRunInv, AtReceiver, Sent, Waiting,
       Both!vars, Both!sourceOwn, Both!between, Both!receiverOwn, Both!R!vars, Both!R!world,
       Both!R!disk, Both!R!locals, Both!R!history

LEMMA BothStep == BehindInv /\ [Both!Next]_(Both!vars) => BehindInv' /\ [Both!R!Next]_(Both!R!vars)
<1> SUFFICES ASSUME BehindInv, [Both!Next]_(Both!vars)
             PROVE  BehindInv' /\ [Both!R!Next]_(Both!R!vars)
  OBVIOUS
<1>1. CASE UNCHANGED Both!vars
  BY <1>1, BothStutter
<1>2. CASE Both!SourceStep
  BY <1>2, SourcePart
<1>3. CASE Both!Pair \/ Both!Browse \/ Both!Tick
  BY <1>3, UserPart
<1>4. CASE \/ Both!ReceiverRun \/ Both!ReceiverFault \/ Both!ReceiverChromeRestarts
           \/ \E b \in relay : Both!Expire(b)
  BY <1>4, ReceiverPart
<1> QED BY <1>1, <1>2, <1>3, <1>4 DEF Both!Next

\* What syncProfile assumes of its surroundings holds behind this source and this relay:
\* whatever publishSnapshot, its crashes and retries, applyRetention and sweepExpired do, the
\* receiver sees snapshots of growing counters, collected no later than now, and a relay that
\* holds some of what was sent.  So every theorem above holds of the pair.
THEOREM PairImplementsReceiver == Both!Spec => Both!ImplementsReceiver
<1>1. Both!Init => BehindInv /\ Both!R!Init
  BY BothInit
<1>2. BehindInv /\ [Both!Next]_(Both!vars) => BehindInv' /\ [Both!R!Next]_(Both!R!vars)
  BY BothStep
<1> QED
  BY <1>1, <1>2, PTL DEF Both!Spec, Both!ImplementsReceiver, Both!R!Spec
=============================================================================
