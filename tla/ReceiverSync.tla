---------------------------- MODULE ReceiverSync ----------------------------
(***************************************************************************)
(* The receiver's side of one channel: syncProfile, receiveSnapshot and    *)
(* applySnapshot of cli/sync.js.                                           *)
(*                                                                         *)
(* A run lists the relay, takes the newest snapshot, saves it to the local *)
(* recovery file before it commits the advanced key chain, journals every  *)
(* cookie identity it is about to write, writes the cookies over CDP,      *)
(* deletes those the previous snapshots left behind, and only then records *)
(* the counter as accepted.  Without the relay it applies the recovery     *)
(* file again.  A run may stop after any step.  Meanwhile the source       *)
(* publishes, the relay forgets, Chrome restarts and the sites open in it  *)
(* set and delete cookies of their own.                                    *)
(***************************************************************************)
EXTENDS Snapshots

CONSTANTS
    MaxJump,     \* how far a counter may be ahead of the chain (100000)
    MaxCounter,  \* bound of the source's counter
    MaxTime,     \* bound of the clock
    MaxBrowser   \* bound of the number of Chrome processes

ASSUME BoundsAssumption ==
    /\ MaxJump \in Nat \ {0}
    /\ MaxCounter \in Nat
    /\ MaxTime \in Nat
    /\ MaxBrowser \in Nat

VARIABLES
    now,         \* the clock
    published,   \* every snapshot the source sent to this receiver
    relay,       \* those the relay holds at this moment
    chan,        \* counter of the key chain in the vault
    accepted,    \* state.json: counter of the last snapshot applied in full
    journal,     \* state.json: identities that may have been imported
    seenBrowser, \* state.json: the Chrome process it was applied to
    recovery,    \* recovery.json, or None
    jar,         \* the cookies of the receiver's Chrome
    browser,     \* the Chrome process that runs
    pc,          \* where the run that holds the profile lock is
    at,          \* the time the run began
    latest,      \* the counter the run is after
    snap,        \* the snapshot the run applies, or None
    client,      \* the Chrome process the run is connected to
    previous,    \* identities read with the state, for the deletions
    offline,     \* the relay did not answer this run
    imported,    \* history: cookies in the jar that a run put there
    drift,       \* history: cookies a site changed after a run set them
    applied      \* history: highest counter whose cookies were written

disk == <<chan, accepted, journal, seenBrowser, recovery>>
locals == <<at, latest, snap, client, previous, offline>>
world == <<now, published, relay, browser>>
history == <<imported, drift, applied>>
vars == <<world, disk, jar, pc, locals, history>>

EmptyLocals ==
    /\ at' = 0
    /\ latest' = 0
    /\ snap' = None
    /\ client' = 0
    /\ previous' = {}
    /\ offline' = FALSE

Init ==
    /\ now = 0
    /\ published = {}
    /\ relay = {}
    /\ chan = 0
    /\ accepted = 0
    /\ journal = {}
    /\ seenBrowser = 0
    /\ recovery = None
    /\ jar = EmptyJar
    /\ browser = 1
    /\ pc = "idle"
    /\ at = 0
    /\ latest = 0
    /\ snap = None
    /\ client = 0
    /\ previous = {}
    /\ offline = FALSE
    /\ imported = {}
    /\ drift = {}
    /\ applied = 0

-----------------------------------------------------------------------------
(* One run of syncProfile for a receiver.                                   *)

Start ==
    /\ pc = "idle"
    /\ pc' = "list"
    /\ at' = now
    /\ previous' = journal
    /\ UNCHANGED <<world, disk, jar, latest, snap, client, offline, history>>

\* The return of the run, by any path that leaves the disk alone.
Return ==
    /\ pc' = "idle"
    /\ EmptyLocals
    /\ UNCHANGED <<world, disk, jar, history>>

Listed == {b.counter : b \in {x \in relay : x.counter >= accepted}}

\* A consumed counter the relay no longer lists is still a candidate.
Candidates ==
    IF chan > accepted /\ \A n \in Listed : chan > n THEN Listed \cup {chan}
    ELSE Listed

ListNothing == pc = "list" /\ Candidates = {} /\ Return

List ==
    /\ pc = "list"
    /\ \E n \in Candidates :
         /\ \A m \in Candidates : m <= n
         /\ latest' = n
         /\ pc' = IF n > accepted THEN "fetch" ELSE "connect"
    /\ UNCHANGED <<world, disk, jar, at, snap, client, previous, offline, history>>

\* The recovery file, when it holds the snapshot of counter n and is recent.
Usable(n) ==
    /\ recovery # None
    /\ recovery.counter = n
    /\ Recent(recovery, at)

\* The relay does not answer: the snapshot of the consumed counter is applied
\* from the recovery file, if this process or this counter needs it.
ListFailed ==
    /\ pc = "list"
    /\ chan # 0
    /\ Usable(chan)
    /\ latest' = chan
    /\ snap' = recovery
    /\ offline' = TRUE
    /\ pc' = "connect"
    /\ UNCHANGED <<world, disk, jar, at, client, previous, history>>

\* The key of this counter is consumed: only the recovery copy can serve.
FetchRecovery ==
    /\ pc = "fetch"
    /\ latest = chan
    /\ Usable(latest)
    /\ snap' = recovery
    /\ pc' = "connect"
    /\ UNCHANGED <<world, disk, jar, at, latest, client, previous, offline, history>>

\* Download, authenticate and save the copy that the consumed key cannot read
\* again.  The blob may have gone since the listing: then the run fails.
FetchRelay ==
    /\ pc = "fetch"
    /\ latest > chan
    /\ latest - chan <= MaxJump
    /\ \E b \in relay :
         /\ b.counter = latest
         /\ Recent(b, at)
         /\ snap' = b
         /\ recovery' = b
    /\ pc' = "commit"
    /\ UNCHANGED <<world, chan, accepted, journal, seenBrowser, jar, at,
                   latest, client, previous, offline, history>>

Commit ==
    /\ pc = "commit"
    /\ chan' = latest
    /\ pc' = "connect"
    /\ UNCHANGED <<world, accepted, journal, seenBrowser, recovery, jar,
                   locals, history>>

UpToDate == latest = accepted /\ browser = seenBrowser

\* Nothing new and the same Chrome process: unchanged, or the list error again.
ConnectUnchanged == pc = "connect" /\ UpToDate /\ Return

Connect ==
    /\ pc = "connect"
    /\ ~UpToDate
    /\ snap = None => Usable(latest)
    /\ snap' = IF snap = None THEN recovery ELSE snap
    /\ client' = browser
    /\ pc' = "journal"
    /\ UNCHANGED <<world, disk, jar, at, latest, previous, offline, history>>

\* Mutant: the journal holds the new snapshot only.
JournalNewOnly ==
    /\ pc = "journal"
    /\ journal' = Identities(snap.cookies)
    /\ pc' = "set"
    /\ UNCHANGED <<world, chan, accepted, seenBrowser, recovery, jar, locals,
                   history>>

\* Mutant: the journal is written over the rest of state.json.
JournalForgetsState ==
    /\ pc = "journal"
    /\ journal' = previous \cup Identities(snap.cookies)
    /\ accepted' = 0
    /\ pc' = "set"
    /\ UNCHANGED <<world, chan, seenBrowser, recovery, jar, locals, history>>

\* "Journal all potentially imported identities so a later snapshot can still
\* remove those cookies."
Journal ==
    /\ pc = "journal"
    /\ journal' = previous \cup Identities(snap.cookies)
    /\ pc' = "set"
    /\ UNCHANGED <<world, chan, accepted, seenBrowser, recovery, jar, locals,
                   history>>

\* The CDP batch, as far as it gets: all of it, or a part before the run fails.
WriteCookies(ids) ==
    /\ pc = "set"
    /\ client = browser
    /\ jar' = SetCookies(jar, snap.cookies, ids)
    /\ imported' = imported \cup ids
    /\ drift' = drift \ ids
    /\ applied' = snap.counter
    /\ UNCHANGED <<world, disk>>

\* Mutant: nothing of the previous snapshot is deleted.
SetWithoutDeleting ==
    /\ WriteCookies(Identities(snap.cookies))
    /\ pc' = "delete"
    /\ previous' = {}
    /\ UNCHANGED <<at, latest, snap, client, offline>>

SetAll ==
    /\ WriteCookies(Identities(snap.cookies))
    /\ pc' = "delete"
    /\ previous' = previous \ Identities(snap.cookies)
    /\ UNCHANGED <<at, latest, snap, client, offline>>

SetPartly ==
    /\ pc = "set"
    /\ \E ids \in SUBSET Identities(snap.cookies) : WriteCookies(ids)
    /\ pc' = "idle"
    /\ EmptyLocals

\* The removed cookies are deleted one at a time.
Delete(c) ==
    /\ pc = "delete"
    /\ client = browser
    /\ c \in previous
    /\ jar' = DeleteCookie(jar, c)
    /\ imported' = imported \ {c}
    /\ previous' = previous \ {c}
    /\ UNCHANGED <<world, disk, pc, at, latest, snap, client, offline, drift,
                   applied>>

SaveRecovery ==
    /\ pc = "delete"
    /\ previous = {}
    /\ ~offline
    /\ recovery' = snap
    /\ pc' = "accept"
    /\ UNCHANGED <<world, chan, accepted, journal, seenBrowser, jar, locals,
                   history>>

Accept ==
    /\ \/ pc = "accept"
       \/ pc = "delete" /\ previous = {} /\ offline
    /\ accepted' = snap.counter
    /\ journal' = Identities(snap.cookies)
    /\ seenBrowser' = client
    /\ pc' = "idle"
    /\ EmptyLocals
    /\ UNCHANGED <<world, chan, recovery, jar, history>>

\* The run throws by itself: the blob has gone or is refused, the recovery file
\* cannot serve, or the Chrome process it is connected to has ended.
Throw ==
    /\ \/ pc = "fetch" /\ latest = chan /\ ~Usable(latest)
       \/ /\ pc = "fetch" /\ latest # chan
          /\ \/ latest - chan > MaxJump
             \/ ~\E b \in relay : b.counter = latest /\ Recent(b, at)
       \/ pc = "connect" /\ ~UpToDate /\ snap = None /\ ~Usable(latest)
       \/ pc = "set" /\ client # browser
       \/ pc = "delete" /\ client # browser /\ previous # {}
    /\ Return

\* An exception, a kill or a crash: what is on disk stays, the lock is free.
Abort == pc # "idle" /\ Return

-----------------------------------------------------------------------------
(* The surroundings.                                                        *)

Tick ==
    /\ now < MaxTime
    /\ now' = now + 1
    /\ UNCHANGED <<published, relay, browser, disk, jar, pc, locals, history>>

\* The source sends a snapshot under a counter above every earlier one; it may
\* have been collected some time ago.  What the relay holds is never more than
\* what was sent: a push may fail, be repeated, evict others or expire.
Publish(n, s, t) ==
    LET b == [counter |-> n, cookies |-> s, createdAt |-> t]
    IN  /\ \A old \in published : old.counter < n
        /\ published' = published \cup {b}
        /\ relay' \in SUBSET published'
        /\ UNCHANGED <<now, browser, disk, jar, pc, locals, history>>

RelayChanges ==
    /\ relay' \in SUBSET published
    /\ UNCHANGED <<now, published, browser, disk, jar, pc, locals, history>>

\* Chrome ends and starts again: the session cookies are gone, and a run that
\* was connected to the old process can no longer reach it.
RestartChrome ==
    /\ browser < MaxBrowser
    /\ browser' = browser + 1
    /\ jar' = AfterRestart(jar)
    /\ imported' = imported \ SessionCookies
    /\ drift' = drift \ SessionCookies
    /\ UNCHANGED <<now, published, relay, disk, pc, locals, applied>>

\* A site sets, refreshes or deletes a cookie in the receiver's Chrome.
SiteSets(c, v) ==
    /\ jar' = [jar EXCEPT ![c] = v]
    /\ drift' = drift \cup {c}
    /\ UNCHANGED <<world, disk, pc, locals, imported, applied>>

SiteDeletes(c) ==
    /\ jar' = DeleteCookie(jar, c)
    /\ imported' = imported \ {c}
    /\ drift' = drift \cup {c}
    /\ UNCHANGED <<world, disk, pc, locals, applied>>

-----------------------------------------------------------------------------

RunStep ==
    \/ Start
    \/ ListNothing
    \/ List
    \/ FetchRecovery
    \/ FetchRelay
    \/ Commit
    \/ ConnectUnchanged
    \/ Connect
    \/ Journal
    \/ SetAll
    \/ \E c \in Cookies : Delete(c)
    \/ SaveRecovery
    \/ Accept
    \/ Throw

Fault == ListFailed \/ SetPartly \/ Abort

Environment ==
    \/ Tick
    \/ \E n \in 1..MaxCounter, s \in Jar, t \in 0..now : Publish(n, s, t)
    \/ RelayChanges
    \/ RestartChrome
    \/ \E c \in Cookies : SiteDeletes(c) \/ \E v \in Values : SiteSets(c, v)

Next == RunStep \/ Fault \/ Environment

Spec == Init /\ [][Next]_vars

-----------------------------------------------------------------------------
(* Properties.                                                              *)

PcValues == {"idle", "list", "fetch", "commit", "connect", "journal", "set",
             "delete", "accept"}

\* Every variable keeps its type.
TypeOK ==
    /\ now \in Nat
    /\ published \in SUBSET Blob
    /\ relay \in SUBSET Blob
    /\ chan \in Nat
    /\ accepted \in Nat
    /\ journal \in SUBSET Cookies
    /\ seenBrowser \in Nat
    /\ recovery \in Blob \cup {None}
    /\ jar \in Jar
    /\ browser \in Nat
    /\ pc \in PcValues
    /\ at \in Nat
    /\ latest \in Nat
    /\ snap \in Blob \cup {None}
    /\ client \in Nat
    /\ previous \in SUBSET Cookies
    /\ offline \in BOOLEAN
    /\ imported \in SUBSET Cookies
    /\ drift \in SUBSET Cookies
    /\ applied \in Nat

\* Every cookie a run ever put into Chrome and that is still there is in the
\* journal on disk, through partial CDP batches, failed deletions and crashes:
\* a later snapshot can still remove it.
JournalCovers == imported \subseteq journal

\* A cookie that the source no longer has leaves the receiver: once the newest
\* consumed snapshot is accepted, no imported cookie is outside it.
LogoutReachesReceiver ==
    chan = accepted =>
        \A b \in published : b.counter = accepted =>
            imported \subseteq Identities(b.cookies)

\* Once accepted in the Chrome process that runs, a snapshot is what the jar
\* holds, but for what sites changed there themselves.
AcceptedIsApplied ==
    pc = "idle" /\ chan = accepted /\ seenBrowser = browser =>
        \A b \in published : b.counter = accepted =>
            \A c \in Identities(b.cookies) \ drift : jar[c] = b.cookies[c]

\* The key of a consumed counter is gone, so until that snapshot is accepted
\* the recovery file holds it, or a newer one.
ConsumedIsRecoverable ==
    chan > 0 => recovery # None /\ recovery \in published /\ recovery.counter >= chan

\* Replays never take the browser back: no run writes the cookies of an older
\* snapshot after those of a newer one, and neither counter ever falls.
NeverRollsBack ==
    [][/\ applied' >= applied
       /\ chan' >= chan
       /\ accepted' >= accepted]_vars
=============================================================================
