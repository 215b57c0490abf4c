--------------------------- MODULE SourceRecovery ---------------------------
(***************************************************************************)
(* What a managed source does before it publishes: syncProfile of          *)
(* cli/sync.js for role source.  Chrome forgets its session cookies when   *)
(* it exits, so every run leaves a copy of what it read in recovery.json,  *)
(* marked with the Chrome process it read from; the first run against      *)
(* another process writes the missing session cookies back.  The user      *)
(* browses at the same time: the jar may change between any two CDP calls. *)
(***************************************************************************)
EXTENDS Snapshots

CONSTANTS
    MaxTime,     \* bound of the clock
    MaxBrowser   \* bound of the number of Chrome processes

\* recovery.json: a copy of the cookies, when and from which process it is.
Backup == [cookies : Jar, createdAt : Nat, browser : Nat]

VARIABLES
    now,        \* the clock
    jar,        \* the cookies of the source's Chrome
    browser,    \* the Chrome process that runs
    recovery,   \* recovery.json, or None
    pc,         \* where the run that holds the profile lock is
    at,         \* the time the run began
    client,     \* the Chrome process the run is connected to
    raw,        \* the cookies the run read, or None
    collected,  \* what the last run handed to publishSnapshot, or None
    owed,       \* history: session cookies of the backup Chrome lost on exit
    loggedOut,  \* history: cookies the user removed in this Chrome process
    restores    \* history: restores in this process: none, one, or more (2)

vars == <<now, jar, browser, recovery, pc, at, client, raw, collected, owed,
          loggedOut, restores>>

Init ==
    /\ now = 0
    /\ jar = EmptyJar
    /\ browser = 1
    /\ recovery = None
    /\ pc = "idle"
    /\ at = 0
    /\ client = 0
    /\ raw = None
    /\ collected = None
    /\ owed = {}
    /\ loggedOut = {}
    /\ restores = 0

-----------------------------------------------------------------------------
(* One run.                                                                 *)

Connect ==
    /\ pc = "idle"
    /\ pc' = "read"
    /\ at' = now
    /\ client' = browser
    /\ UNCHANGED <<now, jar, browser, recovery, raw, collected, owed,
                   loggedOut, restores>>

\* Mutant: the Chrome process is not compared.
RestorableAlways == recovery # None /\ Recent(recovery, at)

\* A backup of another Chrome process that is not too old.
Restorable ==
    /\ recovery # None
    /\ recovery.browser # client
    /\ Recent(recovery, at)

\* Session cookies of the backup the cookies read do not have.
Missing(read) ==
    {c \in SessionCookies : recovery.cookies[c] # NoCookie /\ read[c] = NoCookie}

\* Mutant: nothing is restored.
ReadWithoutRestore ==
    /\ pc = "read"
    /\ client = browser
    /\ raw' = jar
    /\ pc' = "save"
    /\ UNCHANGED <<now, jar, browser, recovery, at, client, collected, owed,
                   loggedOut, restores>>

ReadJar ==
    /\ pc = "read"
    /\ client = browser
    /\ raw' = jar
    /\ pc' = IF Restorable /\ Missing(jar) # {} THEN "restore" ELSE "save"
    /\ UNCHANGED <<now, jar, browser, recovery, at, client, collected, owed,
                   loggedOut, restores>>

Restore ==
    /\ pc = "restore"
    /\ client = browser
    /\ jar' = SetCookies(jar, recovery.cookies, Missing(raw))
    /\ owed' = owed \ Missing(raw)
    /\ restores' = IF restores = 0 THEN 1 ELSE 2
    /\ pc' = "reread"
    /\ UNCHANGED <<now, browser, recovery, at, client, raw, collected,
                   loggedOut>>

Reread ==
    /\ pc = "reread"
    /\ client = browser
    /\ raw' = jar
    /\ pc' = "save"
    /\ UNCHANGED <<now, jar, browser, recovery, at, client, collected, owed,
                   loggedOut, restores>>

\* The backup is taken again, and the cookies go to publishSnapshot.  It needs
\* no connection: Chrome may have ended since the cookies were read, and a login
\* made in between is then in no backup.
Save ==
    /\ pc = "save"
    /\ recovery' = [cookies |-> raw, createdAt |-> at, browser |-> client]
    /\ collected' = raw
    /\ pc' = "idle"
    /\ at' = 0
    /\ client' = 0
    /\ raw' = None
    /\ owed' = owed \cap Identities(raw)
    /\ UNCHANGED <<now, jar, browser, loggedOut, restores>>

\* An exception, a kill, a crash: among them a cookie that cookieParam refuses
\* to send, thrown after the restore and before the backup is taken.
Abort ==
    /\ pc # "idle"
    /\ pc' = "idle"
    /\ at' = 0
    /\ client' = 0
    /\ raw' = None
    /\ UNCHANGED <<now, jar, browser, recovery, collected, owed, loggedOut,
                   restores>>

-----------------------------------------------------------------------------
(* The user and Chrome.                                                     *)

LogIn(c, v) ==
    /\ jar' = [jar EXCEPT ![c] = v]
    /\ owed' = owed \ {c}
    /\ loggedOut' = loggedOut \ {c}
    /\ UNCHANGED <<now, browser, recovery, pc, at, client, raw, collected,
                   restores>>

LogOut(c) ==
    /\ jar[c] # NoCookie
    /\ jar' = DeleteCookie(jar, c)
    /\ owed' = owed \ {c}
    /\ loggedOut' = loggedOut \cup {c}
    /\ UNCHANGED <<now, browser, recovery, pc, at, client, raw, collected,
                   restores>>

RestartChrome ==
    /\ browser < MaxBrowser
    /\ browser' = browser + 1
    /\ jar' = AfterRestart(jar)
    /\ owed' = owed \cup {c \in SessionCookies :
                  /\ jar[c] # NoCookie
                  /\ recovery # None
                  /\ recovery.cookies[c] # NoCookie}
    /\ loggedOut' = {}
    /\ restores' = 0
    /\ UNCHANGED <<now, recovery, pc, at, client, raw, collected>>

Tick ==
    /\ now < MaxTime
    /\ now' = now + 1
    /\ UNCHANGED <<jar, browser, recovery, pc, at, client, raw, collected,
                   owed, loggedOut, restores>>

-----------------------------------------------------------------------------

Run == Connect \/ ReadJar \/ Restore \/ Reread \/ Save

User == \E c \in Cookies : LogOut(c) \/ \E v \in Values : LogIn(c, v)

Next == Run \/ Abort \/ User \/ RestartChrome \/ Tick

Spec == Init /\ [][Next]_vars

-----------------------------------------------------------------------------
(* Properties.                                                              *)

\* Every variable keeps its type.
TypeOK ==
    /\ now \in Nat
    /\ jar \in Jar
    /\ browser \in Nat
    /\ recovery \in Backup \cup {None}
    /\ pc \in {"idle", "read", "restore", "reread", "save"}
    /\ at \in Nat
    /\ client \in Nat
    /\ raw \in Jar \cup {None}
    /\ collected \in Jar \cup {None}
    /\ owed \in SUBSET SessionCookies
    /\ loggedOut \in SUBSET Cookies
    /\ restores \in Nat

\* A restart of Chrome is no logout: when a run is about to overwrite the backup
\* and to publish, every session the backup held and Chrome lost on its exit is
\* back, unless the user touched it since or the backup is too old.
RestartIsNoLogout ==
    pc = "save" /\ client = browser =>
        owed = {} \/ ~Recent(recovery, at)

\* Once a run has taken the backup from this Chrome process, no run writes back
\* a cookie the user removed in it.
LogoutStands ==
    [][recovery # None /\ recovery.browser = browser =>
         \A c \in loggedOut \cap loggedOut' :
             jar[c] = NoCookie => jar'[c] = NoCookie]_vars

\* "Restore only missing session cookies once per browser process": stated by
\* the comment in syncProfile, and broken by a run that stops after the restore
\* and before the backup is taken.
RestoredOncePerProcess == restores <= 1
=============================================================================
