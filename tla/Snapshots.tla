----------------------------- MODULE Snapshots -----------------------------
(***************************************************************************)
(* Cookies as the programs see them: a cookie jar gives every cookie       *)
(* identity (name, domain, path, partition key) a value or NoCookie.  A    *)
(* snapshot is a jar too: the cookies it does not hold are NoCookie.       *)
(***************************************************************************)
EXTENDS Integers, FiniteSets

CONSTANTS
    Cookies,         \* cookie identities within the allowlist
    SessionCookies,  \* those without an expiry: Chrome forgets them on exit
    Values,          \* what a cookie can hold
    NoCookie,        \* the absence of a cookie
    None,            \* the absence of a file
    SnapshotTtl      \* age at which a snapshot is refused (seven days)

ASSUME CookieAssumption ==
    /\ SessionCookies \subseteq Cookies
    /\ NoCookie \notin Values
    /\ SnapshotTtl \in Nat

Jar == [Cookies -> Values \cup {NoCookie}]
EmptyJar == [c \in Cookies |-> NoCookie]

\* An encrypted snapshot: what the relay holds under the name of its counter.
Blob == [counter : Nat, cookies : Jar, createdAt : Nat]

ASSUME NoneAssumption == None \notin Blob

\* cookieIdentity over a snapshot: the identities it holds.
Identities(jar) == {c \in Cookies : jar[c] # NoCookie}

\* Storage.setCookies with the cookies of s whose identity is in ids.
SetCookies(jar, s, ids) ==
    [c \in Cookies |-> IF c \in ids /\ s[c] # NoCookie THEN s[c] ELSE jar[c]]

\* Network.deleteCookies.
DeleteCookie(jar, c) == [jar EXCEPT ![c] = NoCookie]

\* What Chrome still has after its process ended and another one started.
AfterRestart(jar) ==
    [c \in Cookies |-> IF c \in SessionCookies THEN NoCookie ELSE jar[c]]

\* The age check of decryptSnapshot and validateSnapshot; the devices share one
\* clock here, so the allowance for a clock that runs ahead has no part in it.
Recent(s, time) == s.createdAt >= time - SnapshotTtl
=============================================================================
