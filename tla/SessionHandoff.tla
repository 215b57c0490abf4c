---------------------------- MODULE SessionHandoff ----------------------------
(***************************************************************************)
(* Handing an authenticated session over to a browser of the agent,        *)
(* importAuthenticatedSession of auth/session-handoff.js, with             *)
(* applySnapshot of cli/sync.js.                                           *)
(*                                                                         *)
(* A profile belongs to one origin and account, which its pin names along  *)
(* with the cookies that were brought there.  An import may fail or be     *)
(* stopped between any two of its steps; the next one, perhaps of another  *)
(* bundle, is what cleans up.  A profile lock keeps imports apart.         *)
(*                                                                         *)
(* Left out: how bundles and endpoints are validated, and cookies the site *)
(* itself sets in the profile.                                             *)
(***************************************************************************)
EXTENDS Naturals, Sequences, FiniteSets

CONSTANTS
    Accounts,   \* origin and account of a session
    Cookies,    \* identities of cookies
    MaxPin,     \* identities a pin may name
    MaxImports  \* bound of the imports

NoPin == [account |-> "none", identities |-> {}]
Idle == [at |-> "idle"]

VARIABLES
    profile,   \* the directory of the profile exists and is not empty
    pin,       \* session.json
    jar,       \* jar[c]: the import a cookie in the profile came with, 0 when it is absent
    import,    \* the import under way
    imports    \* accounts of the imports so far

vars == <<profile, pin, jar, import, imports>>

Init ==
    /\ profile \in BOOLEAN
    /\ pin = NoPin
    /\ jar = [c \in Cookies |-> 0]
    /\ import = Idle
    /\ imports = <<>>

Number == Len(imports)

-----------------------------------------------------------------------------
\* readPin and what follows: another account, or a directory without a pin, is refused.
Admitted(a) == IF pin = NoPin THEN ~profile ELSE pin.account = a

\* Mutant of Possible: the identities of the new bundle are not yet written down.
PossibleOld(cookies) == pin.identities

Possible(cookies) == pin.identities \cup cookies

\* The pin is written, with every cookie there may be, before the browser is touched.
Begin(a, cookies) ==
    /\ import = Idle /\ Len(imports) < MaxImports
    /\ Admitted(a)
    /\ Cardinality(Possible(cookies)) <= MaxPin
    /\ imports' = Append(imports, a)
    /\ pin' = [account |-> a, identities |-> Possible(cookies)]
    /\ profile' = TRUE
    /\ import' = [at |-> "set", cookies |-> cookies, possible |-> Possible(cookies)]
    /\ UNCHANGED jar

\* Storage.setCookies: all of them, or some when it fails.
SetCookies ==
    /\ import.at = "set"
    /\ \E done \in SUBSET import.cookies :
         /\ jar' = [c \in Cookies |-> IF c \in done THEN Number ELSE jar[c]]
         /\ import' = IF done = import.cookies THEN [import EXCEPT !.at = "delete"] ELSE Idle
    /\ UNCHANGED <<profile, pin, imports>>

\* Network.deleteCookies, one cookie at a time.
Gone == import.possible \ import.cookies

DeleteCookies ==
    /\ import.at = "delete"
    /\ \E done \in SUBSET Gone :
         /\ jar' = [c \in Cookies |-> IF c \in done THEN 0 ELSE jar[c]]
         /\ import' = IF done = Gone THEN [import EXCEPT !.at = "verify"] ELSE Idle
    /\ UNCHANGED <<profile, pin, imports>>

\* verifyCookies, then the pin names what is there now.
Verified ==
    /\ import.at = "verify"
    /\ \A c \in import.cookies : jar[c] = Number
    /\ \A c \in Gone : jar[c] = 0
    /\ pin' = [pin EXCEPT !.identities = import.cookies]
    /\ import' = [import EXCEPT !.at = "show"]
    /\ UNCHANGED <<profile, jar, imports>>

\* showSession; the import is answered.
Imported ==
    /\ import.at = "show"
    /\ import' = Idle
    /\ UNCHANGED <<profile, pin, jar, imports>>

\* Any step fails ('needs-retry'), or the process stops.
Fails ==
    /\ import # Idle
    /\ import' = Idle
    /\ UNCHANGED <<profile, pin, jar, imports>>

Next ==
    \/ \E a \in Accounts, cookies \in SUBSET Cookies \ {{}} : Begin(a, cookies)
    \/ SetCookies \/ DeleteCookies \/ Verified \/ Imported \/ Fails

Spec == Init /\ [][Next]_vars

-----------------------------------------------------------------------------
(* Properties.                                                              *)

\* Wherever an import fails or stops, the pin names every cookie that was brought to the
\* profile, and all of them are of the account it names: the next import can remove what
\* it does not bring along, and no profile ever mixes the sessions of two accounts.
PinCovers ==
    \A c \in Cookies : jar[c] # 0 => c \in pin.identities /\ imports[jar[c]] = pin.account
=============================================================================
