--------------------------- MODULE AccountCatalog ---------------------------
(***************************************************************************)
(* The connections to the credential vault and the catalog of accounts,    *)
(* auth/onepassword.js and auth/onepassword-catalog.js.                    *)
(*                                                                         *)
(* A connection has a stored token, a client that was made from it and a   *)
(* cached index of its vaults.  A search hands out handles of the accounts *)
(* it lists, a resolution turns one into references to credentials, an     *)
(* authentication reads credentials.  Each of them waits for the vault     *)
(* several times, and none can be cancelled: meanwhile the owner stores    *)
(* another token, the vault changes, and the cache grows old.              *)
(*                                                                         *)
(* One requester.  Left out: pages and cursors of a search, capacities,    *)
(* what a listing and an item hold beyond the connection and the content   *)
(* they were read from.                                                    *)
(***************************************************************************)
EXTENDS Naturals, Sequences

CONSTANTS
    Providers,    \* the connections, in the order a search visits them
    MaxTokens,    \* bound of the tokens of a connection
    MaxContent,   \* bound of changes of a vault
    MaxMade,      \* bound of the caches and generations of each connection
    MaxFailures   \* bound of failing calls to the vault

Connections == {Providers[k] : k \in DOMAIN Providers}

VARIABLES
    token,      \* token[p]: the stored token
    changing,   \* connections whose token was stored and whose client was not yet reset
    content,    \* content[p]: the state of the vault
    client,     \* clients: the token a client was made from, 0 when there is none
    version,    \* versions: resets of a connection
    cache,      \* caches: the index of a connection
    handles,
    search, resolution, use,    \* the calls under way
    made,       \* identities of caches and generations handed out for a connection
    health,     \* health[p]: the version its report is about
    failures

vars == <<token, changing, content, client, version, cache, handles, search, resolution,
          use, made, health, failures>>

NoCache == [entry |-> 0, generation |-> 0, listing |-> <<>>, fresh |-> FALSE,
            job |-> "none", conn |-> 0]
Idle == [at |-> "idle"]
Unchecked == 99   \* more than any version

Init ==
    /\ token = [p \in Connections |-> 1]
    /\ changing = {}
    /\ content = [p \in Connections |-> 0]
    /\ client = [p \in Connections |-> 0]
    /\ version = [p \in Connections |-> 0]
    /\ cache = [p \in Connections |-> NoCache]
    /\ handles = {}
    /\ search = Idle /\ resolution = Idle /\ use = Idle
    /\ made = [p \in Connections |-> 0]
    /\ health = [p \in Connections |-> Unchecked]
    /\ failures = 0

-----------------------------------------------------------------------------
(* The owner changes a connection, and time passes.                         *)

\* reset: the client, the cache and the handles of the connection go.
Reset(p) ==
    /\ version' = [version EXCEPT ![p] = @ + 1]
    /\ handles' = {h \in handles : h.provider # p}
    /\ health' = [health EXCEPT ![p] = Unchecked]

\* Another token is stored (provider.put, provider.remove); 0 stands for none.
Store(p) ==
    /\ changing = {}
    /\ \A q \in Connections : version[q] + 1 < MaxTokens
    /\ \E t \in {0, version[p] + 2} : token' = [token EXCEPT ![p] = t]
    /\ changing' = changing \cup {p}
    /\ UNCHANGED <<content, client, version, cache, handles, search, resolution, use, made,
                   health, failures>>

\* adoptConnection: the index of the validated candidate replaces that of the connection.
Adopt(p) ==
    /\ made[p] < MaxMade[p]
    /\ made' = [made EXCEPT ![p] = @ + 1]
    /\ cache' = [cache EXCEPT ![p] = [NoCache EXCEPT !.entry = made[p] + 1,
                                        !.generation = made[p] + 1,
                                        !.listing = <<token[p], content[p]>>,
                                        !.fresh = TRUE]]

\* The change ends with activate, which brings its client and index along, or, when the
\* token was removed or it is not known what was stored, with reset alone.
Activate(p) ==
    /\ p \in changing /\ token[p] # 0
    /\ changing' = changing \ {p}
    /\ Reset(p)
    /\ client' = [client EXCEPT ![p] = token[p]]
    /\ Adopt(p)
    /\ UNCHANGED <<token, content, search, resolution, use, failures>>

\* Mutant of Forget: a change that may have failed leaves the client alone.
ForgetIndex(p) ==
    /\ p \in changing
    /\ changing' = changing \ {p}
    /\ Reset(p)
    /\ cache' = [cache EXCEPT ![p] = NoCache]
    /\ UNCHANGED <<token, content, client, search, resolution, use, made, failures>>

Forget(p) ==
    /\ p \in changing
    /\ changing' = changing \ {p}
    /\ Reset(p)
    /\ client' = [client EXCEPT ![p] = 0]
    /\ cache' = [cache EXCEPT ![p] = NoCache]
    /\ UNCHANGED <<token, content, search, resolution, use, made, failures>>

VaultChanges(p) ==
    /\ \A q \in Connections : content[q] < MaxContent
    /\ content' = [content EXCEPT ![p] = @ + 1]
    /\ UNCHANGED <<token, changing, client, version, cache, handles, search, resolution, use,
                   made, health, failures>>

\* CACHE_TTL passes, and so may HANDLE_TTL.
Age(p) ==
    /\ cache[p].fresh
    /\ cache' = [cache EXCEPT ![p].fresh = FALSE]
    /\ \E expired \in {{}, handles} : handles' = handles \ expired
    /\ UNCHANGED <<token, changing, content, client, version, search, resolution, use, made,
                   health, failures>>

-----------------------------------------------------------------------------
(* client(p): a promise that is shared until it fails or the connection is reset.  The
   token is loaded when it is made; whoever waits for it gets that client.               *)

Client(p) == IF client[p] # 0 THEN client[p] ELSE token[p]

Keep(p, c) == client' = [client EXCEPT ![p] = c]

-----------------------------------------------------------------------------
(* refresh(p).                                                              *)

Report(p) == health' = [health EXCEPT ![p] = version[p]]

\* refresh of a connection that has no index, or an old one.  Within REFRESH_INTERVAL of
\* an attempt, which may be any time after one, it is refused instead.
NeedsJob(p) == cache[p].job = "none" /\ ~cache[p].fresh
Refused(p) == NeedsJob(p) /\ cache[p] # NoCache

StartJob(p) ==
    /\ NeedsJob(p) /\ made[p] < MaxMade[p]
    /\ LET entry == IF cache[p] # NoCache THEN cache[p]
                    ELSE [NoCache EXCEPT !.entry = made[p] + 1, !.generation = made[p] + 1]
       IN  cache' = [cache EXCEPT ![p] = [entry EXCEPT !.job = "list", !.conn = Client(p)]]
    /\ made' = IF cache[p] = NoCache THEN [made EXCEPT ![p] = @ + 1] ELSE made
    /\ Keep(p, Client(p))
    /\ Report(p)

\* The vaults and items are listed; another listing is another generation.
Listed(p) ==
    /\ cache[p].job = "list" /\ cache[p].conn # 0
    /\ LET listing == <<cache[p].conn, content[p]>>
           changed == cache[p].listing # listing
       IN  /\ changed => made[p] < MaxMade[p]
           /\ made' = IF changed THEN [made EXCEPT ![p] = @ + 1] ELSE made
           /\ cache' = [cache EXCEPT ![p].listing = listing, ![p].fresh = TRUE,
                          ![p].job = "none", ![p].conn = 0,
                          ![p].generation = IF changed THEN made[p] + 1 ELSE @]
    /\ Report(p)
    /\ UNCHANGED <<token, changing, content, client, version, handles, search, resolution, use,
                   failures>>

\* A call fails, or there is no token; a client that could not be made is not kept.
JobFails(p) ==
    /\ cache[p].job = "list"
    /\ cache[p].conn # 0 => failures < MaxFailures
    /\ failures' = IF cache[p].conn # 0 THEN failures + 1 ELSE failures
    /\ cache' = [cache EXCEPT ![p].job = "none", ![p].conn = 0]
    /\ \E keep \in {0, client[p]} : Keep(p, keep)
    /\ Report(p)
    /\ UNCHANGED <<token, changing, content, version, handles, search, resolution, use, made>>

\* A caller of refresh(p): it has the index, or waits for the job of an entry, or fails.
Ready(p) == cache[p].job = "none" /\ cache[p].fresh
JobOver(p, entry) == cache[p].entry # entry \/ cache[p].job = "none"

-----------------------------------------------------------------------------
(* searchAccounts.                                                          *)

BeginSearch ==
    /\ search = Idle
    /\ search' = [at |-> "next", rest |-> Providers, found |-> {}, entry |-> 0]
    /\ UNCHANGED <<token, changing, content, client, version, cache, handles, resolution, use,
                   made, health, failures>>

Account(p) == [provider |-> p, generation |-> cache[p].generation, since |-> version[p]]

\* The index of the next connection is at hand.
Collect ==
    /\ search.at \in {"next", "wait"} /\ search.rest # <<>>
    /\ LET p == Head(search.rest)
       IN  /\ search.at = "wait" => cache[p].entry = search.entry
           /\ Ready(p)
           /\ search' = [search EXCEPT !.at = "next", !.rest = Tail(@), !.entry = 0,
                                       !.found = @ \cup {Account(p)}]
    /\ UNCHANGED <<token, changing, content, client, version, cache, handles, resolution, use,
                   made, health, failures>>

SearchRefreshes ==
    /\ search.at = "next" /\ search.rest # <<>>
    /\ LET p == Head(search.rest)
       IN  /\ IF NeedsJob(p) THEN StartJob(p)
                             ELSE /\ cache[p].job # "none"
                                  /\ UNCHANGED <<cache, client, made, health>>
           /\ search' = [search EXCEPT !.at = "wait", !.entry = cache'[p].entry]
    /\ UNCHANGED <<token, changing, content, version, handles, resolution, use, failures>>

SearchFails ==
    /\ search.at \in {"next", "wait"} /\ search.rest # <<>>
    /\ LET p == Head(search.rest)
       IN  IF search.at = "next" THEN Refused(p)
                                 ELSE JobOver(p, search.entry) /\ ~Ready(p)
    /\ search' = Idle
    /\ UNCHANGED <<token, changing, content, client, version, cache, handles, resolution, use,
                   made, health, failures>>

\* The page is returned, with a handle for every account on it.
EndSearch ==
    /\ search.at = "next" /\ search.rest = <<>>
    /\ handles' = handles \cup search.found
    /\ search' = Idle
    /\ UNCHANGED <<token, changing, content, client, version, cache, resolution, use, made,
                   health, failures>>

-----------------------------------------------------------------------------
(* resolveAccount.                                                          *)

\* Mutant of Valid: the generation of a handle is not compared.
ValidWhileListed(h) == h \in handles /\ cache[h.provider] # NoCache

\* validHandle
Valid(h) ==
    /\ h \in handles
    /\ cache[h.provider].generation = h.generation

BeginResolution(h) ==
    /\ resolution = Idle /\ Valid(h)
    /\ LET p == h.provider
       IN  \/ /\ Ready(p)
              /\ resolution' = [at |-> "client", handle |-> h, entry |-> 0, conn |-> 0]
              /\ UNCHANGED <<cache, client, made, health>>
           \/ /\ IF NeedsJob(p) THEN StartJob(p)
                                ELSE /\ cache[p].job # "none"
                                     /\ UNCHANGED <<cache, client, made, health>>
              /\ resolution' = [at |-> "wait", handle |-> h, entry |-> cache'[p].entry,
                                conn |-> 0]
    /\ UNCHANGED <<token, changing, content, version, handles, search, use, failures>>

Refreshed ==
    /\ resolution.at = "wait"
    /\ LET p == resolution.handle.provider
       IN  /\ JobOver(p, resolution.entry)
           /\ resolution' = IF cache[p].entry = resolution.entry /\ Ready(p)
                               /\ Valid(resolution.handle)
                            THEN [resolution EXCEPT !.at = "client"] ELSE Idle
    /\ UNCHANGED <<token, changing, content, client, version, cache, handles, search, use, made,
                   health, failures>>

AskClient ==
    /\ resolution.at = "client"
    /\ LET p == resolution.handle.provider
       IN  /\ resolution' = IF Client(p) = 0 THEN Idle
                            ELSE [resolution EXCEPT !.at = "get", !.conn = Client(p)]
           /\ Keep(p, Client(p))
    /\ UNCHANGED <<token, changing, content, version, cache, handles, search, use, made, health,
                   failures>>

\* The item arrives; the handle is checked a last time.
Got ==
    /\ resolution.at = "get"
    /\ resolution' = IF Valid(resolution.handle)
                     THEN [resolution EXCEPT !.at = "returned"] ELSE Idle
    /\ UNCHANGED <<token, changing, content, client, version, cache, handles, search, use, made,
                   health, failures>>

\* accounts.select goes on without the catalog.
Returned ==
    /\ resolution.at = "returned"
    /\ resolution' = Idle
    /\ UNCHANGED <<token, changing, content, client, version, cache, handles, search, use, made,
                   health, failures>>

GetFails ==
    /\ resolution.at = "get" /\ failures < MaxFailures
    /\ failures' = failures + 1
    /\ resolution' = Idle
    /\ UNCHANGED <<token, changing, content, client, version, cache, handles, search, use, made,
                   health>>

-----------------------------------------------------------------------------
(* useFactors: the client is asked for once and kept while the lease lasts. *)

BeginUse(p) ==
    /\ use = Idle /\ Client(p) # 0
    /\ use' = [at |-> "using", provider |-> p, version |-> version[p]]
    /\ Keep(p, Client(p))
    /\ UNCHANGED <<token, changing, content, version, cache, handles, search, resolution, made,
                   health, failures>>

\* Mutant of Concerned: a failure is recorded whatever connection it was of.
ConcernedAlways == TRUE

\* The failure of a use says something of the connection it began with.
Concerned == version[use.provider] = use.version

UseFails ==
    /\ use # Idle /\ failures < MaxFailures
    /\ failures' = failures + 1
    /\ health' = IF Concerned THEN [health EXCEPT ![use.provider] = use.version] ELSE health
    /\ IF Concerned THEN Keep(use.provider, 0) ELSE UNCHANGED client
    /\ use' = Idle
    /\ UNCHANGED <<token, changing, content, version, cache, handles, search, resolution, made>>

UseEnds ==
    /\ use # Idle
    /\ use' = Idle
    /\ UNCHANGED <<token, changing, content, client, version, cache, handles, search,
                   resolution, made, health, failures>>

-----------------------------------------------------------------------------
Next ==
    \/ \E p \in Connections :
         \/ Store(p) \/ Activate(p) \/ Forget(p) \/ VaultChanges(p) \/ Age(p)
         \/ Listed(p) \/ JobFails(p) \/ BeginUse(p)
    \/ BeginSearch \/ Collect \/ SearchRefreshes \/ SearchFails \/ EndSearch
    \/ \E h \in handles : BeginResolution(h)
    \/ Refreshed \/ AskClient \/ Got \/ GetFails \/ Returned
    \/ UseFails \/ UseEnds

Spec == Init /\ [][Next]_vars

-----------------------------------------------------------------------------
(* Properties.                                                              *)

\* Between the listing an account was found in and the moment its references are
\* returned, its connection was never reset: a search or a resolution that began before
\* another token was activated gives nothing of the old connection away.
ResolvedAsListed ==
    [][resolution.at = "get" /\ resolution'.at = "returned" =>
         resolution.handle.since = version[resolution.handle.provider]]_vars

\* Unless a change of it is under way, a client is the one of the stored token.
ClientIsStored ==
    \A p \in Connections \ changing : client[p] # 0 => client[p] = token[p]

\* What is reported of a connection was found out about this one, not about the one
\* that its token, its client or its cache was replaced in the meantime.
HealthIsCurrent == \A p \in Connections : health[p] \in {Unchecked, version[p]}
=============================================================================
