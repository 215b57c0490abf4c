# A TLA+ development of ChromeSync

ChromeSync copies the cookies of a *source* Chrome to *receivers* through an
untrusted relay, end to end encrypted, and lets agents on a receiver ask a
broker to log a browser session in without seeing the credentials.  This
directory models its state machines, checks them with TLC on small instances,
and proves the central results with TLAPS for every value of the constants.

Paths below are relative to the repository; `src/cli/sync.js` in PROJECT.json is
`cli/sync.js` here, and the extension's `src/background.js` is
`src/src/background.js` there.

## 1. The system and its parts

| part | files | state it keeps | operations | what is hard |
|---|---|---|---|---|
| publishing | `cli/sync.js` `publishSnapshot`, `companion/protocol.js` | vault: per receiver chain key, counter, last hash and time; `pending-*.json` | one pass over the receivers: discard, skip, encrypt, advance, push, acknowledge | durable writes in order, failed pushes that succeeded, crashes |
| receiving | `cli/sync.js` `syncProfile`, `receiveSnapshot`, `applySnapshot` | vault: chain counter; `state.json`: accepted, journal, browser id; `recovery.json`; Chrome's jar | list, fetch, consume key, journal, set, delete, accept, restore offline | partial CDP batches, restarts of Chrome, lagging relay |
| source recovery | `cli/sync.js` `syncProfile` (source) | `recovery.json` with the browser id | read the jar, restore lost session cookies, save | the user logs in and out meanwhile |
| pairing | `cli/pairing.js` | vaults of both sides, invitation, request and activation files, the receiver's config entry | invite, request, export, approve, activate, revoke | every command may end between two writes and be repeated; files travel late and twice |
| relay store | `server/store.js` | files of a room | put, list, get, delete, sweep | retention, quota and a kill inside a put |
| worker relay | `worker/*.js` | objects of an R2 bucket | the same | no transaction between listing, writing and evicting |
| relay front | `server/server.js`, `auth.js`, `ratelimit.js`, `admission.js` | token buckets, admitted rooms | authentication, rate limit | a bucket at zero, buckets that are forgotten |
| file drop | `companion/drop.js`, `drop-store.js` | blobs in a shared folder, counters of both sides | export, import | either side stops between the blob and its counter; the folder arrives in any order |
| auth broker | `auth/broker.js`, `policy.js` | one state file: requests, policies, enrollments, audit; in memory: running executions, waiters | request, decide, cancel, retry, complete a takeover, revoke, enroll, retire, execute, wait, restart | decisions race executions; typing cannot be undone and its outcome may be unknown |
| browser controller | `auth/browser/controller.js` | reservations, browsers, leases, takeovers, quarantine | open, inspect, act, authenticate, take over, register, revoke, close, stop | a lease or a service goes away in the middle of an await |
| auth state store | `auth/store.js` | the state file and its lock | read, mutate, compact | a failure after the rename; a stale lock |
| auth relay commands | `auth/relay.js`, `protocol.js` | durable journal of commands | poll, execute, answer | a repeated delivery, a crash between execution and answer |
| auth runtime | `auth/runtime.js` | enrolled services, discovery epoch, services being updated | select, enroll, add, remove and switch connections | handlers that each wait and know of each other through two sets and an epoch |
| account catalog | `auth/onepassword.js`, `onepassword-catalog.js` | clients, cached vault index, handles | activate, search, resolve, adopt, use | nothing can be cancelled, and the connection changes meanwhile |
| passkeys | `auth/passkeys/*` | pending ceremony of the hub, receiver Chrome on one profile | create, get, cancel, prepare, restart, release | messages of both peers arrive late; opening and closing overlap |
| session handoff | `auth/session-handoff.js` | pin of a profile | import | a stop between two writes to the browser |
| extension | `src/*.js` | `chrome.storage.local`: pending, last sync, alarm flag | on change, on alarm, sync now | the service worker stops at any await |
| profile lock, vault, CDP, HTTP clients | `cli/config.js`, `companion/keychain.js`, `cdp.js`, `relay-client.js` | none of their own that outlives a process | | the models take a lock holder, a durable variable, a partial failure |

How they interact: `cli/index.js watch` calls `syncProfile` for each profile
under the profile lock; the source's publishes and the receiver's listings meet
only in the relay's room; pairing changes the set of channels under the same
lock as publishing.  The runtime registers services at the controller and
enrollments at the broker; the broker calls the controller (a lease per
session) and the provider (catalog or passkeys), and is called by the owner's
front ends, by agents and by the auth relay.  All of them keep what lasts in the
state store.

What makes each part correct is stated as the properties of section 3; the list
of hazards they answer, at their lines, is `hazards` in PROJECT.json.

## 2. Modules

| module | what it is |
|---|---|
| `Snapshots` | cookies, jars and snapshots: constants and operators shared by the sync modules |
| `SourcePublish` | `publishSnapshot`; one action per durable write and per call, `pc` names the line the run is at |
| `SnapshotLedger` | abstract: what a source promises each receiver is an append-only ledger with one entry per counter |
| `ReceiverSync` | the receiver's `syncProfile` against an arbitrary relay and source |
| `CookieSync` | composes instances of `SourcePublish` and `ReceiverSync` with the relay's retention and the user; liveness |
| `SourceRecovery` | the source's `syncProfile` before it publishes |
| `Pairing` | both sides of the ceremony |
| `RelayStore` | a room of the self-hosted relay |
| `WorkerStore` | a room of the relay on Cloudflare |
| `RelayGate` | what a request passes before the store: rate limits, token, admission |
| `FileDrop` | cookies through a shared folder |
| `AuthBroker` | the broker with the controller's lease |
| `BrokerWait` | callers that wait for the outcome of a request |
| `BrowserSessions` | the controller: which browsers run, who may use one, when one is given up |
| `Enrollments` | `auth/runtime.js`: enrollments, services and the connection, changed by overlapping handlers |
| `AccountCatalog` | clients, refresh jobs, handles and resolutions of the credential vault |
| `AuthStore` | the state file and its lock, system call by system call |
| `Passkeys` | a ceremony between sender extension, hub, receiver extension and page |
| `PasskeyReceiver` | the one receiver Chrome on its profile |
| `SessionHandoff` | the pin of a profile and the import of a session |
| `AutoSync` | the extension's automatic sync with its flags and alarms |
| `CommandService` | abstract: a command that changes something runs at most once, and answers are true |
| `CommandJournal` | `auth/relay.js`: callers, room, executor and its durable journal |
| `SourceProofs` | TLAPS (section 4), over `MCSource`: `SourcePublish`, `SourceRecovery`, `Pairing` |
| `ReceiverSyncProofs` | TLAPS, over `ReceiverSync` and `CookieSync` |
| `RelayProofs` | TLAPS, over `MCRelay`: `RelayStore`, `WorkerStore`, `RelayGate`, `FileDrop` |
| `AuthBrokerProofs` | TLAPS, over `MCAuthBroker`: `AuthBroker` |
| `CommandJournalProofs` | TLAPS, over `CommandJournal` |
| `BrowserProofs` | TLAPS, over `MCBrowserSessions`: `BrowserSessions`, `PasskeyReceiver` |
| `ExecutorProofs` | TLAPS, over `MCExecutor`: `SessionHandoff`, `AuthStore`, `BrokerWait`, `Enrollments`, `AccountCatalog` |
| `ExtensionsProofs` | TLAPS, over `MCExtensions`: `Passkeys`, `AutoSync` |
| `MC*` | instances for TLC: symmetry sets, model values and properties under one name |

**Instances of several parts.**  `MCSource`, `MCRelay`, `MCExtensions`,
`MCBrowserSessions` and `MCExecutor` hold several components that share no
state.  A variable `part`, chosen initially, says which one the behaviour is of,
and the others stay as they were initially: the states are the sum of those of
the parts and never their product, and each part is checked exactly as if it were alone.
Where one part does touch another, a module that models the touch exists:
`CookieSync` for source, relay and receiver, `AuthBroker` for broker and lease.

**Correspondence.** A JavaScript function that awaits or writes several times is
a program counter and one action per step; code between two awaits of a single
process is one action.  A run that may end anywhere has one `Abort` or `Restart`
(exception, kill, reboot: memory goes, the lock is released, what is durable
stays).  Disk files, the vault and the relay are durable variables, locals of a
run are variables that the end of the run empties.  Variables marked *history*
are read by properties only.  Operators commented *Mutant of X* are plausible
wrong versions of X, which no specification uses.  `map` in PROJECT.json gives
the lines of every definition.

*Data.*  A cookie is a member of `Cookies`, what a source collects is opaque
(`Contents`) in `SourcePublish` and a jar elsewhere.  Encryption is what it
does: a ciphertext is a record nobody changes, under one counter of one chain;
that a consumed key is gone is `chan` moving past the counter.  The HMAC of the
cookies is the cookies.  Both machines read one clock; ages are differences of
it.  Profile locks are one run at a time; a lock ends with its process because
it is a bound port (`cli/config.js`).  `state.counter` of a source, which only
labels its backup, is left out.

*Synchronisation.*
- `SourcePublish`: `Begin(s)` is the call with the collected cookies `s`;
  `DiscardStale`, `SkipUnchanged`, `WritePending`, `RetryPending` are the four
  branches at lines 157–166, `Advance` stores the next chain, `PushStored` and
  `PushFailed` (after the relay stored it, or not) are line 171–174,
  `RecordAck`, `RemovePending`, `Finish` the rest.  `Approve` and `Revoke` are
  what pairing does to the same vault, a revocation in two writes.
- `ReceiverSync`: `List`, `ListNothing`, `ListFailed` (the offline path),
  `FetchRecovery`/`FetchRelay`, `Commit`, `Connect`, `Journal`, `SetAll` or
  `SetPartly`, `Delete` one by one, `SaveRecovery`, `Accept`.  `Throw` are the
  exceptions the code raises by itself.  `Environment` is a source that
  publishes growing counters, a relay that lists any part of what was published
  and changes its mind, Chrome and the sites in it.
- `CookieSync` replaces that environment by `SourcePublish` and the relay's
  retention, and checks that it is an environment of `ReceiverSync`
  (`ImplementsReceiver`).
- `SourceRecovery`: read, restore, read again, save; `LogIn`/`LogOut` at any
  time; `RestartChrome` loses session cookies.
- `Pairing`: each action is a command up to its next durable write; actions
  whose last write may be missing choose it (`\in {x, x \cup {r}}`).  Files once
  written may be presented at any later time, again, and by anybody.
- `FileDrop`: an export writes its blob, then its counter; blobs reach the
  importer's folder one at a time in any order; an import injects each blob that
  is newer than the counter in memory and saves the counters once, at its end.
- `AutoSync`: every handler is a slot that runs from await to await beside the
  others (`Step`); `Change`, the two alarms, the idle and startup events start
  handlers, `Stop` ends all of them, and a restart of the browser may take the
  alarms along.  The collected cookies are the number of the last change in them.
  An alarm comes half a minute after it was set at the earliest, and a handler
  that only reads and writes flags (`Brief`) takes less: the coalescing alarm
  fires when those under way at its last setting or marking have finished
  (`early`).

*Relays.*
- `RelayStore`: handlers are synchronous in one process, so a put is one action,
  or `PutKilled` when the process dies between its steps.
- `WorkerStore`: a request is a step between two calls to the bucket (write,
  retain, trim, undo); requests overlap, `Cut` ends one in the middle, and
  deletes of expired keys (`ctx.waitUntil`) run late.  A listing is the set of the
  objects there are, each with its rank among those of its host (`Newer`); the
  bucket keeps them in the order of their upload, and any object may expire at any
  time.  `Settled` (history) says whether another PUT under way could still undo the
  one that is answered.
- `RelayGate`: `Rejected`/`Authorized` are a request through the checks of
  `onRequest` in their order.  The buckets are a map that forgets; beside each
  stands a ledger that does not, and the properties compare the two.

*Authentication.*
- `AuthBroker`: `rows` is the state file's requests; `Set` is `setState` and
  `Current` is `expire`, which most mutations begin with.  An execution is
  `Select, Inspect, Enter, Authorize, Retrieve, Recheck, Fill, Report` with
  `Catch` and `Attempt`, one per await; calls that inspect before they commit
  are two actions (`BeginRequest`/`CommitRequest`, `BeginRetry`/`CommitRetry`,
  `BeginComplete`/`CommitComplete`).  `Upset` bounds what only disturbs:
  deadlines, removed devices and providers, ended sessions, store failures,
  restarts.
- `BrokerWait`: a waiter looks, registers, looks again and sleeps; a change is
  committed by one step and announced by another, or not at all when the commit
  reports a failure (`silent`).
- `BrowserSessions`: opening is reserve, launch, start and publish; closing
  waits for the browser and may fail.  `SetService`, `RemoveService`,
  `CloseRequester` and `Close` change what the openings under way were checked
  against.  A lease that is gone may still
  have a fill on its way (`sending`), which the quarantine is for.
- `Enrollments`: one action per await of `accounts.select`, `enrollment.put`,
  `provider.put`, `provider.remove` and `provider.discovery`.  `updating`,
  `blocked` and the epoch are the sets and the number of the runtime; a store
  call may fail before or after its effect, a restart rebuilds memory.
- `AccountCatalog`: a refresh, a search, a resolution and a use of factors are
  each a record of where they stand and of the version of the connection they
  began with; `version` is a history of resets.
- `AuthStore`: a process links the lock, reads a foreign one, asks whether its
  pid lives, removes it, loads, writes, renames and unlocks, each a system call.
- `CommandJournal`: `Call`, `CallUnanswered`, `PushAgain`, `Receive` and `GiveUp`
  are the caller; `Open` is one entry of the poll, from its read to the start of
  the execution (nobody else can start one of the same command meanwhile).  An
  execution is reserve, run, commit, push, clean, one per await; `Fail` ends it
  at any of them, which with the step before or after it left out is a call that
  throws before or after its effect.  The four `Reserve...`/`QueueFull` actions
  are the branches of the mutator at lines 133-148.  Compaction begins every
  mutation of the state file, so it is part of each.  Rows of other devices are
  a number chosen at each reservation, `OtherCleanups` of them cleanups (`Counts`).  Which reads are ephemeral is
  chosen at `Open`.  What a dispatch gives, value or error, is "result"; "error"
  is left for a revoked device.
- `Passkeys`: four queues between sender, hub and receiver, each in order; the
  hub asks for the state of the lease twice and handles one message per peer at a
  time.  The page and the holder of the lease never have to do anything.
- `PasskeyReceiver`: `prepare`, `release`, the restart after a loss and `close`
  of `provider.js`, one action per await.  `await releasing` of nothing resumes
  before any further event, so it is a step only while something is released.
- `SessionHandoff`: the pin is written wide, cookies are set in part, removed one
  by one, verified, and the pin is narrowed; an import may stop between any two.

## 3. Runs

Sizes are TLC's distinct states.  A run listed as *violation* shows a
disagreement between the code and its own words (section 6).

| run | parts | bounds | states | properties |
|---|---|---|---|---|
| `source` | publishing | 2 receivers, 2 contents, 2 counters, clock 0–1 | 239 k together | `CounterNamesOneSnapshot`, `NewestNotLost`, `RevokedIsSilent`, `ImplementsLedger` |
| | recovery | 2 cookies, 1 value, clock 0–2, 3 Chrome processes | | `RestartIsNoLogout`, `LogoutStands` |
| | pairing | 3 invitations, 3 receivers, limits of 2, time to live 2, clock 0–3 | | `PairingIsExclusive` |
| `receiver_sync` | | 2 cookies (one a session cookie), 1 value, 2 counters, clock 0–1, 2 Chrome processes | 1.7 M | `JournalCovers`, `LogoutReachesReceiver`, `NeverRollsBack` |
| `cookie_sync` | | 1 cookie, 4 counters, clock 0–1, 2 Chrome processes, 1 change, 1 failure, retention 2 | 177 k | `ImplementsReceiver`, `EventuallyMirrors` |
| `relay` | server | 2 hosts, 3 counters, 2 sizes, retention 2, room of 3 blobs and 4 bytes, time to live 3, clock 0–5 | 826 k together | `RoomsWithinQuota`, `PutsAreListed`, `HostKeepsNewest` |
| | worker | 1 host, 2 requests at a time, 5 counters, retention 3, room of 2 objects and 1 byte, 1 cut, 1 late delete | | the same three |
| | gate | 2 addresses, 4 rooms of which 3 are admitted, buckets of 1 and 2 tokens, 2 buckets kept, clock 0–5 | | `LimitsAreExact` |
| | folder | 2 hosts, 2 counters, 2 failures | | `NeverBehind` |
| `auth_broker` | | 2 requests, 1 session, 2 enrollment versions, 1 policy, 1 call in flight, 1 upset | 2.2 M | `TypedOnceAlone`, `NoStaleAuthority`, `UncertaintyKept`, `SuccessWasSeen`, `DecisionsStand` |
| `command_journal` | | 3 commands (a change, a cleanup, a read) of which 2 are called, journal of 3 rows and 2 reserved, 1 cleanup of another device, message life 1, clock 0–2, 1 failure | 269 k | `RunsOnce`, `ImplementsService`, `CleanupServed` |
| `browser_sessions` | controller | 3 ids, 3 requesters, 1 service, limits of 2 and 1, 3 changes, 1 failed close, 2 leases | 359 k together | `WithinLimits`, `PublishedIsCurrent`, `QuarantineHolds` |
| | receiver | 3 sessions, 2 losses, 1 failure | | `WithinLimits` |
| `executor` | enrollments | 1 service, 2 browsers, 2 configurations, 1 removal, 1 upset | 2.5 M together | `NoMixedConfiguration`, `SelectedIsConnected` |
| | catalog | 2 connections, 2 tokens, 1 change of the vault, 1 failure | | `CatalogIsCurrent` |
| | store | 3 processes, 3 mutations, 1 death | | `DoneStays` |
| | handoff | 2 accounts, 3 cookies, 4 imports | | `PinCovers` |
| | waits | 3 callers of 2 requesters on 2 rows, limits of 2 and 1 | | `WaitersAreServed` |
| `extensions` | passkeys | 2 requests, 2 leases, 1 reconnect | 253 k together | `AnsweredOnce`, `AssertionSpendsLease`, `NothingInTheWay`, `EveryCeremonyEnds` |
| | sync | 2 handlers at a time, 3 changes, 1 stop, 1 failed push, 2 sinks | | `ChangeNotForgotten`, `EventuallyPublished` |
| `restore_once` | recovery | 2 cookies, clock 0–2, 3 Chrome processes | – | `RestoredOncePerProcess`: violated |
| `retirement_uncertain` | | as `auth_broker` | – | `RetirementKeepsUncertainty`: violated |
| `removal_is_complete` | enrollments | as in `executor` | – | `RemovalIsComplete`: violated |

What the properties say, and the code each is about, stands in the comment
before each of them.  Some names of a run stand for two properties of two parts:
`RoomsWithinQuota` and `PutsAreListed` are the same promises of the two relays,
`HostKeepsNewest` is that no put costs a host its newest blob, but a refused one of
that blob's own name in the two cases the property states (server), and that neither
overlapping puts nor late deletions take a host's newest object and all newer ones
(worker), `LimitsAreExact` that forgetting
buckets makes the limiter neither weaker nor stricter, `WithinLimits` that no
more browsers and no second receiver run than allowed, `TypedOnceAlone` that
credentials are typed once per request and by one request per session,
`NothingInTheWay` that neither the hub nor the page of the receiver finds an
earlier request, `WaitersAreServed` that no waiter misses a change and none is
counted twice, `CatalogIsCurrent` that accounts, clients and health are those of
the connection there is.  Every property has a mutant in PROJECT.json, a
plausible bug of the code under which TLC finds it violated.  `TypedOnceAlone` is
checked with one call between its inspection and its commit; two that race there are
left to the theorem `TypedAlone`, which has no such bound.

**Why the bounds suffice.**  Two counters let a retry meet a newer snapshot and
a second key replace the first; a third repeats the second.  A clock of two
instants with the refresh age and the time to live at one instant or none puts a
snapshot on both sides of each age check.  Two cookies, one of them lost on a
restart, separate a removed cookie from a lost one.  Two
Chrome processes give a restart at every step, three in the recovery a
second one.  In pairing, three of each and limits of two reach both limits.
In `auth_broker` the second row is the request that races, replaces (retry) or
waits behind the first; decisions, policies and new enrollments have bounds of
their own, and one upset (a deadline, a removed device or provider, an ended
session, a failed write, a restart) falls between any two of them.  In
`command_journal` two called commands and the rows of other devices reach every
branch of the admission (two rows are reserved, one of them may hold a cleanup of
another device, so the reserve fills too), one failure is a repeated delivery at any step, and two
lives of a message let a row be dropped; with two failures and without liveness
TLC finds nothing either (1.1 M states).  Two requests of the worker interleave
at every call, and one that was cut leaves a third object behind, so retention finds
something to delete while they overlap.  `Worker!HostKeepsNewest` is promised under the
condition `Overlap < Keep`, and for objects that are settled, and not threatened by a
waiting deletion, when they are answered.  TLC finds it violated without either:
with two overlapping PUTs and three kept objects, a retried PUT of the
same counter that is refused for the quota takes back, by its name, the object its twin
was answered 204 for (`companion/drop.js:96-100` retries a PUT whose answer was lost),
a retention that listed the room before may delete an object accepted since, and a
deletion of an expired object takes the one put under its name in the meantime
(section 6).  In the same way TLC reaches both exceptions of `RefusalKeepsNewest`:
without either the property is violated.
In the automatic sync, two changes cannot tell a handler that was delayed past an
alarm from one in time; the third can.  Two buckets kept and three keys force the limiter to forget.  In the
controller three browsers against limits of two and one reach both limits while
one closes.  Two connections show what a reset of one does to the listing of
both; three processes are the two that find the lock of a third.  In
`extensions`, a second request meets what the first left behind at each party.

Out of reach of these bounds: the limit of 64 executions of the journal, and
`MaxJump` (100000 in the code) of `receiver_sync`, so the branch of `Throw` it
guards is not exercised; a receiver that far behind stops by design.

**Deadlock** is checked in `receiver_sync`, `cookie_sync` and `restore_once`.
Elsewhere a behaviour may really end: ceremonies end once every invitation was
issued and the clock stands at its bound (`source`), a room whose hosts used their
counters has nothing to do (`relay`), a revoked requester or a closed session
with nothing open leaves nothing to do (`auth_broker`), every command may be
answered (`command_journal`), a stopped controller and a closed provider have
nothing left (`browser_sessions`), and so have callers that were answered
(`executor`) and an agent that makes no further request (`extensions`).

**Fairness.**
- `CleanupServed` says that a cleanup that waits in the room is executed once failures
  stop, unless it expires or the device is disabled first; a refusal or an uncertain
  answer does not count.  It is stated for as many cleanups at a time as rows are
  reserved (128 in the code): beyond these the reserve itself is full, and a cleanup
  waits like any other command.  It assumes that the poll opens again and again every command that
  stays openable (`SF` of `Open`: `auth/cli.js:151` polls each second and
  `processPeer` walks the whole listing, as long as the room lists fewer than the
  100 entries one poll looks at) and that executions go on (`WF`: every call has
  a time limit).  Callers, the clock, failures and revocation are not fair.
- `EventuallyMirrors`: once paired, the receiver's cookies are at last those of
  the source and stay so.  It assumes weak fairness of the source's steps other
  than failures, and of the receiver's run: `chromesync watch` is kept alive by
  the service manager, syncs every profile each interval and goes on after an
  error (`cli/index.js:173-195`), and within a run every call has a time limit.
  Pairing, browsing, the clock, restarts and failures are not fair; failures are
  bounded by `MaxFaults`, which is the usual "once the network is back".  The
  sweep is not fair either.
- `EveryCeremonyEnds` assumes weak fairness of four timers and lookups of the code
  alone: the sender's look at its request either sends it or fails, the sender's,
  the hub's and the receiver's time limits fire.  Neither the person at the page,
  nor the holder of the lease, nor the delivery of any message is fair.
- `EventuallyPublished` assumes that handlers go on from await to await (`WF` of
  `Step`) and that the periodic alarm, which Chrome keeps over stops of the
  worker, is served again and again (`SF`).  Changes, stops and failed pushes are
  bounded and not fair.

## 4. Proofs

Each theorem below holds for every value of the constants that the modules' own
assumptions allow, and of the further assumptions a theorem states.  All of them
have the same shape: none of the properties is inductive alone, a strengthening
is; `Init => IInv` and `IInv /\ [Next]_vars => IInv'` are proved with one lemma or
step per action, and the theorem follows.  A module that composes parts gives each
part an invariant of its own and shows that a step of the whole is a step of the
part or leaves its variables alone; `Spec` is the specification of the composition
(`MCSpec` where the module is an MC one).

| module | theorem | statement |
|---|---|---|
| `SourceProofs` | `TypeCorrect` | the types of `SourcePublish` |
| | `CounterUnique` | `[]CounterNamesOneSnapshot` |
| | `ErasedBeforeSent` | `[]ChainErasedFirst` |
| | `NothingLost` | `[]NewestNotLost` |
| | `SkipCorrect` | `[]SkipIsSafe` |
| | `RevokedSilent` | `RevokedIsSilent` |
| | `LedgerImplemented` | `ImplementsLedger` |
| | `PairingTypeCorrect`, `PairingExclusive` | the types of `Pairing`; `[]PairingIsExclusive` |
| | `RecoveryTypeCorrect` | the types of `SourceRecovery` |
| | `RestartNoLogout`, `LogoutIsFinal` | `[]RestartIsNoLogout`; `LogoutStands` |
| `ReceiverSyncProofs` | `ReceiverTypeCorrect` | `[]TypeOK` |
| | `JournalIsComplete` | `[]JournalCovers` |
| | `LogoutArrives` | `[]LogoutReachesReceiver` |
| | `AcceptedApplied` | `[]AcceptedIsApplied` |
| | `ConsumedRecoverable` | `[]ConsumedIsRecoverable` |
| | `NoRollback` | `NeverRollsBack` |
| | `PairImplementsReceiver` | `ImplementsReceiver`, of `CookieSync` |
| `RelayProofs` | `QuotasHold` | `[]RoomsWithinQuota`, of both relays |
| | `AnsweredIsListed` | `[]PutsAreListed`, of both |
| | `NoHostIsErased` | `HostKeepsNewest`, of both |
| | `LimitsExact` | `[]LimitsAreExact` |
| | `BrowserNotBehind` | `[]NeverBehind` |
| `AuthBrokerProofs` | `BrokerTypeCorrect` | `[]TypeOK` |
| | `AuthorityIsCurrent` | `[]NoStaleAuthority` |
| | `OnceTyped`, `TypedAlone` | `[]TypedOnce`; `[]TypedOnceAlone` |
| | `UncertaintyStays` | `[]UncertaintyKept` |
| | `SuccessIsSeen` | `[]SuccessWasSeen` |
| | `DecisionsKept` | `DecisionsStand` |
| `CommandJournalProofs` | `JournalTypeCorrect` | `[]TypeOK` |
| | `DispatchedOnce` | `[]RunsOnce` |
| | `ToldOnce` | `[]OneAnswer` |
| | `ServiceImplemented` | `ImplementsService` |
| `BrowserProofs` | `SessionsTypeCorrect`, `ReceiverTypeCorrect` | the types of both parts |
| | `OnlyCurrentPublished` | `[]PublishedIsCurrent` |
| | `QuarantineStays` | `[]QuarantineHolds` |
| | `CapacityHolds`, `OneChromeOnProfile`, `LimitsHold` | the limits of the controller, of the receiver, and `[]WithinLimits` of both |
| `ExecutorProofs` | `PinIsComplete` | `[]PinCovers` |
| | `MutationsStay` | `[]DoneStays` |
| | `SleepersAreServed` | `[]WaitersAreServed` |
| | `NoBrowserIsMixed` | `[]NoMixedConfiguration` |
| | `SelectionsStayConnected` | `[]SelectedIsConnected` |
| | `CatalogStaysCurrent` | `CatalogIsCurrent` |
| `ExtensionsProofs` | `ChromeHearsOnce` | `[]AnsweredOnce` |
| | `LeasesAreSpent` | `[]AssertionSpendsLease` |
| | `NothingStandsInTheWay` | `[]NothingInTheWay` |
| | `ChangesAreNoted` | `[]ChangeNotForgotten` |

`ChainErasedFirst`, `SkipIsSafe`, `AcceptedIsApplied`, `ConsumedIsRecoverable` and
`OneAnswer` are no longer among the properties of a run, since a theorem says more.

**Publishing.**  For all numbers of receivers, contents, counters and crashes
(`None` is no content, receiver or blob; bounds are natural numbers).  `IInv`
says where a pending file can be while the run is at each line: its counter is
the channel's, or one ahead of it only while nothing of it has left; everything
emitted under the newest counter equals the pending file while there is one;
what is stored was emitted; a run never stands at a revoked receiver.
`LedgerStep` shows that a step appends to the ledger exactly when a pending file
is pushed for the first time, and stutters otherwise.

**Restoring.**  What is owed to the user, lost on the exit of Chrome and still in the
backup, is missing in Chrome, and no backup was taken from this Chrome process since
(`OwedInv`).  A run that is still connected to this process read a jar without it, and
when it goes on to save a backup having had nothing to restore, nothing is owed or the
backup is too old (`ReadInv`).

**Receiving.**  Against any relay that holds a part of what the source published,
any jar, and any number of Chrome processes, failures and site changes.  The
invariant is about what a run carries: from `Connect` on, its snapshot is
the published one of the consumed counter (`RunInv`), so accepting it cannot
lower a counter; the journal read at the start bounds what can be in the jar at
each line (`JournalInv`), so an accepted snapshot leaves nothing else behind;
and once written to the Chrome process the run is connected to, the jar holds it
but for drift (`JarInv`), which is why the identity recorded has to be that of
`Connect` and not of the end of the run.  `DiskInv` ties the recovery file to the
key chain.

**Source, relay and receiver together.**  `PairImplementsReceiver` says that
`CookieSync`, with any retention, bounds and failures, is one of the environments
that `ReceiverSync` allows, so the six theorems before it hold of the pair.  The
invariant (`BehindInv`) is about the pending file: its counter is the newest or one
ahead, what was sent under that counter is the same snapshot, nothing of a later
counter was sent, and while the run pushes it is of the newest.  A push then either
sends a counter above all earlier ones, which is `Publish`, or repeats what was sent,
which is `RelayChanges`; retention and expiry only ever remove (`KeptPart`).

**Pairing.**  Assuming `MaxTime` and `InviteTtl` are natural numbers.  The
properties rest on what copies of the files can say: a device answers one
invitation in its life, so any request that names it names that invitation
(`FilesInv`), and an invitation that let a device in is not issued again
(`GrantedInv`).

**Relays.**  Assuming `PartsAssumption` of `MCRelay`: finitely many requests, and
bounds and sizes that are natural numbers.  Both stores promise sums, and a sum over a
set has no induction here, so the lemmas are about one object that comes or goes, and
about subsets (`BytesMonotone`).  The server's PUT is one step: what it evicts makes room
for what it adds, and a blob replaced by none larger leaves the room as full as it was
(`ReplacedFits`), so a refusal of that PUT means a room that was over its quota before.  In the worker what counts are the objects that no PUT under way may
still take back (`Finished`): these alone are within the quota (`QuotaInv`), and among
them is the newest object owed, or a newer one (`NewestInv`).  What a retention is about
to delete is outnumbered by one of them (`OutnumberedInv`), because fewer PUTs of a host
overlap than objects are kept.  A deletion that waits is of nothing that is owed, nor of
anything as new as what a host is owed (`LateInv`): what is found expired is owed no
longer, and what is answered while it is threatened never was.  A limiter is never stricter than the ledger beside it,
and as strict until more buckets are wanted than are kept (`StrictnessInv`): a bucket
that is forgotten earlier is one that has refilled.

**File drop.**  Assuming finitely many hosts and `MaxCounter \in Nat`.  The
counters in memory are between those on disk and those of the browser, and a
blob under injection is newer than either (`ReplayInv`).

**Broker.**  Nearly every step only moves rows on: it settles them, uses their
grant up or makes them stale, and gives them no authority (`Moves`, which is
transitive).  The exceptions are a new request, a retry and the two ways of
approving (`Made`).  What an execution may still do is read off its step and its
row (`Stage`): a row whose credentials were typed is never pending or approved
again, so no execution of it begins, and the one that typed is reporting,
catching, or back at the sink, which refuses a second call.  A call that saw a
login looks at a session with one (`CallOK`), which is what success rests on.
`TypedAlone` and `UncertaintyStays` need a second invariant on top (`CeremonyInv`): a
session's lease belongs to exactly the execution that stands at a step inside it
(`LeaseHeld`), only one row of a session is open (`OpenAlone`), and a row whose
credentials were typed never stops saying so (`Accounts`), because the execution still
holds what it supplied when it reports (`Knows`).  `Turns` is the counterpart of `Moves`.

**Command journal.**  Assuming `MaxStall <= MessageTtl`, stated in each theorem:
the reservation follows the opening within a message's life.  The code does not
check it; section 6 says what happens otherwise.  The invariant is a conjunction over the
commands, so a step about one command
has to be examined for that one only: `Bystander` covers the others, whose rows
a compaction may drop.  `RowInv` reads the past off the row on disk, as long as
the row cannot have been dropped: no row, nothing was done; a row without an
answer, nothing was said; a row with one, nothing else was said.  `Timely` is
where the assumption enters: a command about to be reserved is not `Dropped`.
`ServiceStep` maps `Run` to the service's, `Receive` and `GiveUp` to its answers
and every other step to a stutter.

**Browsers.**  Assuming finitely many ids.  Publishing needs that whatever was
retired while it was opened is cancelled, which the last check before the
publication sees (`OpeningInv`); the quarantine, that what was typed never
outlives it (`UseInv`); the limits, that the reservations are exactly the
browsers there are (`CapacityInv`).  One session at a time is released,
and none while one is active (`ReleaseInv`); a receiver Chrome belongs to one of these
two, and where one runs none is being launched (`StartInv`).

**Handoff.**  An import under way is the last one, of the account of the pin, and
until the pin is narrowed it names everything the import may leave or find
(`ImportInv`).

**State file.**  Who is about to take a lock away has seen its holder dead (`DeadInv`).
As long as no lock was taken away by mistake (`mistaken`, section 6), who is between
taking the lock and releasing it has it, what it read is what is in the file until it
replaces it, and what it wrote is there (`HeldInv`).

**Waits.**  Assuming finitely many callers and numeric limits (`WaitersAssumption`).
A caller that sleeps knows the last word on its row, or the announcement is still to
come; the counts are the cardinalities of the registered calls, and a call that ends
takes exactly itself out (`CleanStep`, `NumberLeft`).

**Enrollments.**  Assuming that 0 is no configuration (`ConfigsAssumption`).  Of the
handlers of a service one at a time may change it (`OwnInv`), and a browser is not bound
before its select binds it (`BrowserInv`).  Until something is removed, the map of a
service is of its enrollment, and gone while another is being saved; so what a browser was
given is configured as its service is enrolled (`MixedInv`).  Across removals, a select
whose epoch is still the current one chose after the last removal, and a browser that was
selected rests on a token, is on the list to be closed, or is one of `lost`
(`ConnectedInv`).  TLC checked the invariant on two removals and three epochs (7.0 M
states) before it was proved.

**Catalog.**  Assuming finitely many connections (`VaultsAssumption`).  Generations
do the work (`GenerationInv`): a reset gives the index a generation that no account
has, so an account of the present generation was found since.  This covers accounts
that a search found before a reset and hands out after it: `Reset` does not see them,
and `Valid` refuses them.

**Passkeys.**  Queues are in order, so before the next request is read each one the hub
has, or is about to read, was given up (`GetsInOrder`); of a request the hub has not heard
of it has no trace (`HeardOnce`); what runs in the page is the receiver's request or is
waited for (`PageInv`).  A look at the lease is of the pending request and of the lease
that authenticates, and is the only one (`ChecksAreOwn`); a lease is asked for one request
(`LeaseInv`).

**Automatic sync.**  While the worker runs, a flag that says an alarm is set has the
alarm, or a handler it started that decides (`AlarmStands`); while the alarm stands a
change is noted, and who is about to set it again began before (`EarlyAreKnown`); so one
handler decides at a time, on flags that nobody is half way through writing
(`DecidesAlone`), and a change that was not collected waits for the alarm or for a handler
(`NoteTaken`).  The attempt to prove this found a fault of the model, not of the code: the
alarm could fire while a handler from before it was still under way, which takes half a
minute of a handler that takes milliseconds; with three changes TLC shows
`ChangeNotForgotten` false then.

## 5. What is only model-checked, and what is not modelled

Model-checked only is liveness (`EventuallyMirrors`, `CleanupServed`, `EveryCeremonyEnds`,
`EventuallyPublished`), which is out of the prover's reach.

Also out of its reach are `ENABLED` and induction over data: sums over sets and
sequences are proved about by the one element by which they change.

Left out of what is modelled:
- `AuthBroker`: the preview inbox, listings and history pages, capacity limits,
  audit; of the controller, pages, frames, handles and adaptive discovery
  (`auth/browser/page.js`, `adaptive.js`); one service and one requester stand
  for all.
- `BrowserSessions`: what a page shows, except whether something secret that was
  typed is still in it.
- `Enrollments`: the commands that only read, and the forwarding to broker and
  controller.
- `AccountCatalog`: `checkConnection` of `auth/onepassword.js` (lines 163–182),
  pages and cursors of a search, and the runtime's bound of one catalog call at a
  time, without which the model allows more interleavings than the program.
- `AuthStore`: encryption, compaction and size limits.
- `CommandJournal`: the tidying of answered and outdated entries from the room
  and the count of rejected envelopes; one device's commands stand for each
  device's.
- `Passkeys`, `PasskeyReceiver`: framing and WebAuthn encodings, the registration
  of sessions by extension id, native host files; the close of the sender's socket
  (`hub.js:152-158`, `extension/runtime.js:99-101`), after which `provider.js:116-118`
  releases the session, so that no sender reconnects to it.  A receiver Chrome that would
  not close is forgotten by the code, so `OneReceiver` does not count it.
- `AutoSync`: the terminal binding, pulling from the relay, `syncOnChange` switched
  off.
- `RelayStore`: HTTP; `RelayGate`: signatures, metrics, framing; `WorkerStore`: the
  platform's rate limit, signatures, the monitor.
- `Pairing` takes signatures, fingerprints and seals at their word; `FileDrop`
  leaves out encryption and the optional limit of a blob's age.

Not modelled at all: the user's front ends and extension pages, command lines,
installers and the service, adapters of single sinks, encodings and cryptographic
formats, and code of which the models take the outcome as a choice: the HTTP
clients, the CDP connection, the profile lock and the credential vault.
PROJECT.json has the reason of each.

## 6. Where the code and its words part

Shown by a run:
- `restore_once`: "Restore only missing session cookies once per browser
  process" (`cli/sync.js:73`).  The identity of the process is recorded by the
  backup at line 84, after the cookies were set at line 78; a run that ends in
  between restores again.
- `retirement_uncertain`: "Removal preserves `authentication-uncertain`"
  (`docs/authentication.md:106`).  A request cancelled while its credentials
  were typed is uncertain without a diagnostic, and `retireProvider`
  (`auth/broker.js:877`) makes a plain cancellation of it.
- `removal_is_complete`: "Remove connection ... removes selected accounts and
  browser services" (`docs/authentication.md:104`).  A selection that has resolved
  its account saves its enrollment (`auth/runtime.js:189`) without looking at the
  connection again; if the removal retired the enrollments before, it answers
  "removed" and the enrollment stays.  The check at line 197 refuses the
  selection afterwards and removes no enrollment.

Met while modelling, and excluded by a bound, a guard or a condition of a
property, named here:
- *Late reservation.*  "Durable command records prevent delivery retries from
  re-executing committed mutations" (`docs/authentication.md:148`).  The mutation
  that reserves a command (`auth/relay.js:133`) drops old rows by the time it
  runs at and then looks the command up, without checking its expiry again.  When
  the machine sleeps for two minutes or more between the opening and the
  reservation, the row of an earlier execution is gone and the command runs
  again: with `MaxStall = 2` TLC finds it.  Checking `header.expiresAt` inside the
  mutation would close it.
- *Undone logout.*  "Never on a live logout" (`cli/sync.js:74`).  A login followed
  by a logout in a new Chrome process, before its first sync, is answered with
  the older session cookie; `LogoutStands` is about the processes that synced.
- *Stale locks.*  Two processes that find the lock of a dead third one may come to
  hold it both, when one removes the lock the other has just taken
  (`auth/store.js:145`): the examination and the removal are two system calls.
  `DoneStays` excludes it (`mistaken`); `cli/config.js` `withLock` keeps the
  executors of one home apart.
- *A refused retry.*  A PUT of a name that is stored replaces it and, refused for the
  quota, unlinks it (`server/store.js:110-117`, `worker/store.js:96-100`): the host loses
  that blob.  On the server it takes a room that a killed PUT left over its quota, or a
  blob larger than the one replaced; `RefusalKeepsNewest` says so.  The source keeps the
  ciphertext in its pending file until a PUT of it is answered 204, so a snapshot that
  the source is still trying to push is pushed again.
- *Late deletions.*  The worker deletes an expired object after its answer
  (`worker/index.js:174`), by name: an object put under that name in the meantime goes
  with it, although its PUT was answered 204.  The worker's properties promise nothing
  for what is answered while such a deletion is waiting (`Threatened`).  With the default
  `BLOB_TTL_MS` of seven days the name is one whose snapshot receivers refuse by its age
  (`companion/protocol.js:69`); with a shorter one, a snapshot put again may be lost.
- *A failed retirement.*  When a retirement's write takes effect and then reports a
  failure, the services it retired are in no list, and their browsers stay until a
  restart (`lost` in `Enrollments`).
- *Alarms.*  A restart of the browser may take the coalescing alarm and leave the
  flag that says it is set; changes then wait for the periodic alarm
  (`ChangeNotForgotten` holds while `stops = 0`, `EventuallyPublished` always).
- *Takeovers.*  `takeover.finish` while an observation of the page is in progress is
  refused as busy, and the `finally` of `auth/runtime.js:474` forgets the takeover
  all the same: the controller's lease then lasts until its own ten-minute timer.

## 7. What could come next

1. Adaptive discovery (`auth/browser/adaptive.js`) as an algorithm over a small
   page, checked against what a form is.
2. The terminal binding of `AutoSync` and the pull from the relay.
