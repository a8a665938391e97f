# AURORA: TLA+ specifications, model checking and proofs

AURORA collects energy telemetry from IoT *ecosystems* (a home gateway with its
devices), stores it in MongoDB, and anchors a signed hash of every reading on a
Hyperledger Fabric ledger through FireFly. An auth service keeps accounts,
ecosystems, their keys, and who may see what; its administrative actions are
anchored as well. A web application shows all of it. This directory holds TLA+
specifications of the parts whose correctness depends on the order of several
steps of several actors, TLC configurations that check them on small instances,
and TLAPS proofs of their main properties for every instance.

## 1. The modules at a glance

| Module | What it is |
| --- | --- |
| `TelemetryAnchoring` | abstract specification: what the ingestion pipeline promises about a record and its anchor |
| `TelemetryIngest` | iot-manager's `POST /v1/ingest`, auth's `signHash`, FireFly, the telemetry chaincode, Fabric |
| `AccessDelegation` | sharing an ecosystem with a user: the access row, the invitations, the calls of both sides |
| `AccountLifecycle` | one account: login, refresh, logout, recovery, reset, approval, removal, password rotation |
| `ActionTrail` | abstract specification: what the trail of administrative actions promises |
| `ActionsAnchor` | auth's `anchorAction` with its retries, FireFly, the actions chaincode, Fabric; TLC runs it directly |
| `Session` | the tokens of one account with their times and roles, and the Redis entry that follows a removal |
| `SessionRefresh` | the browser: tabs with one cookie, the interceptor of `axios.ts` and its queue; implements the clients of `Session` |
| `DeviceDiscovery` | the devices named in readings, looked up and registered in the background, beside people's edits |
| `ApiKeys` | the authentication of readings by key, with both caches, and the ecosystems the keys are of |
| `ReadAccess` | what a person is shown of ecosystems, devices and telemetry, query by query |
| `PageRequests` | what the pages have in common: requests sent, served and answered in any order |
| `NotificationsPage`, `UsersPage`, `EcosystemsPage`, `DevicesModal`, `BlockchainPage`, `AuditPage`, `NotificationSender` | one page or dialog each, with its controller and the service calls it makes |
| `Webapp` | the composition: the routes, one of which is mounted |

`MC<Module>` is the module TLC runs: it gives the constants their symmetry and
their functions. `<Module>Proofs` holds the theorems about a module:
`AccessDelegation`, `AccountLifecycle`, `DeviceDiscovery`, `ApiKeys`, `ReadAccess`,
`Session` with `SessionRefresh`, `Webapp` with the modules of its pages.
`AnchoringProofs` has both pipelines to the chain, `TelemetryIngest` and
`ActionsAnchor`, with the abstract specifications they implement.

To repeat everything: `tlc -config X.cfg M` for each run of `PROJECT.json`, and
`tlapm M` for each `*Proofs` module. `WebappProofs` takes a quarter of an hour, the
others a few minutes each.

## 2. Inventory of the system

### 2.1 iot-manager, telemetry ingestion (`services/iot-manager/src/index.ts`, `telemetry-store.ts`, `firefly-service.ts`)

*State*: MongoDB documents of telemetry with `anchorStatus`, signature and
public key; nothing in memory but the handlers that are running.
*Operations*: `authenticateApiKey` (preHandler), `POST /v1/ingest`: insert the
document as PENDING_ANCHOR, ask auth to sign the hash, send an invoke to FireFly,
set ANCHORED (202) or FAILED (503); routes that read metrics, volumes and readings
back for a person, after asking auth for the person's ecosystems.
*Interactions*: Redis (API key cache), auth over HTTP, MongoDB, FireFly over HTTP.
*Hard*: four services written one after the other with no transaction; lost
answers; a restart between any two; an ecosystem revoked meanwhile.
*Correct when*: nothing is on the ledger that is not in the store with the right
signature, a 202 means that the anchor was taken, failures are reported for what
they are, a settled record never changes; a person is shown telemetry of no other
ecosystems than those the person may see. Modelled: `TelemetryIngest`, `ReadAccess`.

### 2.2 aurora-telemetry-anchor chaincode (`chaincodes/aurora-telemetry-anchor/main.go`)

*State*: world state by ingest id, composite keys `ecosystem.Anchor`.
*Operations*: `AnchorTelemetry`; queries. *Hard*: runs at endorsement against a
state that may be stale at commit, several times for one operation, on peers with
different clocks. *Correct when*: one immutable anchor per ingest, and the index
says exactly what the world state says. Modelled in `TelemetryIngest`.

### 2.3 API key cache (`services/iot-manager/src/api-key-cache.ts`, `index.ts`)

*State*: positive entries in Redis, or in memory without one (ten minutes),
negative ones in memory (15 s). *Operations*: look a key up in both, ask auth,
write one of the two. *Hard*: a positive entry outlives a revocation and a
restart; auth writes the device's position while it validates, and a failure of
that write reads as an invalid key. *Correct when*: a removed key stops working
within a stated time, and a good key is refused for a cause and for a stated time
only. Modelled: `ApiKeys`.

### 2.4 auth, accounts and sessions (`services/auth/src/iam/users`, `iam/auth`)

*State*: one `User` row (status, isActive, email, password hash and its age,
refresh hash, identity), its `PasswordResetToken` rows, a Redis blacklist; tokens
that nobody keeps but their holders.
*Operations*: register, login, refresh, logout, recover, reset, approve, remove,
change role, PATCH; a PostgreSQL trigger and a daily function for passwords older
than 90 days. *Hard*: almost every call reads the row, awaits something slow
(argon2, a breach check over the network, mail) and then writes by id; two
transactions at READ COMMITTED. *Correct when*: a link resets the password once,
an ended session stays ended, a removed account stays removed, an active account
has the key pair it signs with; a role or an account that is lost is refused within
a stated time. Modelled: `AccountLifecycle` (the row), `Session` (the tokens).

### 2.5 auth, ecosystems and access delegation (`iam/ecosystems`, `iam/notifications`)

*State*: `Ecosystem`, `EcosystemAccess` (one row for a pair, `@@unique`),
`Notification` (invitations among them). *Operations*: create, rename, remove an
ecosystem, sign a hash; grant, revoke, change the role of an access, leave; answer
an invitation. *Hard*: every call is several queries with no transaction, and
either side may act between any two. *Correct when*: an open invitation is the
only one and says what the row says, an answer is final, an access opens only by
accepting what is pending. Modelled: `AccessDelegation`; creation, renaming,
removal and heartbeats in `ApiKeys`; listing in `ReadAccess`; notices to users in
`NotificationSender`.

### 2.6 auth, devices and iot-manager's discovery (`iam/devices`, `device-discovery.ts`)

*State*: `Device` rows, unique by ecosystem and hardware id, with generated names.
*Operations*: look up, register, complete the vendor of each device a reading names;
people create, change and remove devices. *Hard*: find-then-create from
concurrent batches, a name that is a maximum plus one, one device of a batch
failing. *Correct when*: generated names differ, a vendor goes to the device it was
found for, a batch leaves each of its devices registered. Modelled:
`DeviceDiscovery`.

### 2.7 Anchoring of administrative actions (`blockchain/anchoring/actions-anchor.service.ts`, `chaincodes/aurora-actions-anchor/main.go`)

*State*: none in auth; action records, nonces and parents in the world state.
*Hard*: a retry repeats action id and nonce, so a lost answer turns into a
refusal; failures are swallowed when not blocking. *Correct when*: an action is
recorded once, after the change it tells of, and a caller that waits for the chain
is not told of a success that is not recorded. Modelled: `ActionsAnchor`.

### 2.8 blockchain-manager (`services/blockchain-manager/src/blockchain/blockchain.controller.ts`)

*State*: APIs, interfaces, listeners and subscriptions, all kept by FireFly.
*Operations*: register, upgrade and delete a chaincode. *Hard*: listeners are
replaced by a list, deletions and a creation, each a call of its own, and two
administrators may do so at once. *Correct when*: a registered chaincode has one
listener. Modelled: `BlockchainPage`, service and page together.

### 2.9 audit (`services/audit/src/audit/audit.service.ts`)

*State*: none of its own. It joins chain events and stored telemetry and gives
each event a verdict. *Hard*: the verdict when a part is missing, or changes
between the two reads of a document; filters that come after the limit. *Correct
when*: a document is called altered if and only if it is. Modelled in `AuditPage`,
with signatures taken for valid.

### 2.10 webapp (`apps/webapp/src`)

*State*: an access token in memory, `isRefreshing` and a queue of failed
requests (`api/axios.ts`); in each page copies of rows, what is selected, which
dialog is open, what is loading. *Operations*: forms, the interceptor, and per page
the loads and the actions of its buttons. *Hard*: refreshes of several tabs with
one cookie while the server rotates the hash; pages that send a request, let the
user go on, and use the answer on whatever is selected when it arrives.
*Correct when*: no request waits for ever, the cookie is the session's; a page at
rest shows what the services have, of the thing that is selected. Modelled:
`SessionRefresh`, and the pages that change something or follow one answer with
another request.

### 2.11 Outside the plan

Cryptography, mail and the Prisma client are library calls, modelled where they
matter by what their callers rely on. Infrastructure files and seed data hold no
logic of their own, except for the rotation trigger, which is part of 2.4.

`PROJECT.json` lists for each of them the hazards at their lines, and the
properties that stand for them or why there is none.

## 3. The plan, and where it stands

The order was that of what would hurt most if it were wrong: first evidence on the
chain, then who may see an ecosystem, then who may sign in, then the trail of who
did what; after these four the sessions with their browser, device discovery,
API keys, reading back, and last the pages. All of these are done, each with
a run and with proofs.

What is left, in this order:

1. The audit service's signatures: the payload it has to recompute is a
   question of serialisation, and needs a model of what is signed rather than of
   who signs.
2. The account forms (registration, recovery, profile) as pages; their calls are in
   `AccountLifecycle`.
3. The dashboard, which displays what `ReadAccess` answers and polls for it.

## 4. TelemetryIngest

### Correspondence

Each element of `Requests` is one execution of the handler and, since every
execution draws a new telemetry id, the one document it inserts. `pc` is the await
a handler stands at; `signature` and `reply` are its locals and its answer; `doc`
is MongoDB, `op` FireFly's operation, `txs`, `ledger`, `index` Fabric. Actions follow
the awaits: `LetIn`/`TurnAway` (preHandler), `Save`/`SaveFails`, `SignHash`/`SignFails`,
`SendInvoke` and its answers `InvokeAnswered`/`InvokeFails`, and
`MarkAnchored`/`MarkFailed`/`MarkThrows`. `Crash` stops every running handler at
once. A database write that throws may or may not have been applied. FireFly may
take an operation whose answer is lost (`InvokeFails` needs nothing of `op`).

Fabric is modelled by what the chaincode meets: `AnchorTelemetry` runs at endorsement
and records what it read; `Commit` writes if the key still has the version read, and
otherwise the transaction is invalid; `Discard` covers endorsements that differ
(each peer stamps the anchor with its own `time.Now`). Of the API key cache it has
one positive entry, which may expire at any time; `ApiKeys` has the rest.

### What `telemetry_ingest` checks

Two requests with different payloads and one API key, so that the cache entry of
one lets in the other after a revocation, and three transactions, so that one
ingest is endorsed twice while another commits. `AckImpliesAnchored`,
`LedgerMatchesStore`, `StaleKeyNeverAnchors`, `SettledForGood`; `LetInIsAnswered`:
every request that was let in is answered unless the process stops; and
`ImplementsAnchoring`: the pipeline implements `TelemetryAnchoring` under the
mapping `RecordAt`, `ChainAt`.

*Bounds.* Requests touch each other only through the API key cache, the
ecosystem's status and the pool of transactions, so two of them show every
interaction of a pair; a third transaction lets both an early and a late one be
discarded.

*Fairness.* `FairSpec` assumes weak fairness of `Handler(r)` and nothing else:
Node runs the continuation of an await that has ended, and each await of the
handler ends, in an answer or in an exception (connection errors, the default
timeouts of the HTTP client and of the MongoDB driver). FireFly, Fabric, devices
and owners may be idle for ever.

## 5. AccessDelegation

### Correspondence

One pair of ecosystem and user; rows of other pairs are not touched by the code
that handles this one. A call is `idle` until its first query, and each query that
can change the outcome is an action: reads that decide (`BeginGrant`,
`GrantReadsAccess`, `BeginRevoke`, `BeginRespond`, `RejectReadsAccess`, ...) and
writes (`CreateAccess`, `Regrant`, `SendInvitation`, `CancelInvitations`,
`RevokeAccess`, `SetRole`, `WriteAnswer`, `AcceptAccess`). `RevokeAccess` is the last
write of three handlers (revocation, departure, rejection): it is the same
statement in each. `Fail` stops a call anywhere, and what it wrote stays.
Anchoring and mail after the last write are the place `closing`: they can fail, and
change nothing of this state. The checks of who the caller is are left out.

Three history variables: `quiet` (the last revocation found no invitation open and
no other call in flight), `everRevoked`, and `alone` (calls have never overlapped).

### What is checked

* `access`: five calls, two in flight. `QuietRevocationHolds` and
  `FirstGrantInvitesOnce` hold however calls overlap; `OpenInvitationMatchesAccess`,
  `AnsweredOnceAlone` and `AccessOpensFromPending` while they do not. Grant, answer,
  revoke, grant and answer again is the longest cycle, hence five.
* `access_answered_once` (violated as expected): with two calls in flight an
  invitation the owner has cancelled is accepted, because
  `respondToNotification` writes by id, and a revoked access is VALID again.

## 6. AccountLifecycle

### Correspondence

`user` is the row; `aged` says that `passwordChangedAt` is 90 days back; `token[c]`
is the reset token issued by call `c` (it expires, and is used up); `pc`, `arg` are the
calls. Every write of the row goes through `Store`, which applies the trigger
`apply_password_rotation_policy`, or through `StoreNewPassword`, which renews the age
first as the trigger does. `refresh` names the call whose token the stored hash is of.

Transactions run at READ COMMITTED. The one that consumes a token starts with the
conditional `updateMany`, which holds the row of the token until it commits, and so
is one action, which waits while another transaction has that row (`Locked`). The one that issues a
token starts by closing the unused tokens that it can *see*: `CloseTokens` takes the
snapshot `seen[c]`, `IssueToken` commits. Two of them can overlap, and neither sees
the token of the other.

`UpdateUser` is `PATCH /users/:id`, which writes status, isActive and email with no
check of what they were, for whoever asks: the route has neither a session nor a role
guard, unlike its neighbours in `users.controller.ts`. A row that was PATCHed is
`edited`, and properties about how an account got somewhere do not speak of it. `EnforceRotation` is the daily
function; it is scheduled only where `pg_cron` is installed, and the model lets it run
at any time or never. Who the administrators are and what their roles allow is
left out, `changeRole` is here because its write fires the trigger.

### What is checked

* `account`: four calls, two in flight, each failing anywhere, while passwords age,
  links expire and rows are PATCHed. `TokenResetsOnce`, `BlockedHasLink`,
  `SignedOutStaysOut`, `GoneStaysGone` hold however calls overlap;
  `OneLinkAtATime`, `IdentityKept`, `RefreshOnlyRenews` while they do not.
* `account_removed` (violated as expected): a removal between the read and the write
  of an approval is undone.

*Bounds.* `MaxInFlight = 2`: each race in this code is between a read and a write of
one call with one other call in between. Four calls make two links and two resets of
one of them; recovery, reset, login and refresh are a whole session. Calls are a
symmetry set: they are only compared with each other.

## 7. ActionsAnchor

### Correspondence

An element of `Actions` is one call that changes something and the run of
`anchorAction` that follows; the run draws its action id and nonce once, so the
element stands for them too. `place` is where the run stands, `tries` how often it has
posted: each subscription of `retry` is one `Post`, a new operation of FireFly with
the same body. `operation[a][n]` is the operation of attempt `n` and its transaction,
`records` and `nonces` are the keys `AnchorAction` tests and writes; `records[a]`
names the attempt whose transaction wrote the record. `Change` is the caller's
write: every caller has ended it before it calls `anchorAction`, and none
undoes it. `Keyed` are the actions whose actor has a key pair; `KeysFail` also stands
for a failing database and may befall any of them.

With `blocking`, FireFly is asked to answer when the transaction has ended
(`confirm`), otherwise when it has queued the operation: `Confirmed`.
`AttemptFails` needs nothing of the operation, so an attempt may be taken, endorsed
and committed after its answer was lost, beside those that follow.

### What `actions_anchor` checks

Both settings of `blocking`, which `Init` chooses. `OneRecord` (four endorsed
attempts, one record), and `ImplementsTrail`: the run implements `ActionTrail`.
`MaxRetries = 3` is the code's own. Runs of different actions share no state, so one
action of an actor with keys and one of an actor without show every case. There is
no liveness property: the HTTP client of this module has no timeout, so an attempt
may wait for ever.

## 8. Session and SessionRefresh

### Correspondence

`Session` is the service's side of one account. A token is what it says: an access
token its second of issue (`iat`), the role in it, and the second its call read the
row (`read`); a refresh token its second of issue alone, as `auth.service.ts` signs
nothing else that differs, so that two of one second are the same token. `account`
is the row, `blackUntil` the Redis entry, `removal` how far `users.service.ts` has
come between the row and that entry. Logins, refreshes and logouts are `Calls`: they
are sent, read the row, take their time (`minting`), and store the hash. `Check` is
JwtStrategy with RolesGuard. What else writes the row is `Administer`, and none of it looks
at what the row has become: `UpdateUser` is the PATCH that no guard protects and writes
any status and role, `ResetPassword` writes ACTIVE over a removal that came after it had
read its owner, `LogoutById` is a logout whose body names the account and shows no token.
A removed account may so be active again. `removedAt` and `revivedAt` remember when the
last removal wrote the row and when a later write first made it active again; `had`, when
it last ceased to be active in a role. The clients of this module may present any refresh
token ever issued: they are a deliberate over-approximation, so that its properties
hold of any client.

`SessionRefresh` is one browser. `cookie` is shared by the tabs; each tab has the
access token in memory, `isRefreshing`, `isHydrating` and the requests waiting in
`failedQueue` (`Waiting`). A continuation of the interceptor, of `AuthProvider` or of a form runs
to its next await: it is one action (`Enqueue`, `StartRefresh`, `Refreshed`,
`NotRefreshed`, `Settle`, `BootAnswer`, `SignedIn`, `SignedOut`). Closing a page drops
its answers; what they do to the cookie happens or not, as a browser may or may not still
read the headers (`Drop`). `BrowserSpec` implements `Spec` of `Session` (`BrowserImplementsSession`), so that the
properties of any client are the browser's too.

### What is checked

* `session_tabs`: two tabs, two refreshes, one form, two requests, and an account that is
  removed, blocked, given another role, signed out by its id, and revived by a PATCH or a
  reset. `WaitersHaveARefresh`, `CookieIsCurrent`, `StaleRoleEnds`, `RemovalCoversTokens`,
  `OnlyNewestRefreshes`. `RemovalCoversTokens` promises of a removal what the code does: the
  tokens signed before it are never let in again, and a later one rests on a read from before
  the removal (a refresh under way, whose token the entry does not cover: it is signed after
  the removal) or from after the write that revived the account.
* `session_settles`: one tab, the same calls, under fairness. `RequestsSettle`: no
  request of a page is left waiting in the queue.

*Bounds.* Lifetimes are one or two seconds and the clock runs for two or three, so that
tokens expire while requests are on their way, also those of the refresh, and the
Redis entry ends before the tokens it was to cover. Four moves of people are
a sign-in, a request, and two acts of administrators, such as a removal and the write that
undoes it; a page may be open at first, one whose first refresh was refused because nobody
was signed in, so that no move is spent on opening it. The liveness run has one tab, since tabs share
nothing but the cookie, which the other may spoil: a refused refresh, which this run has
too, is all it can do to the requests of the first.

*Fairness.* `BrowserFairness`: a refresh and any other request that was sent is served, and
its answer, or an error, reaches the page (`WF` of `Serve`, `Check`, `Answer`,
`AnswerRequest`). None of these calls waits for the blockchain, and a browser ends
every exchange. Nothing is asked of forms: a sign-in anchors an action, which may wait
for FireFly for ever, nor of people.

## 9. DeviceDiscovery

### Correspondence

`device[i]` are the rows of one owner's ecosystems, by id. A `Batch` is the
`discoverAndSync` of one accepted reading: a loop over its devices, each of them a
question whether auth knows it (`Lookup`), the vendor (`Resolve`), then a request to
complete the vendor or to register the device, which in auth is again a lookup
(`ReadDevice`) and either a write by id (`WriteVendor`) or the choice of a name
(`GenerateName`) and an insert (`CreateDevice`), where the unique key decides and
the loser reports success. Every database access is a step, and every call may
fail (`FailDevice`), which ends the turn of its device and lets the batch go on. When it is only
the answer of a call that is lost, auth works on while the loop goes to its next device; that
behaviour is two batches of the model, one that ends with the call and one that has the rest of the
reading. `Edits` are the requests of people, whose fields go into the row as
they are, also an address or a vendor that is empty. A name is a number when it was generated, 0 when a person or the device chose it.
History: `overlapped` (two names were being generated at once), `raced` (somebody
wrote the row between a batch's read and its write), `lost` (a person removed or
moved the device during the turn).

### What `devices` checks

Two ecosystems with the same two hardware ids, two batches and one person, three
rows, three moves. `DefaultNamesDiffer`, `VendorIsRight`, `EveryDeviceSynced`. Two
batches are the race of the unique key, the third party is needed for the row that is
removed between lookup and update; names are numbered across the ecosystems of an
owner, hence two. That the first two properties need their history is a fact about the code:
overlapping registrations do generate one name twice.

## 10. ApiKeys

### Correspondence

`ecosystem` are the rows, `valid` the positive entries (in Redis or in memory:
`Init` chooses, and `Restart` loses the latter), `invalid` the negative ones, `request`
the readings being authenticated (`ReadCaches`, `FindKey`, `Locate`, `Admit`, `Refuse`),
`operation` the owners' creations, updates and removals, query by query. Keys are
random and never given out twice, so that a key is written as its ecosystem; a
`clock` ticks. `Locate` writes the device's position inside the `try` of
`validateApiKey`: when it fails the answer is `{valid: false}`. A restart of iot-manager
loses its readings but not the validations that auth has begun for them: those stay at
`validating` or `locating` as `gone`, still write the position, and answer nobody.
`GetApiKey` shows the owner the key again. The static table of keys that iot-manager takes
where no validation URL is configured (`index.ts:272`) has no cache and no rows, and is left out.

### What `api_keys` checks

`RemovedKeyEnds`: a removed key opens the door for no longer than an entry lives,
plus the time its validation took after the read. `RefusalHasCause`: an active
ecosystem's device is refused only because of such a failing write, and for no longer
than a bad key is remembered. One ecosystem, since entries of different keys do not
meet; two readings, so that one makes the entry the other uses; lifetimes of two and one
within a clock of three, so that each kind of entry is written, used and expires.

## 11. ReadAccess

### Correspondence

One reader with a role; `mine` is the reader's own ecosystem, `theirs` may be lent. A
request moves through the queries of two services, its `stage`: `owned`, `shared`,
`check` and `devices` in auth (also when iot-manager asks for the scope), then `aggregate` or
`find` in MongoDB; other people remove ecosystems, grant and take accesses between any two, and
readings are stored in any order, with the timestamps of the devices, also for an ecosystem that was
removed, whose key a cache may still have (`ApiKeys`). History: `held`
(what the reader was allowed since the request began), `begunAt` and `changes`, `floor`
(the newest reading already shown).

### What `reads` checks

`ReadsWereAllowed`, `MetricsCoverTheList`, `NeverOlder`, with two requests at once,
five moves and two readings: a request, a grant, a departure, a reading and a second
request is the longest story among them. Three roles, because iot-manager treats them
differently: an ADMIN sees all, an AUDITOR is refused the list yet given the metrics of all once
it has an ecosystem of its own, which is why the first two properties speak of a USER.

## 12. The pages

### Correspondence

`PageRequests` is what pages have in common. `pending` are the requests a page has
sent; `Serve` lets a service take one, whichever; `Receive` runs the continuation that
waits for it, whichever is served first. No page cancels or numbers its requests. A page module
has the rows of the service (`status`, `account`, `access`, `row`, `registered`,
`chain`, `inbox`), the page's copies of them, what is selected, which dialog is open,
which buttons are disabled, and one action for each button and each continuation.
Calls of auth are single steps here, since their own races are in the modules above;
those of blockchain-manager and audit are step by step, as nothing else models them.
Three places are coarser or wider than the code: `leaveShared` may be taken from the list, while
the page has its button in the modal of the ecosystem; the form that creates an ecosystem has one
step where the page has `form` and `confirm`; and the details of a device are one request, while
the page asks for the device and then for its last payload before it writes either.
`Webapp` composes them: a behaviour stays on the route it begins with, because a
page that is left loses its state and its answers.

A dialog covers the page, and so does a prompt that stays open when its modal has been
closed (`fixed inset-0 z-[100]`): `Uncovered` of `EcosystemsPage` guards the buttons
underneath. The proof asked for it. Without that guard a prompt about one ecosystem could be
confirmed with the modal of another open, and TLC refutes `UsersAreTheirs` once there are two
guests and four moves, one move more than its run has.

History variables say when a property does not speak: `inOrder` (answers came in the order
of their requests), `failures`, and per page whether somebody else wrote the rows, or
whether the page had two changes under way. Each of them is a way a page does go wrong; section
14 lists what then happens.

### What `webapp` checks

All properties are about a page at rest (`Quiet`: no request pending).
`ListsAgree`: the list says what the rows say. `DetailsAreTheirs`: a panel or modal has the
details of what it was opened for. `BellAgrees`: the count beside the bell.
`OneListener`: a chaincode is listened to at most once. `VerdictsAreRight`: a document is
shown as altered if and only if it is. `SentAsChosen`: a notice reaches those it was
confirmed for, once.

*Bounds.* Two of each thing a page can confuse with another (notifications, accounts,
ecosystems, devices, APIs, recipients, texts of notices), and three moves: select, act, and select or act again
while the first is under way. `UsersPage` and `BlockchainPage`, each of whose moves
sends several requests, have two. `Limit = 1` with two events, so that the limit
cuts. Recipients and texts of notices are symmetry sets, being only compared with each other.

## 13. What is proved

All theorems hold for every value of the constants under the assumptions stated in
the modules (`BodyAssumption`, `NoneAssumption`, `CallsAssumption`,
`ActionsAssumption`, `SessionAssumption`, `RefreshAssumption`, `DiscoveryAssumption`,
`KeysAssumption`, `OwnedAssumption`, `TimesAssumption`, and of the webapp `EventsAssumption`,
`NullAssumption`, `EcosystemsAssumption`, `DevicesAssumption`): finite sets of calls or rows,
natural numbers for lifetimes and bounds, a null that is nothing else. The bounds of the runs
are not among them.

Each proof states an inductive invariant (`IInv` unless named below), a lemma for its initial
states, lemmas that each step keeps its parts, split by action, and then one
theorem for each property.

* `AnchoringProofs`, telemetry. `IInv` says of each handler what its place means for its
  document, its operation and its local signature (`Control`), that what the
  device was told still holds (`Told`), that signatures are the request's own
  wherever they are (`Signed`), that a late request is never past signing (`Late`), and
  that an endorsed transaction read an absent key (`InFlight`). The last is what makes
  a second endorsed transaction fail at commit. None of the properties is inductive
  alone: `AckImpliesAnchored` needs that a handler in `recording` has an accepted
  operation. `Refinement` maps initial states and steps. Two properties no
  run has any more are proved here too: a failure of signing leaves nothing behind, and the
  index has what the world state has.
* `AccessDelegationProofs`. `IInv` says that after a quiet revocation no invitation
  is open and no call is past the reads that would turn it away (`Shut`), and that before
  the first revocation one call at most has created the row (`Fresh`). While calls have
  not overlapped a second invariant, `Serial`, says what the place of the only running
  call means for both tables.
* `AccountLifecycleProofs`. `IInv` says that a token is issued once and that a reset
  that changed the password has used its token (`Tokens`); that after a quiet sign-out
  no call holds the permission to store a hash (`SignedOutInv`) and after a quiet
  removal none is past its reads (`GoneInv`); that an account without identity is neither
  active nor reset (`Unapproved`), which needs that `consume` is reached only from an
  active account. While calls have not overlapped, what the only one running has read
  is what the row still says: from it follow one link, one identity, and that a refresh
  renews only.
* `AnchoringProofs`, administrative actions. `ActionsInv` says what the place of a run means
  (`RunControl`: it has posted only if its actor has keys, no operation exists beyond those it
  has counted) and what the world state has of it (`Recorded`: an endorsed transaction
  read the absent key, so that a commit that writes finds no record; the valid
  transaction is the one the ledger names). `ConfirmedStays` shows that what FireFly
  confirmed is never taken back. `TrailRefinement` maps initial states and steps to
  `ActionTrail`. `ActionsTypeOK` is proved together with `RunControl`: that a run posts no
  more than `MaxRetries + 1` times is not visible from types.
* `SessionProofs`. `IInv` dates everything: no token is from the future, and the role in a
  token, or known to a call, was the account's when it was read, so that it was lost then or
  later, and it was not read between a removal and the write that revived the account
  (`TokensGenuine`, `Standing`); between these two nobody finds it active, and the entry lasts
  (`Removed`); while calls
  have not overlapped, the hash is that of the youngest token (`OneAtATime`).
  `BrowserImplementsSession` is the refinement: each continuation of a tab is a client's action of `Session` or
  leaves it alone; with it `BrowserIsSafe` carries the three properties over to the browser.
  Two invariants of its own follow on top. `TabInv`: a tab that refreshes or hydrates has a
  page, and each flag stands for exactly one refresh on its way that this page owns, also after
  lost answers and closed pages; so whoever is queued waits for an answer that can still come
  (`WaitersSafe`). `FollowInv`: of calls that do not overlap, the one open call either has not
  stored a hash, and the cookie is the row's, or it carries the cookie of the hash it has stored
  (`CookieSafe`).
* `DeviceDiscoveryProofs`. `IInv` says that names are bounded by what the next one is
  counted from (`NamesBounded`) and differ while no two were generated at once
  (`NamesApart`), that a batch that was not raced still sees the row it read
  (`ReadIsSo`), and that a device found, or refused by the unique key, is there unless a
  person has taken it (`FoundIsThere`).
* `ApiKeysProofs`. `IInv` relates each positive entry to the validation it came from, which
  cannot have read a key after its removal (`EntriesAge`), and each negative entry of an active
  ecosystem to the failing write behind it (`FaultsOnly`). `RemovedStaysBlank` adds that a
  removed row has no key again, and neither name nor position unless a call had read
  it before (`LateWriters`).
* `ReadAccessProofs`. `IInv` says that what a request has gathered was held at some time since
  it began (`GatheredWasHeld`), that it is all of it when no row has changed since
  (`GatheredIsAll`), and that nothing newer was shown than is stored (`ShownIsStored`). An empty
  scope, which the code would take for no filter, never reaches the aggregation of a USER.

* `WebappProofs`. `WebappInv` joins one inductive invariant for each page. All share `Queue`:
  `pending` is a sequence of requests and, while no failure is recorded, none has failed.
  `PageRequests` lets any request be answered and taken out of the middle of the sequence, and
  appends others; its lemmas (`Joined`, `Serves`, and those around them) say once where each
  request goes. With them an invariant says of every pending request what its answer will mean:
  * *What is shown is right, or its replacement is on its way.* A list at rest is right because
    whoever changed the rows will load it, or the latest load of it has not been served, or was
    served after the last change, or it is shown (`CountInv`, `ContractsInv`, `MineInv`,
    `SharedInv`, `GuestsInv`, `TimelineInv`). `Latest` and `inOrder` replace an order
    on requests: the last that was sent is the last that arrives.
  * *What is selected is what the latest request is about* (`PanelInv`, `InterfaceInv`, `ConfirmInv`,
    `Settling`).
  * *How many are under way.* Disabled buttons and dialogs admit one change at a time (`AccountsInv`,
    `LoadingInv`, `SendingInv`, `OneChange`); from that follow the cases in which no order of
    answers matters. `UsersAgree` needs no `inOrder` for this reason.
  * *Pages with more.* `DevicesModal` copies a whole ecosystem into the request that renames
    it: no value is saved twice (`ValuesInv`), the modal and the list have one copy (`CopiesInv`), and
    while changes do not cross, the row differs from that copy by the one change under way
    (`RowInv`). `BlockchainPage`: the listeners that exist are among those the running
    registration is about to delete (`ListenersInv`). `AuditPage`: a verdict agrees with what was
    read wherever it stands, in a request or on the screen (`VerdictsInv`). `NotificationSender`: a
    text that no request is about was never confirmed, or has arrived and left the draft (`TextsInv`).

  A behaviour stays on one route, so that an invariant speaks only while its page is open
  (`WebappInv`) and a step of one page need not respect those of the others.

Model-checked only: liveness (`LetInIsAnswered`, `RequestsSettle`), which is out of the
prover's reach, and what the two violating runs refute. Every other property of a run is
stated by a theorem.

## 14. Where code and documentation disagree, and what the code does not promise

Two runs end in a counterexample on purpose; `PROJECT.json` quotes the lines. The answered
invitation (`access_answered_once`) and the undone removal (`account_removed`) are one pattern:
a handler reads a row, awaits, and writes by id without a condition on what it read.
`consumePasswordResetToken` shows the remedy, a conditional `updateMany`, and
`TokenResetsOnce` that it works.

Found in reading and modelling, without a run of their own:

* ANCHORED is written when FireFly has queued the operation (`index.ts:915`);
  docs/DATA_MODEL.md:331 says published. chaincodes/README_aurora_telemetry_anchor.md
  has iot-manager act on the event `TelemetryAnchored`, to which nothing subscribes.
* A rotated password deactivates the account, recovery ignores inactive accounts
  (`users.service.ts:288`), and login tells the user to recover (`auth.service.ts:68`).
* A retry repeats action id and nonce, so that a lost answer is reported as a failure of what is
  recorded (`actions-anchor.service.ts:157`, `174`): "accion duplicada" could be taken
  for a success. A registration is never anchored, since the new account has no key
  pair yet (`users.service.ts:446`, docs/auth-flow-registro.puml:15).
* `audit.service.ts:108` recomputes the signed payload without the parent action.
* docs/PATTERNS_AND_SECURITY.md:584 has a logout put the account on the blacklist; it clears the
  refresh hash only. Access tokens live 30 minutes by the code's default, five by
  `.env.example`; the blacklist entry of a removal lives five: `RemovalCoversTokens` holds
  of the latter setting only, as it says.
* `PATCH /users/:id` (users.controller.ts:68) has no guard, and neither it nor a password reset
  that was under way asks whether the account was removed (users.service.ts:397, 603): each
  makes it active again, and a refresh that had read the row before the removal then keeps the
  session going after the blacklist entry has ended. A logout takes the account from its body
  (auth.controller.ts:204).
* The webapp registers no handler for a session that has ended (`setUnauthorizedHandler` is
  never called), a refresh at start-up that fails late clears a sign-in made meanwhile, and
  a reload during a refresh may lose the new cookie.
* A failing write of the position refuses a good device (`ecosystems.service.ts:310`), and the
  refusal is remembered for 15 seconds.
* AUDITORs get 403 on the list of ecosystems, and metrics of all only if they have one of their
  own; the routes for a device's details and last interaction look at no session.
* Pages, when answers come out of order or two changes overlap: the details of one device or
  account appear under another that was selected later; a dialog opened for one is closed by the
  end of an action on another; a renaming brings back the devices of the moment it was asked
  for and re-opens a closed modal; a shared ecosystem that was left while the list loads
  comes back; two registrations at once leave two listeners, and a failure between deleting and
  creating leaves none; deleting one of two APIs of a chaincode deletes the other's
  listener; a sender who retries after a failed mail sends twice; the timeline filters after
  the limit, so that a filter may show nothing while there are events; a document missing
  at the first read and there at the second is judged without having been shown.

## 15. Not modelled

* Authorisation by role beyond `ReadAccess` and RolesGuard, pagination, formatting, logging and
  the content of mails: no property is about them.
* Ed25519, SHA-256, argon2 and JWT signatures are ideal: equal inputs, equal outputs, and
  nothing else is accepted. The audit's recomputation of payloads is left out for the
  same reason: its inputs are texts, and what can go wrong with them is their layout.
* The audit's `getStats`, `getChainVisualization` and `getBlockDetails`, which return constants.
* The static table of API keys of an iot-manager without auth, and reads of a device's last
  interaction by its id alone (`/devices/:deviceId/last-interaction`), which ask for no ecosystem.
* The dashboard, which displays, and the account forms, which send one request each.
* FireFly, Fabric, Redis, MongoDB, PostgreSQL and the mail server, beyond what the code relies on.
* Infrastructure files and seed data, except the rotation trigger.
