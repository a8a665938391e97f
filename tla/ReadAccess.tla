----------------------------- MODULE ReadAccess -----------------------------
(***************************************************************************)
(* What a signed-in person is shown of ecosystems and of their telemetry,  *)
(* while owners remove ecosystems, accesses come and go and devices send.  *)
(*                                                                         *)
(* The auth service answers the list of ecosystems, one ecosystem and its  *)
(* devices from its own rows.  iot-manager answers metrics and volume from *)
(* MongoDB; it knows the role from the access token, and asks auth for the *)
(* ecosystems of whoever is no administrator (/internal/users/:id/         *)
(* ecosystems).  Every answer takes several queries, in two services, and  *)
(* nothing holds the rows still between them.                              *)
(***************************************************************************)
EXTENDS Naturals, Sequences

CONSTANTS
    Ecosystems,
    Owned,       \* those of the reader; the others may be lent to the reader
    Requests,    \* slots: requests of the reader
    Roles,       \* roles a token may carry
    Times,       \* the timestamps that devices put on readings
    MaxMoves,    \* bound: requests begun and changes made by others
    MaxReadings  \* bound: documents of telemetry_events

ASSUME OwnedAssumption == Owned \subseteq Ecosystems
ASSUME TimesAssumption == Times \subseteq Nat \ {0}

VARIABLES
    role,      \* of the reader's token
    status,    \* of each Ecosystem
    access,    \* status of the reader's EcosystemAccess to each ecosystem
    store,     \* telemetry_events, in the order of insertion
    request,
    moves,
    \* history
    changes,   \* how often the ecosystems or accesses have changed
    held,      \* per request: ecosystems the reader had at some time during it
    shown,     \* per ecosystem: the newest timestamp answered so far
    begunAt,   \* per request: changes when it began
    floor      \* per request: shown when it began

vars == <<role, status, access, store, request, moves, changes, held, shown, begunAt, floor>>

rows == <<status, access>>
history == <<held, shown, begunAt, floor>>

Checked == {"list", "open", "devices", "metrics", "volume"}  \* those that know the reader
Compared == {"list", "metrics"}                              \* those of the dashboard
Over == {"idle", "done", "forbidden"}

\* what the reader owns, or has been lent and has accepted, and is not removed
Visible ==
    {e \in Ecosystems : status[e] = "ACTIVE" /\ (e \in Owned \/ access[e] = "VALID")}

IsAdmin == role \in {"ADMIN", "GLOBAL_ADMIN"}

nothing == [e \in Ecosystems |-> 0]

Idle == [op |-> "list", about |-> {}, from |-> 0, stage |-> "idle", ids |-> {}, reply |-> {},
         latest |-> 0]

Init ==
    /\ role \in Roles
    /\ status = [e \in Ecosystems |-> "ACTIVE"]
    /\ access = [e \in Ecosystems |-> "NONE"]
    /\ store = <<>>
    /\ request = [r \in Requests |-> Idle]
    /\ moves = 0
    /\ changes = 0
    /\ held = [r \in Requests |-> {}]
    /\ shown = nothing
    /\ begunAt = [r \in Requests |-> 0]
    /\ floor = [r \in Requests |-> nothing]

Move == moves < MaxMoves /\ moves' = moves + 1

-----------------------------------------------------------------------------
(* What others do                                                           *)

\* a change of a row: the ecosystems of the reader after it count for every
\* request under way
Changed ==
    /\ changes' = changes + 1
    /\ held' = [r \in Requests |->
                  IF request[r].stage \in Over \/ request[r].op \notin Checked
                  THEN held[r] ELSE held[r] \union Visible']
    /\ UNCHANGED <<role, store, request, shown, begunAt, floor>>

\* EcosystemsService.remove by the owner
RemoveEcosystem(e) ==
    /\ Move
    /\ status[e] = "ACTIVE"
    /\ status' = [status EXCEPT ![e] = "REVOKED"]
    /\ UNCHANGED access
    /\ Changed

\* grantAccess, an answer to the invitation, revokeAccess, leaveSharedEcosystem;
\* AccessDelegation has their queries
Successors(s) ==
    CASE s \in {"NONE", "REVOKED"} -> {"PENDING"}
      [] s = "PENDING" -> {"VALID", "REVOKED"}
      [] s = "VALID" -> {"REVOKED"}

ChangeAccess(e) ==
    /\ Move
    /\ e \notin Owned
    /\ \E s \in Successors(access[e]) : access' = [access EXCEPT ![e] = s]
    /\ UNCHANGED status
    /\ Changed

\* POST /v1/ingest: save; the timestamp is the one the device sent, and the key
\* that lets it in may be a cached one, of an ecosystem that was removed
Ingest(e) ==
    /\ Move
    /\ Len(store) < MaxReadings
    /\ \E t \in Times : store' = Append(store, [ecosystem |-> e, timestamp |-> t])
    /\ UNCHANGED <<role, rows, request, changes, history>>

-----------------------------------------------------------------------------
(* The reader sends a request                                               *)

Begin(r, op, about, from, stage) ==
    /\ Move
    /\ request[r].stage \in Over
    /\ request' = [request EXCEPT ![r] =
         [Idle EXCEPT !.op = op, !.about = about, !.from = from, !.stage = stage]]
    /\ held' = [held EXCEPT ![r] = IF op \in Checked THEN Visible ELSE {}]
    /\ begunAt' = [begunAt EXCEPT ![r] = IF op \in Compared THEN changes ELSE 0]
    /\ floor' = [floor EXCEPT ![r] = IF op \in Checked THEN nothing ELSE shown]
    /\ UNCHANGED <<role, rows, store, changes, shown>>

\* GET /ecosystems, for users and administrators: getEcosystemsWithAccessType
ListEcosystems(r) ==
    /\ role # "AUDITOR"
    /\ Begin(r, "list", {}, 0, IF IsAdmin THEN "every" ELSE "owned")

\* GET /ecosystems/:id and /ecosystems/:id/devices
OpenEcosystem(r) == \E e \in Ecosystems : Begin(r, "open", {e}, 0, "check")
ListDevices(r) ==
    \E e \in Ecosystems : Begin(r, "devices", {e}, 0, IF IsAdmin THEN "devices" ELSE "check")

\* resolveTelemetryRequestContext: the ecosystems of whoever is no administrator
AskForContext == IF IsAdmin THEN "aggregate" ELSE "owned"

telemetryMetricsHandler(r) == \E t \in Times : Begin(r, "metrics", {}, t, AskForContext)

telemetryVolumeHandler(r) ==
    \E es \in SUBSET Ecosystems \ {{}} : Begin(r, "volume", es, 0, AskForContext)

\* GET /devices/device-details and /devices/last-interaction, for the one device
\* of an ecosystem: they ask MongoDB and nothing else
readDeviceDetails(r) == \E e \in Ecosystems : Begin(r, "details", {e}, 0, "find")
readQueryLastInteraction(r) == \E e \in Ecosystems : Begin(r, "lastInteraction", {e}, 0, "find")

-----------------------------------------------------------------------------
(* The services answer                                                      *)

Set(r, q) == request' = [request EXCEPT ![r] = q]

Unchanged == UNCHANGED <<role, rows, store, moves, changes, held, begunAt, floor>>

Answer(r, reply) ==
    /\ Set(r, [request[r] EXCEPT !.stage = "done", !.reply = reply])
    /\ UNCHANGED shown

Forbid(r) ==
    /\ Set(r, [request[r] EXCEPT !.stage = "forbidden"])
    /\ UNCHANGED shown

OwnedRows == {e \in Owned : status[e] = "ACTIVE"}

\* Variants with a bug the code could have, no part of Next.

\* the context of a person without ecosystems is let through
ContextEmpty(r, ids) ==
    Set(r, [request[r] EXCEPT !.stage = "aggregate", !.ids = ids]) /\ UNCHANGED shown

\* iot-manager is told of the ecosystems that the person owns only
DelegatedRowsOfList(op) ==
    IF op = "list"
    THEN {e \in Ecosystems \ Owned : access[e] = "VALID" /\ status[e] = "ACTIVE"}
    ELSE {}

\* the rows of EcosystemAccess that are VALID, then those of active ecosystems:
\* two methods of two services read them, one for each op
DelegatedRows(op) ==
    {e \in Ecosystems \ Owned : access[e] = "VALID" /\ status[e] = "ACTIVE"}

\* the first query of findAllEcosystemsByUserId and getEcosystemsWithAccessType
FindOwned(r) ==
    /\ request[r].stage = "owned"
    /\ Set(r, [request[r] EXCEPT !.stage = "shared", !.ids = OwnedRows])
    /\ UNCHANGED shown
    /\ Unchanged

\* a context without ecosystems is refused: NO_ECOSYSTEM_ACCESS
Context(r, ids) ==
    IF ids = {}
    THEN Forbid(r)
    ELSE Set(r, [request[r] EXCEPT !.stage = "aggregate", !.ids = ids]) /\ UNCHANGED shown

\* and the second
FindDelegated(r) ==
    LET ids == request[r].ids \union DelegatedRows(request[r].op)
    IN /\ request[r].stage = "shared"
       /\ IF request[r].op = "list" THEN Answer(r, ids) ELSE Context(r, ids)
       /\ Unchanged

FindEvery(r) ==
    /\ request[r].stage = "every"
    /\ Answer(r, {e \in Ecosystems : status[e] = "ACTIVE"})
    /\ Unchanged

\* findOneWithAccessCheck, and the first query of
\* findDevicesForEcosystemWithAccessCheck: row and accesses in one query
CheckAccess(r) ==
    LET allowed == {e \in request[r].about : status[e] # "REVOKED"
                                             /\ (IsAdmin \/ e \in Owned \/ access[e] = "VALID")}
    IN /\ request[r].stage = "check"
       /\ IF request[r].op = "devices" /\ allowed # {}
          THEN Set(r, [request[r] EXCEPT !.stage = "devices"]) /\ UNCHANGED shown
          ELSE Answer(r, allowed)
       /\ Unchanged

\* the devices of an ecosystem that is still not removed
FindDevices(r) ==
    /\ request[r].stage = "devices"
    /\ Answer(r, {e \in request[r].about : status[e] # "REVOKED"})
    /\ Unchanged

\* getMetrics filters by ecosystem when the list it is given is not empty
MatchedByMetrics(ids, from) ==
    {i \in DOMAIN store : store[i].timestamp >= from
                          /\ (ids = {} \/ store[i].ecosystem \in ids)}

\* getVolumeByEcosystemIds
MatchedByVolume(ids) == {i \in DOMAIN store : store[i].ecosystem \in ids}

EcosystemsOf(docs) == {store[i].ecosystem : i \in docs}

GetMetrics(r) ==
    LET ids == IF role = "USER" THEN request[r].ids ELSE {}
    IN /\ request[r].stage = "aggregate" /\ request[r].op = "metrics"
       /\ Answer(r, EcosystemsOf(MatchedByMetrics(ids, request[r].from)))
       /\ Unchanged

GetVolume(r) ==
    LET valid == IF IsAdmin THEN request[r].about ELSE request[r].about \intersect request[r].ids
    IN /\ request[r].stage = "aggregate" /\ request[r].op = "volume"
       /\ IF valid = {} THEN Forbid(r) ELSE Answer(r, EcosystemsOf(MatchedByVolume(valid)))
       /\ Unchanged

\* Variants with a bug the code could have, no part of Next.

\* the document that was inserted last
NewestInserted(docs) == {i \in docs : \A j \in docs : i >= j}

\* findLatestPayload, findLastInteraction: sort({ timestamp: -1 }).limit(1)
Newest(docs) == {i \in docs : \A j \in docs : store[i].timestamp >= store[j].timestamp}

FindLatest(r) ==
    LET docs == {i \in DOMAIN store : store[i].ecosystem \in request[r].about}
    IN /\ request[r].stage = "find"
       /\ IF docs = {}
          THEN Answer(r, {})
          ELSE \E i \in Newest(docs) :
                 LET e == store[i].ecosystem
                     t == store[i].timestamp
                 IN /\ Set(r, [request[r] EXCEPT !.stage = "done", !.reply = {e}, !.latest = t])
                    /\ shown' = [shown EXCEPT ![e] = IF t > @ THEN t ELSE @]
       /\ Unchanged

\* no session, an expired token, a query or the call to auth that fails
Fail(r) ==
    /\ request[r].stage \notin Over
    /\ Set(r, Idle)
    /\ held' = [held EXCEPT ![r] = {}]
    /\ begunAt' = [begunAt EXCEPT ![r] = 0]
    /\ floor' = [floor EXCEPT ![r] = nothing]
    /\ UNCHANGED <<role, rows, store, moves, changes, shown>>

-----------------------------------------------------------------------------
Others == \E e \in Ecosystems : RemoveEcosystem(e) \/ ChangeAccess(e) \/ Ingest(e)

Asks(r) ==
    \/ ListEcosystems(r) \/ OpenEcosystem(r) \/ ListDevices(r)
    \/ telemetryMetricsHandler(r) \/ telemetryVolumeHandler(r)
    \/ readDeviceDetails(r) \/ readQueryLastInteraction(r)

Answers(r) ==
    \/ FindOwned(r) \/ FindDelegated(r) \/ FindEvery(r)
    \/ CheckAccess(r) \/ FindDevices(r)
    \/ GetMetrics(r) \/ GetVolume(r) \/ FindLatest(r)
    \/ Fail(r)

Next == Others \/ \E r \in Requests : Asks(r) \/ Answers(r)

Spec == Init /\ [][Next]_vars

-----------------------------------------------------------------------------
(* Properties                                                               *)

\* A USER is answered only about ecosystems that were the USER's, or lent and
\* accepted, at some time between the request and its answer, however accesses
\* change between the queries of the two services and even though getMetrics
\* takes an empty list of ecosystems for no filter at all.
ReadsWereAllowed ==
    role = "USER" =>
        \A r \in Requests :
            request[r].stage = "done" /\ request[r].op \in Checked => request[r].reply \subseteq held[r]

\* The list of ecosystems that auth gives to the dashboard and the scope that
\* iot-manager gives to its metrics come from different queries: when no row has
\* changed since either was asked for, they are the same ecosystems, and metrics
\* are forbidden to nobody who is shown an ecosystem.
MetricsCoverTheList ==
    role = "USER" =>
        \A m, l \in Requests :
            /\ request[m].op = "metrics" /\ begunAt[m] = changes
            /\ request[l].op = "list" /\ begunAt[l] = changes /\ request[l].stage = "done"
            => /\ request[m].stage \in {"aggregate", "done"} => request[m].ids = request[l].reply
               /\ request[m].stage = "forbidden" => request[l].reply = {}

\* What is shown of a device does not go back in time: of two requests one after
\* the other, for its last interaction or its last payload, the second is not
\* answered with an older reading, in whatever order readings were stored.
NeverOlder ==
    \A r \in Requests :
        request[r].stage = "done" /\ request[r].op \in {"details", "lastInteraction"}
            => \A e \in request[r].about : request[r].latest >= floor[r][e]

=============================================================================
