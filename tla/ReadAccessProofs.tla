-------------------------- MODULE ReadAccessProofs --------------------------
(***************************************************************************)
(* Proofs about ReadAccess for every set of ecosystems, requests, roles    *)
(* and timestamps, and any number of changes and readings.                 *)
(***************************************************************************)
EXTENDS ReadAccess, TLAPS

-----------------------------------------------------------------------------
(* The inductive invariant.                                                 *)

Operations == Checked \union {"details", "lastInteraction"}
Underway == {"every", "owned", "shared", "check", "devices", "aggregate", "find"}
Instants == Times \union {0}

RequestType == [op : Operations, about : SUBSET Ecosystems, from : Instants, stage : Underway \union Over,
                ids : SUBSET Ecosystems, reply : SUBSET Ecosystems, latest : Instants]
Reading == [ecosystem : Ecosystems, timestamp : Times]

TypeOK ==
    /\ role \in Roles
    /\ status \in [Ecosystems -> {"ACTIVE", "REVOKED"}]
    /\ access \in [Ecosystems -> {"NONE", "PENDING", "VALID", "REVOKED"}]
    /\ store \in Seq(Reading)
    /\ request \in [Requests -> RequestType]
    /\ changes \in Nat
    /\ held \in [Requests -> SUBSET Ecosystems]
    /\ shown \in [Ecosystems -> Instants]
    /\ begunAt \in [Requests -> Nat]
    /\ floor \in [Requests -> [Ecosystems -> Instants]]

\* Which queries a request is in the middle of.
StagesFit ==
    \A r \in Requests :
        /\ request[r].stage \in Underway \ {"find"} => request[r].op \in Checked
        /\ request[r].stage = "every" => request[r].op = "list"
        /\ request[r].stage \in {"check", "devices"} => request[r].op \in {"open", "devices"}
        /\ request[r].stage \in {"owned", "shared"} => request[r].op \in {"list", "metrics", "volume"}
        /\ request[r].stage = "aggregate" => request[r].op \in {"metrics", "volume"}
        /\ request[r].stage = "find" => request[r].op \notin Checked
        /\ request[r].stage \in {"check", "devices", "find"} \/ request[r].op \notin Checked
              => \A x, y \in request[r].about : x = y

\* What a USER's request has gathered so far the USER had during it.
GatheredWasHeld ==
    role = "USER" =>
        \A r \in Requests :
            /\ request[r].stage # "every"
            /\ request[r].op \in Checked /\ request[r].stage \in Underway => Visible \subseteq held[r]
            /\ request[r].stage \in {"shared", "aggregate"} => request[r].ids \subseteq held[r]
            /\ request[r].stage = "aggregate" => request[r].ids # {}
            /\ request[r].stage = "devices" => request[r].about \subseteq held[r]
            /\ request[r].op \in Checked /\ request[r].stage = "done" => request[r].reply \subseteq held[r]

\* While no row has changed since it was asked, each query has seen all of them.
GatheredIsAll ==
    \A r \in Requests :
        /\ begunAt[r] <= changes
        /\ begunAt[r] = changes /\ request[r].op \in Compared =>
            /\ request[r].stage = "shared" => request[r].ids = OwnedRows
            /\ role = "USER" /\ request[r].op = "list" /\ request[r].stage = "done"
                  => request[r].reply = Visible
            /\ role = "USER" /\ request[r].op = "metrics" /\ request[r].stage \in {"aggregate", "done"}
                  => request[r].ids = Visible
            /\ role = "USER" /\ request[r].op = "metrics" /\ request[r].stage = "forbidden"
                  => Visible = {}

\* What was shown of a device is stored, and no request began above it.
ShownIsStored ==
    /\ \A e \in Ecosystems : shown[e] # 0 =>
          \E i \in DOMAIN store : store[i].ecosystem = e /\ store[i].timestamp >= shown[e]
    /\ \A r \in Requests, e \in Ecosystems : floor[r][e] <= shown[e]

IInv == TypeOK /\ StagesFit /\ GatheredWasHeld /\ GatheredIsAll /\ ShownIsStored /\ NeverOlder

-----------------------------------------------------------------------------
(* What a step does.                                                        *)

\* The two queries for a person's ecosystems give together those that the
\* person has.
LEMMA QueriesGiveAll == \A op : OwnedRows \union DelegatedRows(op) = Visible
  BY OwnedAssumption DEF OwnedAssumption, OwnedRows, DelegatedRows, Visible

LEMMA IdleType == Idle \in RequestType
  BY DEF Idle, RequestType, Operations, Checked, Instants, Over, Underway

LEMMA NothingType == nothing \in [Ecosystems -> Instants]
  BY DEF nothing, Instants

LEMMA OthersStep ==
    ASSUME TypeOK, Others
    PROVE  /\ UNCHANGED <<role, request, shown, begunAt, floor>>
           /\ \/ /\ UNCHANGED <<rows, changes, held>>
                 /\ \E d \in Reading : store' = Append(store, d)
              \/ /\ changes' = changes + 1 /\ UNCHANGED store
                 /\ held' = [r \in Requests |->
                              IF request[r].stage \in Over \/ request[r].op \notin Checked
                              THEN held[r] ELSE held[r] \union Visible']
                 /\ status' \in [Ecosystems -> {"ACTIVE", "REVOKED"}]
                 /\ access' \in [Ecosystems -> {"NONE", "PENDING", "VALID", "REVOKED"}]
<1>1. ASSUME NEW e \in Ecosystems, RemoveEcosystem(e)
      PROVE  Changed /\ status' \in [Ecosystems -> {"ACTIVE", "REVOKED"}]
             /\ access' \in [Ecosystems -> {"NONE", "PENDING", "VALID", "REVOKED"}]
  BY <1>1 DEF RemoveEcosystem, TypeOK
<1>2. ASSUME NEW e \in Ecosystems, ChangeAccess(e)
      PROVE  Changed /\ status' \in [Ecosystems -> {"ACTIVE", "REVOKED"}]
             /\ access' \in [Ecosystems -> {"NONE", "PENDING", "VALID", "REVOKED"}]
  <2>1. PICK s \in Successors(access[e]) : access' = [access EXCEPT ![e] = s]
    BY <1>2 DEF ChangeAccess
  <2>2. s \in {"NONE", "PENDING", "VALID", "REVOKED"}
    BY <2>1 DEF Successors, TypeOK
  <2> QED BY <1>2, <2>1, <2>2 DEF ChangeAccess, TypeOK
<1>3. ASSUME NEW e \in Ecosystems, Ingest(e)
      PROVE  /\ UNCHANGED <<role, request, shown, begunAt, floor, rows, changes, held>>
             /\ \E d \in Reading : store' = Append(store, d)
  <2>1. PICK t \in Times : store' = Append(store, [ecosystem |-> e, timestamp |-> t])
    BY <1>3 DEF Ingest
  <2>2. [ecosystem |-> e, timestamp |-> t] \in Reading
    BY DEF Reading
  <2> QED BY <1>3, <2>1, <2>2 DEF Ingest, history
<1>4. CASE \E e \in Ecosystems : RemoveEcosystem(e) \/ ChangeAccess(e)
  BY <1>1, <1>2, <1>4 DEF Changed
<1>5. CASE \E e \in Ecosystems : Ingest(e)
  BY <1>3, <1>5
<1> QED BY <1>4, <1>5 DEF Others

LEMMA BeginStep ==
    ASSUME TypeOK, NEW s \in Requests, NEW op \in Operations, NEW about \in SUBSET Ecosystems,
           NEW from \in Instants, NEW stage \in Underway, Begin(s, op, about, from, stage)
    PROVE  /\ UNCHANGED <<role, rows, store, changes, shown>>
           /\ \A r \in Requests \ {s} : /\ request'[r] = request[r] /\ held'[r] = held[r]
                                        /\ begunAt'[r] = begunAt[r] /\ floor'[r] = floor[r]
           /\ request'[s].op = op /\ request'[s].about = about /\ request'[s].stage = stage
           /\ held'[s] = (IF op \in Checked THEN Visible ELSE {})
           /\ begunAt'[s] = (IF op \in Compared THEN changes ELSE 0)
           /\ floor'[s] = (IF op \in Checked THEN nothing ELSE shown)
           /\ request' \in [Requests -> RequestType] /\ held' \in [Requests -> SUBSET Ecosystems]
           /\ begunAt' \in [Requests -> Nat] /\ floor' \in [Requests -> [Ecosystems -> Instants]]
<1> DEFINE q == [Idle EXCEPT !.op = op, !.about = about, !.from = from, !.stage = stage]
<1>0. /\ request \in [Requests -> RequestType] /\ held \in [Requests -> SUBSET Ecosystems]
      /\ begunAt \in [Requests -> Nat] /\ floor \in [Requests -> [Ecosystems -> Instants]]
      /\ changes \in Nat /\ shown \in [Ecosystems -> Instants]
  BY DEF TypeOK
<1>1. q.op = op /\ q.about = about /\ q.stage = stage
  BY DEF Idle
<1>2. q \in RequestType
  BY DEF Idle, RequestType, Instants
<1>3. request' = [request EXCEPT ![s] = q]
  BY DEF Begin
<1>4. /\ request' \in [Requests -> RequestType] /\ request'[s] = q
      /\ \A r \in Requests \ {s} : request'[r] = request[r]
  <2> HIDE DEF q
  <2> QED BY <1>0, <1>2, <1>3
<1>5. /\ held' = [held EXCEPT ![s] = IF op \in Checked THEN Visible ELSE {}]
      /\ begunAt' = [begunAt EXCEPT ![s] = IF op \in Compared THEN changes ELSE 0]
      /\ floor' = [floor EXCEPT ![s] = IF op \in Checked THEN nothing ELSE shown]
  BY DEF Begin
<1>6. Visible \subseteq Ecosystems
  BY DEF Visible
<1>7. /\ held'[s] = (IF op \in Checked THEN Visible ELSE {})
      /\ \A r \in Requests \ {s} : held'[r] = held[r]
      /\ held' \in [Requests -> SUBSET Ecosystems]
  BY <1>0, <1>5, <1>6
<1>8. /\ begunAt'[s] = (IF op \in Compared THEN changes ELSE 0)
      /\ \A r \in Requests \ {s} : begunAt'[r] = begunAt[r]
      /\ begunAt' \in [Requests -> Nat]
  BY <1>0, <1>5
<1>9. /\ floor'[s] = (IF op \in Checked THEN nothing ELSE shown)
      /\ \A r \in Requests \ {s} : floor'[r] = floor[r]
      /\ floor' \in [Requests -> [Ecosystems -> Instants]]
  BY <1>0, <1>5, NothingType
<1>10. UNCHANGED <<role, rows, store, changes, shown>>
  BY DEF Begin
<1> HIDE DEF q
<1> QED BY <1>1, <1>4, <1>7, <1>8, <1>9, <1>10

\* A request begins with the queries that its route and the role call for.
LEMMA AskStep ==
    ASSUME TypeOK, NEW s \in Requests, Asks(s)
    PROVE  \E op \in Operations, about \in SUBSET Ecosystems, from \in Instants, stage \in Underway :
              /\ Begin(s, op, about, from, stage)
              /\ \/ op = "list" /\ stage = IF IsAdmin THEN "every" ELSE "owned"
                 \/ op = "open" /\ stage = "check" /\ \A x, y \in about : x = y
                 \/ op = "devices" /\ stage = (IF IsAdmin THEN "devices" ELSE "check")
                    /\ \A x, y \in about : x = y
                 \/ op \in {"metrics", "volume"} /\ stage = IF IsAdmin THEN "aggregate" ELSE "owned"
                 \/ op \in {"details", "lastInteraction"} /\ stage = "find" /\ \A x, y \in about : x = y
<1> USE DEF Operations, Checked, Underway, Instants
<1>1. CASE ListEcosystems(s)
  BY <1>1 DEF ListEcosystems
<1>2. CASE OpenEcosystem(s)
  BY <1>2 DEF OpenEcosystem
<1>3. CASE ListDevices(s)
  BY <1>3 DEF ListDevices
<1>4. CASE telemetryMetricsHandler(s)
  BY <1>4 DEF telemetryMetricsHandler, AskForContext
<1>5. CASE telemetryVolumeHandler(s)
  BY <1>5 DEF telemetryVolumeHandler, AskForContext
<1>6. CASE readDeviceDetails(s)
  BY <1>6 DEF readDeviceDetails
<1>7. CASE readQueryLastInteraction(s)
  BY <1>7 DEF readQueryLastInteraction
<1> QED BY <1>1, <1>2, <1>3, <1>4, <1>5, <1>6, <1>7 DEF Asks

\* What a request is when it has begun, and that it leaves the others alone.
LEMMA AskEffect ==
    ASSUME TypeOK, NEW s \in Requests, Asks(s)
    PROVE  LET p == request'[s] IN
           /\ UNCHANGED <<role, rows, store, changes, shown>>
           /\ \A r \in Requests \ {s} : /\ request'[r] = request[r] /\ held'[r] = held[r]
                                        /\ begunAt'[r] = begunAt[r] /\ floor'[r] = floor[r]
           /\ held'[s] = (IF p.op \in Checked THEN Visible ELSE {})
           /\ begunAt'[s] = (IF p.op \in Compared THEN changes ELSE 0)
           /\ floor'[s] = (IF p.op \in Checked THEN nothing ELSE shown)
           /\ \/ p.op = "list" /\ p.stage = IF IsAdmin THEN "every" ELSE "owned"
              \/ p.op = "open" /\ p.stage = "check" /\ \A x, y \in p.about : x = y
              \/ p.op = "devices" /\ p.stage = (IF IsAdmin THEN "devices" ELSE "check")
                 /\ \A x, y \in p.about : x = y
              \/ p.op \in {"metrics", "volume"} /\ p.stage = IF IsAdmin THEN "aggregate" ELSE "owned"
              \/ p.op \in {"details", "lastInteraction"} /\ p.stage = "find" /\ \A x, y \in p.about : x = y
           /\ request' \in [Requests -> RequestType] /\ held' \in [Requests -> SUBSET Ecosystems]
           /\ begunAt' \in [Requests -> Nat] /\ floor' \in [Requests -> [Ecosystems -> Instants]]
<1>1. PICK op \in Operations, about \in SUBSET Ecosystems, from \in Instants, stage \in Underway :
              /\ Begin(s, op, about, from, stage)
              /\ \/ op = "list" /\ stage = IF IsAdmin THEN "every" ELSE "owned"
                 \/ op = "open" /\ stage = "check" /\ \A x, y \in about : x = y
                 \/ op = "devices" /\ stage = (IF IsAdmin THEN "devices" ELSE "check")
                    /\ \A x, y \in about : x = y
                 \/ op \in {"metrics", "volume"} /\ stage = IF IsAdmin THEN "aggregate" ELSE "owned"
                 \/ op \in {"details", "lastInteraction"} /\ stage = "find" /\ \A x, y \in about : x = y
  BY AskStep
<1>2. Begin(s, op, about, from, stage)
  BY <1>1
<1>3. /\ UNCHANGED <<role, rows, store, changes, shown>>
      /\ \A r \in Requests \ {s} : /\ request'[r] = request[r] /\ held'[r] = held[r]
                                   /\ begunAt'[r] = begunAt[r] /\ floor'[r] = floor[r]
      /\ request'[s].op = op /\ request'[s].about = about /\ request'[s].stage = stage
      /\ held'[s] = (IF op \in Checked THEN Visible ELSE {})
      /\ begunAt'[s] = (IF op \in Compared THEN changes ELSE 0)
      /\ floor'[s] = (IF op \in Checked THEN nothing ELSE shown)
      /\ request' \in [Requests -> RequestType] /\ held' \in [Requests -> SUBSET Ecosystems]
      /\ begunAt' \in [Requests -> Nat] /\ floor' \in [Requests -> [Ecosystems -> Instants]]
  BY <1>2, BeginStep
<1> QED BY <1>1, <1>3

\* A service's query changes the one request, and never what it was about.
LEMMA SetStep ==
    ASSUME TypeOK, NEW s \in Requests, NEW q \in RequestType, Set(s, q)
    PROVE  /\ request' \in [Requests -> RequestType] /\ request'[s] = q
           /\ \A r \in Requests \ {s} : request'[r] = request[r]
  BY DEF TypeOK, Set

LEMMA AnswerIs ==
    ASSUME TypeOK, NEW s \in Requests, NEW reply \in SUBSET Ecosystems, Answer(s, reply)
    PROVE  /\ request' \in [Requests -> RequestType]
           /\ \A r \in Requests \ {s} : request'[r] = request[r]
           /\ request'[s].op = request[s].op /\ request'[s].about = request[s].about
           /\ request'[s].ids = request[s].ids /\ request'[s].latest = request[s].latest
           /\ request'[s].stage = "done" /\ request'[s].reply = reply
           /\ UNCHANGED shown
<1> DEFINE q == [request[s] EXCEPT !.stage = "done", !.reply = reply]
<1>1. request[s] \in RequestType
  BY DEF TypeOK
<1>2. q \in RequestType /\ q.op = request[s].op /\ q.about = request[s].about /\ q.stage = "done"
      /\ q.reply = reply /\ q.ids = request[s].ids /\ q.latest = request[s].latest
  BY <1>1 DEF RequestType, Over
<1>3. Set(s, q) /\ UNCHANGED shown
  BY DEF Answer
<1> HIDE DEF q
<1> QED BY <1>2, <1>3, SetStep

LEMMA ForbidIs ==
    ASSUME TypeOK, NEW s \in Requests, Forbid(s)
    PROVE  /\ request' \in [Requests -> RequestType]
           /\ \A r \in Requests \ {s} : request'[r] = request[r]
           /\ request'[s].op = request[s].op /\ request'[s].about = request[s].about
           /\ request'[s].stage = "forbidden"
           /\ UNCHANGED shown
<1> DEFINE q == [request[s] EXCEPT !.stage = "forbidden"]
<1>1. request[s] \in RequestType
  BY DEF TypeOK
<1>2. q \in RequestType /\ q.op = request[s].op /\ q.about = request[s].about /\ q.stage = "forbidden"
  BY <1>1 DEF RequestType, Over
<1>3. Set(s, q) /\ UNCHANGED shown
  BY DEF Forbid
<1> HIDE DEF q
<1> QED BY <1>2, <1>3, SetStep

LEMMA GatherIs ==
    ASSUME TypeOK, NEW s \in Requests, NEW stage \in Underway, NEW ids \in SUBSET Ecosystems,
           Set(s, [request[s] EXCEPT !.stage = stage, !.ids = ids])
    PROVE  /\ request' \in [Requests -> RequestType]
           /\ \A r \in Requests \ {s} : request'[r] = request[r]
           /\ request'[s].op = request[s].op /\ request'[s].about = request[s].about
           /\ request'[s].stage = stage /\ request'[s].ids = ids
<1> DEFINE q == [request[s] EXCEPT !.stage = stage, !.ids = ids]
<1>1. request[s] \in RequestType
  BY DEF TypeOK
<1>2. q \in RequestType /\ q.op = request[s].op /\ q.about = request[s].about /\ q.stage = stage
      /\ q.ids = ids
  BY <1>1 DEF RequestType, Over
<1>3. Set(s, q)
  OBVIOUS
<1> HIDE DEF q
<1> QED BY <1>2, <1>3, SetStep

LEMMA DocumentsAre ==
    ASSUME TypeOK, NEW docs \in SUBSET DOMAIN store
    PROVE  EcosystemsOf(docs) \subseteq Ecosystems
           /\ \A i \in docs : store[i].ecosystem \in Ecosystems /\ store[i].timestamp \in Times
<1>1. \A i \in DOMAIN store : store[i] \in Reading
  BY DEF TypeOK
<1> QED BY <1>1 DEF EcosystemsOf, Reading

\* The stages of one request, with what each query adds to it.
Progress(s) ==
    LET q == request[s]
        p == request'[s]
        allowed == {e \in q.about : status[e] # "REVOKED" /\ (IsAdmin \/ e \in Owned \/ access[e] = "VALID")}
    IN  \/ q.stage = "owned" /\ p.stage = "shared" /\ p.ids = OwnedRows
        \/ q.stage = "shared" /\ q.op = "list" /\ p.stage = "done"
           /\ p.reply = q.ids \union DelegatedRows(q.op)
        \/ q.stage = "shared" /\ q.op # "list" /\ p.stage = "forbidden"
           /\ q.ids \union DelegatedRows(q.op) = {}
        \/ q.stage = "shared" /\ q.op # "list" /\ p.stage = "aggregate"
           /\ p.ids = q.ids \union DelegatedRows(q.op) /\ p.ids # {}
        \/ q.stage = "every" /\ p.stage = "done"
        \/ q.stage = "check" /\ p.stage = "devices" /\ q.op = "devices" /\ allowed # {}
        \/ q.stage = "check" /\ p.stage = "done" /\ p.reply = allowed
        \/ q.stage = "devices" /\ p.stage = "done" /\ p.reply \subseteq q.about
        \/ q.stage = "aggregate" /\ p.stage = "done" /\ p.ids = q.ids
           /\ (role = "USER" /\ q.ids # {} => p.reply \subseteq q.ids)
        \/ q.stage = "aggregate" /\ q.op = "volume" /\ p.stage = "forbidden"

\* What is found of a device: nothing when nothing is stored, else the newest.
Finding(s) ==
    LET q == request[s]
        p == request'[s]
    IN  /\ q.stage = "find" /\ p.stage = "done"
        /\ \/ /\ \A i \in DOMAIN store : store[i].ecosystem \notin q.about
              /\ UNCHANGED shown
           \/ \E i \in DOMAIN store :
                 /\ store[i].ecosystem \in q.about /\ p.latest = store[i].timestamp
                 /\ \A j \in DOMAIN store : store[j].ecosystem \in q.about
                                               => store[i].timestamp >= store[j].timestamp
                 /\ shown' = [shown EXCEPT ![store[i].ecosystem] =
                                 IF store[i].timestamp > @ THEN store[i].timestamp ELSE @]

LEMMA AnswerStep ==
    ASSUME TypeOK, StagesFit, NEW s \in Requests, Answers(s)
    PROVE  /\ UNCHANGED <<role, rows, store, changes>>
           /\ request' \in [Requests -> RequestType]
           /\ \A r \in Requests \ {s} : request'[r] = request[r]
           /\ \/ /\ request'[s] = Idle /\ UNCHANGED shown
                 /\ held' = [held EXCEPT ![s] = {}] /\ begunAt' = [begunAt EXCEPT ![s] = 0]
                 /\ floor' = [floor EXCEPT ![s] = nothing]
              \/ /\ UNCHANGED <<held, begunAt, floor>>
                 /\ request'[s].op = request[s].op /\ request'[s].about = request[s].about
                 /\ (Progress(s) /\ UNCHANGED shown) \/ Finding(s)
<1>0. /\ request[s] \in RequestType /\ OwnedRows \subseteq Ecosystems
      /\ \A op : DelegatedRows(op) \subseteq Ecosystems
  BY OwnedAssumption DEF TypeOK, OwnedAssumption, OwnedRows, DelegatedRows
<1>1. CASE FindOwned(s)
  <2>1. Set(s, [request[s] EXCEPT !.stage = "shared", !.ids = OwnedRows])
        /\ request[s].stage = "owned" /\ UNCHANGED shown /\ Unchanged
    BY <1>1 DEF FindOwned
  <2>2. "shared" \in Underway
    BY DEF Underway
  <2>3. /\ request' \in [Requests -> RequestType]
        /\ \A r \in Requests \ {s} : request'[r] = request[r]
        /\ request'[s].op = request[s].op /\ request'[s].about = request[s].about
        /\ request'[s].stage = "shared" /\ request'[s].ids = OwnedRows
    <3>1. OwnedRows \in SUBSET Ecosystems
      BY <1>0
    <3> QED BY <2>1, <2>2, <3>1, GatherIs
  <2> QED BY <2>1, <2>3 DEF Unchanged, Progress
<1>2. CASE FindDelegated(s)
  <2> DEFINE ids == request[s].ids \union DelegatedRows(request[s].op)
  <2>1. request[s].stage = "shared" /\ Unchanged
        /\ IF request[s].op = "list" THEN Answer(s, ids) ELSE Context(s, ids)
    BY <1>2 DEF FindDelegated
  <2>2. ids \in SUBSET Ecosystems
    BY <1>0 DEF RequestType
  <2>3. CASE request[s].op = "list"
    <3>1. Answer(s, ids)
      BY <2>1, <2>3
    <3>2. /\ request' \in [Requests -> RequestType]
          /\ \A r \in Requests \ {s} : request'[r] = request[r]
          /\ request'[s].op = request[s].op /\ request'[s].about = request[s].about
          /\ request'[s].stage = "done" /\ request'[s].reply = ids
          /\ UNCHANGED shown
      <4> HIDE DEF ids
      <4> QED BY <2>2, <3>1, AnswerIs
    <3> QED BY <2>1, <2>3, <3>2 DEF Unchanged, Progress
  <2>4. CASE request[s].op # "list" /\ ids = {}
    <3>1. Forbid(s)
      BY <2>1, <2>4 DEF Context
    <3> QED BY <2>1, <2>4, <3>1, ForbidIs DEF Unchanged, Progress
  <2>5. CASE request[s].op # "list" /\ ids # {}
    <3>1. Set(s, [request[s] EXCEPT !.stage = "aggregate", !.ids = ids]) /\ UNCHANGED shown
      BY <2>1, <2>5 DEF Context
    <3>2. "aggregate" \in Underway
      BY DEF Underway
    <3>3. /\ request' \in [Requests -> RequestType]
          /\ \A r \in Requests \ {s} : request'[r] = request[r]
          /\ request'[s].op = request[s].op /\ request'[s].about = request[s].about
          /\ request'[s].stage = "aggregate" /\ request'[s].ids = ids
      <4> HIDE DEF ids
      <4> QED BY <2>2, <3>1, <3>2, GatherIs, ZenonT(30)
    <3> QED BY <2>1, <2>5, <3>1, <3>3 DEF Unchanged, Progress
  <2> QED BY <2>3, <2>4, <2>5
<1>3. CASE FindEvery(s)
  <2>1. {e \in Ecosystems : status[e] = "ACTIVE"} \in SUBSET Ecosystems
    OBVIOUS
  <2> QED BY <1>3, <2>1, AnswerIs DEF FindEvery, Unchanged, Progress
<1>4. CASE CheckAccess(s)
  <2> DEFINE allowed == {e \in request[s].about : status[e] # "REVOKED"
                                             /\ (IsAdmin \/ e \in Owned \/ access[e] = "VALID")}
  <2>1. request[s].stage = "check" /\ Unchanged
        /\ IF request[s].op = "devices" /\ allowed # {}
           THEN Set(s, [request[s] EXCEPT !.stage = "devices"]) /\ UNCHANGED shown
           ELSE Answer(s, allowed)
    BY <1>4 DEF CheckAccess
  <2>2. allowed \in SUBSET Ecosystems
    BY <1>0 DEF RequestType
  <2>3. CASE request[s].op = "devices" /\ allowed # {}
    <3> DEFINE q == [request[s] EXCEPT !.stage = "devices"]
    <3>1. q \in RequestType /\ q.op = request[s].op /\ q.about = request[s].about /\ q.stage = "devices"
      BY <1>0 DEF RequestType, Underway
    <3>2. Set(s, q) /\ UNCHANGED shown
      BY <2>1, <2>3
    <3>3. /\ request' \in [Requests -> RequestType] /\ request'[s] = q
          /\ \A r \in Requests \ {s} : request'[r] = request[r]
      <4> HIDE DEF q
      <4> QED BY <3>1, <3>2, SetStep
    <3> HIDE DEF q
    <3> QED BY <2>1, <2>3, <3>1, <3>2, <3>3 DEF Unchanged, Progress
  <2>4. CASE ~(request[s].op = "devices" /\ allowed # {})
    <3>1. Answer(s, allowed)
      BY <2>1, <2>4
    <3>2. /\ request' \in [Requests -> RequestType]
          /\ \A r \in Requests \ {s} : request'[r] = request[r]
          /\ request'[s].op = request[s].op /\ request'[s].about = request[s].about
          /\ request'[s].stage = "done" /\ request'[s].reply = allowed
          /\ UNCHANGED shown
      <4> HIDE DEF allowed
      <4> QED BY <2>2, <3>1, AnswerIs
    <3> QED BY <2>1, <3>2 DEF Unchanged, Progress
  <2> QED BY <2>3, <2>4
<1>5. CASE FindDevices(s)
  <2> DEFINE reply == {e \in request[s].about : status[e] # "REVOKED"}
  <2>1. reply \in SUBSET Ecosystems /\ reply \subseteq request[s].about
    BY <1>0 DEF RequestType
  <2>2. request[s].stage = "devices" /\ Unchanged /\ Answer(s, reply)
    BY <1>5 DEF FindDevices
  <2> HIDE DEF reply
  <2> QED BY <2>1, <2>2, AnswerIs DEF Unchanged, Progress
<1>6. CASE GetMetrics(s)
  <2> DEFINE ids == IF role = "USER" THEN request[s].ids ELSE {}
             docs == MatchedByMetrics(ids, request[s].from)
             reply == EcosystemsOf(docs)
  <2>1. request[s].stage = "aggregate" /\ Unchanged /\ Answer(s, reply)
    BY <1>6 DEF GetMetrics
  <2>2. docs \in SUBSET DOMAIN store
    BY DEF MatchedByMetrics
  <2>3. reply \in SUBSET Ecosystems
    BY <2>2, DocumentsAre
  <2>4. role = "USER" /\ request[s].ids # {} => reply \subseteq request[s].ids
    BY DEF MatchedByMetrics, EcosystemsOf
  <2> HIDE DEF reply
  <2> QED BY <2>1, <2>3, <2>4, AnswerIs DEF Unchanged, Progress
<1>7. CASE GetVolume(s)
  <2> DEFINE valid == IF IsAdmin THEN request[s].about ELSE request[s].about \intersect request[s].ids
             reply == EcosystemsOf(MatchedByVolume(valid))
  <2>1. request[s].stage = "aggregate" /\ request[s].op = "volume" /\ Unchanged
        /\ IF valid = {} THEN Forbid(s) ELSE Answer(s, reply)
    BY <1>7 DEF GetVolume
  <2>2. MatchedByVolume(valid) \in SUBSET DOMAIN store
    BY DEF MatchedByVolume
  <2>3. reply \in SUBSET Ecosystems
    BY <2>2, DocumentsAre
  <2>4. role = "USER" /\ request[s].ids # {} => reply \subseteq request[s].ids
    BY DEF MatchedByVolume, EcosystemsOf, IsAdmin
  <2>5. CASE valid = {}
    BY <2>1, <2>5, ForbidIs DEF Unchanged, Progress
  <2>6. CASE valid # {}
    <3>1. Answer(s, reply)
      BY <2>1, <2>6
    <3> HIDE DEF reply
    <3> QED BY <2>1, <2>3, <2>4, <3>1, AnswerIs DEF Unchanged, Progress
  <2> QED BY <2>5, <2>6
<1>8. CASE FindLatest(s)
  <2> DEFINE docs == {i \in DOMAIN store : store[i].ecosystem \in request[s].about}
  <2>1. request[s].stage = "find" /\ Unchanged
    BY <1>8 DEF FindLatest
  <2>2. CASE docs = {}
    <3>1. Answer(s, {})
      BY <1>8, <2>2 DEF FindLatest
    <3>2. \A i \in DOMAIN store : store[i].ecosystem \notin request[s].about
      BY <2>2
    <3> QED BY <2>1, <3>1, <3>2, AnswerIs DEF Unchanged, Finding
  <2>3. CASE docs # {}
    <3>1. PICK i \in Newest(docs) :
             /\ Set(s, [request[s] EXCEPT !.stage = "done", !.reply = {store[i].ecosystem},
                                          !.latest = store[i].timestamp])
             /\ shown' = [shown EXCEPT ![store[i].ecosystem] =
                             IF store[i].timestamp > @ THEN store[i].timestamp ELSE @]
      BY <1>8, <2>3 DEF FindLatest
    <3>2. i \in docs /\ \A j \in docs : store[i].timestamp >= store[j].timestamp
      BY <3>1 DEF Newest
    <3>3. docs \in SUBSET DOMAIN store
      OBVIOUS
    <3>4. store[i].ecosystem \in Ecosystems /\ store[i].timestamp \in Times
      BY <3>2, <3>3, DocumentsAre
    <3> DEFINE t == store[i].timestamp
               e == store[i].ecosystem
               q == [request[s] EXCEPT !.stage = "done", !.reply = {e}, !.latest = t]
    <3>5. /\ q \in RequestType /\ q.op = request[s].op /\ q.about = request[s].about
          /\ q.stage = "done" /\ q.latest = t
      <4> HIDE DEF t, e
      <4>1. t \in Instants /\ {e} \in SUBSET Ecosystems
        BY <3>4 DEF t, e, Instants
      <4> QED BY <1>0, <4>1 DEF RequestType, Over
    <3>6. /\ request' \in [Requests -> RequestType] /\ request'[s] = q
          /\ \A r \in Requests \ {s} : request'[r] = request[r]
      <4>1. Set(s, q)
        BY <3>1
      <4> HIDE DEF q
      <4> QED BY <3>5, <4>1, SetStep
    <3>7. Finding(s)
      <4> HIDE DEF q
      <4> QED BY <2>1, <3>1, <3>2, <3>5, <3>6 DEF Finding
    <3> HIDE DEF q
    <3> QED BY <2>1, <3>5, <3>6, <3>7 DEF Unchanged
  <2> QED BY <2>2, <2>3
<1>9. CASE Fail(s)
  <2>1. Set(s, Idle) /\ UNCHANGED <<role, rows, store, changes, shown>>
        /\ held' = [held EXCEPT ![s] = {}] /\ begunAt' = [begunAt EXCEPT ![s] = 0]
        /\ floor' = [floor EXCEPT ![s] = nothing]
    BY <1>9 DEF Fail
  <2> QED BY <2>1, SetStep, IdleType
<1> QED BY <1>1, <1>2, <1>3, <1>4, <1>5, <1>6, <1>7, <1>8, <1>9 DEF Answers

-----------------------------------------------------------------------------
(* The parts of the invariant, one at a time.                               *)

LEMMA InitIInv == Init => IInv
<1>1. SUFFICES ASSUME Init PROVE IInv
  OBVIOUS
<1>2. TypeOK
  <2>1. store \in Seq(Reading)
    BY <1>1 DEF Init
  <2>2. request \in [Requests -> RequestType]
    BY <1>1, IdleType DEF Init
  <2>3. shown \in [Ecosystems -> Instants] /\ floor \in [Requests -> [Ecosystems -> Instants]]
    BY <1>1, NothingType DEF Init
  <2> QED BY <1>1, <2>1, <2>2, <2>3 DEF Init, TypeOK
<1>3. \A r \in Requests : request[r].op = "list" /\ request[r].stage = "idle"
  BY <1>1 DEF Init, Idle
<1>4. StagesFit /\ GatheredWasHeld /\ NeverOlder
  BY <1>3 DEF StagesFit, GatheredWasHeld, NeverOlder, Underway, Checked
<1>5. GatheredIsAll
  BY <1>1, <1>3 DEF Init, GatheredIsAll
<1>6. ShownIsStored
  BY <1>1 DEF Init, ShownIsStored, nothing
<1> QED BY <1>2, <1>4, <1>5, <1>6 DEF IInv

LEMMA StepType ==
    ASSUME TypeOK, StagesFit, [Next]_vars
    PROVE  TypeOK'
<1>1. CASE Others
  <2>1. CASE UNCHANGED <<rows, changes, held>> /\ \E d \in Reading : store' = Append(store, d)
    <3>1. store' \in Seq(Reading)
      BY <2>1 DEF TypeOK
    <3> QED BY <1>1, <2>1, <3>1, OthersStep DEF TypeOK, rows
  <2>2. CASE /\ changes' = changes + 1 /\ UNCHANGED store
             /\ held' = [r \in Requests |->
                          IF request[r].stage \in Over \/ request[r].op \notin Checked
                          THEN held[r] ELSE held[r] \union Visible']
             /\ status' \in [Ecosystems -> {"ACTIVE", "REVOKED"}]
             /\ access' \in [Ecosystems -> {"NONE", "PENDING", "VALID", "REVOKED"}]
    <3>1. Visible' \subseteq Ecosystems
      BY DEF Visible
    <3>2. held' \in [Requests -> SUBSET Ecosystems]
      BY <2>2, <3>1 DEF TypeOK
    <3>3. changes' \in Nat
      BY <2>2 DEF TypeOK
    <3> QED BY <1>1, <2>2, <3>2, <3>3, OthersStep DEF TypeOK
  <2> QED BY <1>1, <2>1, <2>2, OthersStep
<1>2. ASSUME NEW s \in Requests, Asks(s) PROVE TypeOK'
  BY <1>2, AskEffect DEF TypeOK, rows
<1>3. ASSUME NEW s \in Requests, Answers(s) PROVE TypeOK'
  <2>1. /\ UNCHANGED <<role, rows, store, changes>> /\ request' \in [Requests -> RequestType]
    BY <1>3, AnswerStep
  <2>2. /\ held' \in [Requests -> SUBSET Ecosystems]
        /\ begunAt' \in [Requests -> Nat] /\ floor' \in [Requests -> [Ecosystems -> Instants]]
    <3>1. \/ UNCHANGED <<held, begunAt, floor>>
          \/ /\ held' = [held EXCEPT ![s] = {}] /\ begunAt' = [begunAt EXCEPT ![s] = 0]
             /\ floor' = [floor EXCEPT ![s] = nothing]
      BY <1>3, AnswerStep
    <3>2. /\ held \in [Requests -> SUBSET Ecosystems]
          /\ begunAt \in [Requests -> Nat] /\ floor \in [Requests -> [Ecosystems -> Instants]]
      BY DEF TypeOK
    <3>3. {} \in SUBSET Ecosystems /\ 0 \in Nat /\ nothing \in [Ecosystems -> Instants]
      BY NothingType
    <3> QED BY <3>1, <3>2, <3>3
  <2>3. shown' \in [Ecosystems -> Instants]
    <3>1. CASE Finding(s)
      <4>1. UNCHANGED shown \/ \E i \in DOMAIN store :
               shown' = [shown EXCEPT ![store[i].ecosystem] =
                            IF store[i].timestamp > @ THEN store[i].timestamp ELSE @]
        BY <3>1 DEF Finding
      <4>2. \A i \in DOMAIN store : store[i].timestamp \in Instants
        <5>1. \A i \in DOMAIN store : store[i] \in Reading
          BY DEF TypeOK
        <5> QED BY <5>1 DEF Reading, Instants
      <4>3. CASE UNCHANGED shown
        BY <4>3 DEF TypeOK
      <4>4. ASSUME NEW i \in DOMAIN store, NEW e,
                   shown' = [shown EXCEPT ![e] = IF store[i].timestamp > @ THEN store[i].timestamp ELSE @]
            PROVE  shown' \in [Ecosystems -> Instants]
        <5> DEFINE t == store[i].timestamp
        <5>1. t \in Instants /\ shown \in [Ecosystems -> Instants]
          BY <4>2 DEF TypeOK
        <5>2. shown' = [shown EXCEPT ![e] = IF t > shown[e] THEN t ELSE shown[e]]
          BY <4>4
        <5> HIDE DEF t
        <5> QED BY <5>1, <5>2
      <4> QED BY <4>1, <4>3, <4>4
    <3>2. CASE UNCHANGED shown
      BY <3>2 DEF TypeOK
    <3>3. UNCHANGED shown \/ Finding(s)
      BY <1>3, AnswerStep
    <3> QED BY <3>1, <3>2, <3>3
  <2> QED BY <2>1, <2>2, <2>3 DEF TypeOK, rows
<1>4. CASE UNCHANGED vars
  BY <1>4 DEF TypeOK, vars, rows, history
<1> QED BY <1>1, <1>2, <1>3, <1>4 DEF Next

LEMMA StepStages ==
    ASSUME TypeOK, StagesFit, [Next]_vars
    PROVE  StagesFit'
<1>1. CASE Others
  <2>1. UNCHANGED request
    BY <1>1, OthersStep
  <2> QED BY <2>1 DEF StagesFit, Underway, Checked
<1>2. ASSUME NEW s \in Requests, Asks(s) PROVE StagesFit'
  <2> DEFINE p == request'[s]
  <2>1. /\ \A r \in Requests \ {s} : request'[r] = request[r]
        /\ \/ p.op = "list" /\ p.stage \in {"every", "owned"}
           \/ p.op = "open" /\ p.stage = "check" /\ \A x, y \in p.about : x = y
           \/ p.op = "devices" /\ p.stage \in {"devices", "check"} /\ \A x, y \in p.about : x = y
           \/ p.op \in {"metrics", "volume"} /\ p.stage \in {"aggregate", "owned"}
           \/ p.op \in {"details", "lastInteraction"} /\ p.stage = "find" /\ \A x, y \in p.about : x = y
    BY <1>2, AskEffect
  <2> QED BY <2>1 DEF StagesFit, Underway, Checked
<1>3. ASSUME NEW s \in Requests, Answers(s) PROVE StagesFit'
  <2>1. /\ \A r \in Requests \ {s} : request'[r] = request[r]
        /\ \/ request'[s] = Idle
           \/ /\ request'[s].op = request[s].op /\ request'[s].about = request[s].about
              /\ Progress(s) \/ Finding(s)
    BY <1>3, AnswerStep
  <2>2. CASE request'[s] = Idle
    BY <2>1, <2>2 DEF Idle, StagesFit, Underway, Checked
  <2>3. CASE /\ request'[s].op = request[s].op /\ request'[s].about = request[s].about
             /\ Progress(s)
    <3>1. /\ request[s].stage \in Underway \ {"find"}
          /\ request'[s].stage \in {"shared", "done", "forbidden", "aggregate", "devices"}
          /\ request'[s].stage = "aggregate" => request[s].stage = "shared" /\ request[s].op # "list"
          /\ request'[s].stage = "devices" => request[s].stage = "check"
          /\ request'[s].stage = "shared" => request[s].stage = "owned"
      BY <2>3 DEF Progress, StagesFit, Underway
    <3> QED BY <2>1, <2>3, <3>1 DEF StagesFit, Underway, Checked
  <2>4. CASE /\ request'[s].op = request[s].op /\ request'[s].about = request[s].about
             /\ Finding(s)
    <3>1. request[s].stage = "find" /\ request'[s].stage = "done"
      BY <2>4 DEF Finding
    <3> QED BY <2>1, <2>4, <3>1 DEF StagesFit, Underway, Checked
  <2> QED BY <2>1, <2>2, <2>3, <2>4
<1>4. CASE UNCHANGED vars
  BY <1>4 DEF vars, StagesFit
<1> QED BY <1>1, <1>2, <1>3, <1>4 DEF Next

\* A token's role is what it was.
LEMMA RoleStays ==
    ASSUME TypeOK, StagesFit, [Next]_vars
    PROVE  role' = role
<1>1. CASE Others
  BY <1>1, OthersStep
<1>2. ASSUME NEW s \in Requests, Asks(s) PROVE role' = role
  BY <1>2, AskEffect
<1>3. ASSUME NEW s \in Requests, Answers(s) PROVE role' = role
  BY <1>3, AnswerStep
<1> QED BY <1>1, <1>2, <1>3 DEF Next, vars

LEMMA StepHeld ==
    ASSUME TypeOK, StagesFit, GatheredWasHeld, [Next]_vars
    PROVE  GatheredWasHeld'
<1>0. role' = role
  BY RoleStays
<1>1. SUFFICES ASSUME role = "USER", NEW r \in Requests
               PROVE  /\ request'[r].stage # "every"
                      /\ request'[r].op \in Checked /\ request'[r].stage \in Underway => Visible' \subseteq held'[r]
                      /\ request'[r].stage \in {"shared", "aggregate"} => request'[r].ids \subseteq held'[r]
                      /\ request'[r].stage = "aggregate" => request'[r].ids # {}
                      /\ request'[r].stage = "devices" => request'[r].about \subseteq held'[r]
                      /\ request'[r].op \in Checked /\ request'[r].stage = "done"
                            => request'[r].reply \subseteq held'[r]
  BY <1>0 DEF GatheredWasHeld
<1>2. /\ request[r].stage # "every"
      /\ request[r].op \in Checked /\ request[r].stage \in Underway => Visible \subseteq held[r]
      /\ request[r].stage \in {"shared", "aggregate"} => request[r].ids \subseteq held[r]
      /\ request[r].stage = "aggregate" => request[r].ids # {}
      /\ request[r].stage = "devices" => request[r].about \subseteq held[r]
      /\ request[r].op \in Checked /\ request[r].stage = "done" => request[r].reply \subseteq held[r]
  BY <1>1 DEF GatheredWasHeld
<1>3. request[r].stage \in Underway \ {"find"} => request[r].op \in Checked
  BY DEF StagesFit
<1>4. CASE request'[r] = request[r] /\ held'[r] = held[r] /\ UNCHANGED rows
  <2>1. Visible' = Visible
    BY <1>4 DEF Visible, rows
  <2> QED BY <1>2, <1>4, <2>1
<1>5. CASE Others
  <2>1. CASE UNCHANGED <<rows, changes, held>>
    BY <1>4, <1>5, <2>1, OthersStep
  <2>2. CASE held' = [x \in Requests |->
                          IF request[x].stage \in Over \/ request[x].op \notin Checked
                          THEN held[x] ELSE held[x] \union Visible']
    <3>1. request' = request
      BY <1>5, OthersStep
    <3>2. held'[r] = IF request[r].stage \in Over \/ request[r].op \notin Checked
                     THEN held[r] ELSE held[r] \union Visible'
      BY <2>2
    <3>3. CASE request[r].stage \in Over \/ request[r].op \notin Checked
      <4>1. held'[r] = held[r] /\ ~(request[r].op \in Checked /\ request[r].stage \in Underway)
        BY <3>2, <3>3 DEF Over, Underway
      <4> QED BY <1>2, <3>1, <4>1
    <3>4. CASE ~(request[r].stage \in Over \/ request[r].op \notin Checked)
      <4>1. held'[r] = held[r] \union Visible' /\ request[r].stage # "done"
        BY <3>2, <3>4 DEF Over
      <4> QED BY <1>2, <3>1, <4>1
    <3> QED BY <3>3, <3>4
  <2> QED BY <1>5, <2>1, <2>2, OthersStep
<1>6. ASSUME NEW s \in Requests, Asks(s), r # s
      PROVE  request'[r] = request[r] /\ held'[r] = held[r] /\ UNCHANGED rows
  BY <1>6, AskEffect
<1>7. ASSUME NEW s \in Requests, Answers(s), r # s
      PROVE  request'[r] = request[r] /\ held'[r] = held[r] /\ UNCHANGED rows
  BY <1>7, AnswerStep DEF TypeOK
<1>8. CASE Asks(r)
  <2>1. /\ request'[r].stage \in {"owned", "check", "find"}
        /\ request'[r].op \in Checked => held'[r] = Visible
    BY <1>1, <1>8, AskEffect DEF IsAdmin
  <2>2. Visible' = Visible
    BY <1>8, AskEffect DEF Visible, rows
  <2> QED BY <2>1, <2>2
<1>9. CASE Answers(r)
  <2> DEFINE q == request[r]
             p == request'[r]
  <2>1. Visible' = Visible
    BY <1>9, AnswerStep DEF Visible, rows
  <2>2. CASE p = Idle
    BY <2>2 DEF Idle, Underway
  <2>3. CASE UNCHANGED <<held, begunAt, floor>> /\ p.op = q.op /\ p.about = q.about /\ Finding(r)
    <3>1. q.stage = "find" /\ p.stage = "done" /\ q.op \notin Checked
      BY <2>3 DEF Finding, StagesFit
    <3> QED BY <2>3, <3>1 DEF Underway
  <2>4. CASE UNCHANGED <<held, begunAt, floor>> /\ p.op = q.op /\ p.about = q.about /\ Progress(r)
    <3> DEFINE allowed == {e \in q.about : status[e] # "REVOKED" /\ (IsAdmin \/ e \in Owned \/ access[e] = "VALID")}
    <3>1. /\ allowed \subseteq Visible /\ OwnedRows \subseteq Visible
          /\ \A op : DelegatedRows(op) \subseteq Visible
      <4>1. q.about \subseteq Ecosystems /\ \A e \in Ecosystems : status[e] \in {"ACTIVE", "REVOKED"}
        BY DEF TypeOK, RequestType
      <4>2. ~IsAdmin
        BY <1>1 DEF IsAdmin
      <4>3. allowed \subseteq Visible
        BY <4>1, <4>2 DEF Visible
      <4> QED BY <4>3, QueriesGiveAll
    <3>2. q.stage \in Underway \ {"find"}
      BY <2>4 DEF Progress, Underway
    <3>3. Visible \subseteq held[r]
      BY <1>2, <1>3, <3>2
    <3>4. q.stage = "check" /\ allowed # {} => q.about \subseteq allowed
      <4>1. q.stage = "check" => \A x, y \in q.about : x = y
        BY DEF StagesFit
      <4> QED BY <4>1
    <3>5. CASE p.stage = "shared" /\ p.ids = OwnedRows
      BY <2>1, <2>4, <3>1, <3>3, <3>5
    <3>6. CASE q.stage = "shared" /\ p.stage = "done" /\ p.reply = q.ids \union DelegatedRows(q.op)
      BY <1>2, <2>1, <2>4, <3>1, <3>3, <3>6 DEF Underway
    <3>7. CASE p.stage = "forbidden"
      BY <3>7 DEF Underway
    <3>8. CASE q.stage = "shared" /\ p.stage = "aggregate" /\ p.ids = q.ids \union DelegatedRows(q.op) /\ p.ids # {}
      BY <1>2, <2>1, <2>4, <3>1, <3>3, <3>8
    <3>9. CASE q.stage = "check" /\ p.stage = "devices" /\ allowed # {}
      <4>1. p.about \subseteq held'[r] /\ Visible' \subseteq held'[r]
        BY <2>1, <2>4, <3>1, <3>3, <3>4, <3>9
      <4> QED BY <3>9, <4>1
    <3>10. CASE q.stage = "check" /\ p.stage = "done" /\ p.reply = allowed
      <4>1. p.reply \subseteq held'[r]
        BY <2>4, <3>1, <3>3, <3>10
      <4> QED BY <3>10, <4>1 DEF Underway
    <3>11. CASE q.stage = "devices" /\ p.stage = "done" /\ p.reply \subseteq q.about
      BY <1>2, <2>4, <3>11 DEF Underway
    <3>12. CASE q.stage = "aggregate" /\ p.stage = "done" /\ (q.ids # {} => p.reply \subseteq q.ids)
      BY <1>2, <2>4, <3>12 DEF Underway
    <3> QED BY <1>1, <1>2, <2>4, <3>5, <3>6, <3>7, <3>8, <3>9, <3>10, <3>11, <3>12 DEF Progress
  <2> QED BY <1>9, <2>2, <2>3, <2>4, AnswerStep
<1>10. CASE UNCHANGED vars
  <2>1. UNCHANGED <<rows, request, changes, held, begunAt>>
    BY <1>10 DEF vars, rows
  <2> QED BY <1>4, <2>1
<1>11. CASE \E s \in Requests : Asks(s) \/ Answers(s)
  BY <1>4, <1>6, <1>7, <1>8, <1>9, <1>11
<1> QED BY <1>5, <1>10, <1>11 DEF Next

LEMMA StepAll ==
    ASSUME TypeOK, StagesFit, GatheredWasHeld, GatheredIsAll, [Next]_vars
    PROVE  GatheredIsAll'
<1>0. role' = role
  BY RoleStays
<1>1. SUFFICES ASSUME NEW r \in Requests
               PROVE  /\ begunAt'[r] <= changes'
                      /\ begunAt'[r] = changes' /\ request'[r].op \in Compared =>
                          /\ request'[r].stage = "shared" => request'[r].ids = OwnedRows'
                          /\ role = "USER" /\ request'[r].op = "list" /\ request'[r].stage = "done"
                                => request'[r].reply = Visible'
                          /\ role = "USER" /\ request'[r].op = "metrics" /\ request'[r].stage \in {"aggregate", "done"}
                                => request'[r].ids = Visible'
                          /\ role = "USER" /\ request'[r].op = "metrics" /\ request'[r].stage = "forbidden"
                                => Visible' = {}
  BY <1>0 DEF GatheredIsAll
<1>2. /\ begunAt[r] <= changes
      /\ begunAt[r] = changes /\ request[r].op \in Compared =>
          /\ request[r].stage = "shared" => request[r].ids = OwnedRows
          /\ role = "USER" /\ request[r].op = "list" /\ request[r].stage = "done"
                => request[r].reply = Visible
          /\ role = "USER" /\ request[r].op = "metrics" /\ request[r].stage \in {"aggregate", "done"}
                => request[r].ids = Visible
          /\ role = "USER" /\ request[r].op = "metrics" /\ request[r].stage = "forbidden"
                => Visible = {}
  BY DEF GatheredIsAll
<1>3. begunAt[r] \in Nat /\ changes \in Nat
  BY DEF TypeOK
<1>4. CASE UNCHANGED rows /\ request'[r] = request[r] /\ begunAt'[r] = begunAt[r] /\ changes' = changes
  <2>1. Visible' = Visible /\ OwnedRows' = OwnedRows
    BY <1>4 DEF Visible, OwnedRows, rows
  <2> QED BY <1>2, <1>4, <2>1
<1>5. CASE Others
  <2>1. CASE UNCHANGED <<rows, changes, held>>
    BY <1>4, <1>5, <2>1, OthersStep
  <2>2. CASE changes' = changes + 1
    <3>1. begunAt' = begunAt
      BY <1>5, OthersStep
    <3>2. begunAt'[r] <= changes' /\ begunAt'[r] # changes'
      BY <1>2, <1>3, <2>2, <3>1
    <3> QED BY <3>2
  <2> QED BY <1>5, <2>1, <2>2, OthersStep
<1>6. ASSUME NEW s \in Requests, Asks(s), r # s
      PROVE  UNCHANGED rows /\ request'[r] = request[r] /\ begunAt'[r] = begunAt[r] /\ changes' = changes
  BY <1>6, AskEffect
<1>7. ASSUME NEW s \in Requests, Answers(s), r # s
      PROVE  UNCHANGED rows /\ request'[r] = request[r] /\ begunAt'[r] = begunAt[r] /\ changes' = changes
  BY <1>7, AnswerStep DEF TypeOK
<1>8. CASE Asks(r)
  <2>1. /\ changes' = changes /\ begunAt'[r] \in {changes, 0}
        /\ request'[r].stage \in {"every", "owned", "check", "devices", "aggregate", "find"}
        /\ request'[r].stage = "aggregate" => role # "USER"
    BY <1>8, AskEffect DEF IsAdmin
  <2>2. begunAt'[r] <= changes'
    BY <1>3, <2>1
  <2> QED BY <2>1, <2>2
<1>9. CASE Answers(r)
  <2> DEFINE q == request[r]
             p == request'[r]
  <2>1. Visible' = Visible /\ OwnedRows' = OwnedRows /\ changes' = changes
    BY <1>9, AnswerStep DEF Visible, OwnedRows, rows
  <2>2. CASE p = Idle /\ begunAt' = [begunAt EXCEPT ![r] = 0]
    <3>1. begunAt'[r] = 0 /\ p.stage = "idle"
      BY <2>2 DEF Idle, TypeOK
    <3> QED BY <1>3, <2>1, <3>1
  <2>3. CASE UNCHANGED <<held, begunAt, floor>> /\ p.op = q.op /\ p.about = q.about /\ Finding(r)
    <3>1. p.op \notin Compared
      BY <2>3 DEF Finding, StagesFit, Checked, Compared
    <3> QED BY <1>2, <2>1, <2>3, <3>1
  <2>4. CASE UNCHANGED <<held, begunAt, floor>> /\ p.op = q.op /\ p.about = q.about /\ Progress(r)
    <3>1. begunAt'[r] = begunAt[r]
      BY <2>4
    <3>2. \A op : OwnedRows \union DelegatedRows(op) = Visible
      BY QueriesGiveAll
    <3>3. /\ q.stage = "every" => role # "USER"
          /\ q.stage \in {"check", "devices"} => q.op \notin Compared
      BY DEF GatheredWasHeld, StagesFit, Compared
    <3>4. CASE q.stage = "owned" /\ p.stage = "shared" /\ p.ids = OwnedRows
      BY <1>2, <2>1, <3>1, <3>4
    <3>5. CASE q.stage = "shared" /\ q.op = "list" /\ p.stage = "done"
               /\ p.reply = q.ids \union DelegatedRows(q.op)
      BY <1>2, <2>1, <2>4, <3>1, <3>2, <3>5
    <3>6. CASE q.stage = "shared" /\ q.op # "list" /\ p.stage = "forbidden"
               /\ q.ids \union DelegatedRows(q.op) = {}
      BY <1>2, <2>1, <2>4, <3>1, <3>2, <3>6
    <3>7. CASE q.stage = "shared" /\ q.op # "list" /\ p.stage = "aggregate"
               /\ p.ids = q.ids \union DelegatedRows(q.op) /\ p.ids # {}
      BY <1>2, <2>1, <2>4, <3>1, <3>2, <3>7
    <3>8. CASE q.stage = "every" /\ p.stage = "done"
      BY <1>2, <2>1, <2>4, <3>1, <3>3, <3>8
    <3>9. CASE q.stage \in {"check", "devices"}
      BY <1>2, <2>1, <2>4, <3>1, <3>3, <3>9
    <3>10. CASE q.stage = "aggregate" /\ p.stage = "done" /\ p.ids = q.ids
      <4>1. q.op # "list"
        BY <3>10 DEF StagesFit
      <4> QED BY <1>2, <2>1, <2>4, <3>1, <3>10, <4>1
    <3>11. CASE q.stage = "aggregate" /\ q.op = "volume" /\ p.stage = "forbidden"
      BY <1>2, <2>1, <2>4, <3>1, <3>11
    <3> QED BY <2>4, <3>4, <3>5, <3>6, <3>7, <3>8, <3>9, <3>10, <3>11 DEF Progress
  <2> QED BY <1>9, <2>2, <2>3, <2>4, AnswerStep
<1>10. CASE UNCHANGED vars
  <2>1. UNCHANGED <<rows, request, changes, held, begunAt>>
    BY <1>10 DEF vars, rows
  <2> QED BY <1>4, <2>1
<1>11. CASE \E s \in Requests : Asks(s) \/ Answers(s)
  BY <1>4, <1>6, <1>7, <1>8, <1>9, <1>11
<1> QED BY <1>5, <1>10, <1>11 DEF Next

LEMMA InstantsAre == Instants \subseteq Nat /\ \A e \in Ecosystems : nothing[e] = 0
  BY TimesAssumption DEF TimesAssumption, Instants, nothing

LEMMA StepShown ==
    ASSUME TypeOK, StagesFit, ShownIsStored, [Next]_vars
    PROVE  ShownIsStored'
<1>0. /\ \A e \in Ecosystems : shown[e] # 0 =>
            \E i \in DOMAIN store : store[i].ecosystem = e /\ store[i].timestamp >= shown[e]
      /\ \A r \in Requests, e \in Ecosystems : floor[r][e] <= shown[e]
  BY DEF ShownIsStored
<1>1. /\ \A e \in Ecosystems : shown[e] \in Nat
      /\ \A r \in Requests, e \in Ecosystems : floor[r][e] \in Nat
      /\ \A i \in DOMAIN store : store[i].ecosystem \in Ecosystems /\ store[i].timestamp \in Nat
  <2>1. \A i \in DOMAIN store : store[i].ecosystem \in Ecosystems /\ store[i].timestamp \in Times
    BY DocumentsAre
  <2>2. /\ shown \in [Ecosystems -> Instants] /\ floor \in [Requests -> [Ecosystems -> Instants]]
        /\ Times \subseteq Nat /\ Instants \subseteq Nat
    BY InstantsAre, TimesAssumption DEF TypeOK, TimesAssumption
  <2> QED BY <2>1, <2>2
<1>2. CASE Others
  <2>1. shown' = shown /\ floor' = floor
    BY <1>2, OthersStep
  <2>2. store' = store \/ \E d \in Reading : store' = Append(store, d)
    BY <1>2, OthersStep
  <2>3. \A i \in DOMAIN store : i \in DOMAIN store' /\ store'[i] = store[i]
    <3>1. CASE store' = store
      BY <3>1
    <3>2. ASSUME NEW d \in Reading, store' = Append(store, d)
          PROVE  \A i \in DOMAIN store : i \in DOMAIN store' /\ store'[i] = store[i]
      <4>1. store \in Seq(Reading)
        BY DEF TypeOK
      <4> HIDE DEF Reading
      <4> QED BY <3>2, <4>1
    <3> QED BY <2>2, <3>1, <3>2
  <2> QED BY <1>0, <2>1, <2>3 DEF ShownIsStored
<1>3. ASSUME NEW s \in Requests, Asks(s) PROVE ShownIsStored'
  <2>1. /\ shown' = shown /\ store' = store
        /\ \A r \in Requests \ {s} : floor'[r] = floor[r]
        /\ floor'[s] \in {nothing, shown}
    BY <1>3, AskEffect
  <2>2. \A e \in Ecosystems : floor'[s][e] <= shown[e]
    BY <1>1, <2>1, InstantsAre
  <2>3. \A r \in Requests, e \in Ecosystems : floor'[r][e] <= shown[e]
    BY <1>0, <2>1, <2>2
  <2> QED BY <1>0, <2>1, <2>3 DEF ShownIsStored
<1>4. ASSUME NEW s \in Requests, Answers(s) PROVE ShownIsStored'
  <2>1. store' = store
    BY <1>4, AnswerStep
  <2>2. CASE shown' = shown /\ (floor' = floor \/ floor' = [floor EXCEPT ![s] = nothing])
    <3>1. \A r \in Requests, e \in Ecosystems : floor'[r][e] <= shown[e]
      <4>1. CASE floor' = floor
        BY <1>0, <4>1
      <4>2. CASE floor' = [floor EXCEPT ![s] = nothing]
        <5>1. \A r \in Requests : floor'[r] = floor[r] \/ floor'[r] = nothing
          BY <4>2 DEF TypeOK
        <5>2. \A e \in Ecosystems : nothing[e] <= shown[e]
          BY <1>1, InstantsAre
        <5> QED BY <1>0, <5>1, <5>2
      <4> QED BY <2>2, <4>1, <4>2
    <3> QED BY <1>0, <2>1, <2>2, <3>1 DEF ShownIsStored
  <2>3. ASSUME NEW i \in DOMAIN store, floor' = floor,
               shown' = [shown EXCEPT ![store[i].ecosystem] =
                                 IF store[i].timestamp > @ THEN store[i].timestamp ELSE @]
        PROVE  ShownIsStored'
    <3> DEFINE x == store[i].ecosystem
               t == store[i].timestamp
    <3>1. x \in Ecosystems /\ t \in Nat /\ shown \in [Ecosystems -> Instants]
      BY <1>1 DEF TypeOK
    <3>2. shown' = [shown EXCEPT ![x] = IF t > shown[x] THEN t ELSE shown[x]]
      BY <2>3
    <3>3. \A e \in Ecosystems : shown'[e] = IF e = x /\ t > shown[x] THEN t ELSE shown[e]
      <4> HIDE DEF x, t
      <4> QED BY <3>1, <3>2
    <3>4. \A r \in Requests, e \in Ecosystems : floor'[r][e] <= shown'[e]
      <4> HIDE DEF x, t
      <4> QED BY <1>0, <1>1, <2>3, <3>1, <3>3
    <3>5. ASSUME NEW e \in Ecosystems, shown'[e] # 0
          PROVE  \E j \in DOMAIN store : store[j].ecosystem = e /\ store[j].timestamp >= shown'[e]
      <4>1. CASE e = x /\ t > shown[x]
        BY <3>1, <3>3, <4>1
      <4>2. CASE ~(e = x /\ t > shown[x])
        BY <1>0, <3>3, <3>5, <4>2
      <4> QED BY <4>1, <4>2
    <3> QED BY <2>1, <3>4, <3>5 DEF ShownIsStored
  <2>4. CASE Finding(s) /\ UNCHANGED <<held, begunAt, floor>>
    <3>1. \/ UNCHANGED shown
          \/ \E i \in DOMAIN store : shown' = [shown EXCEPT ![store[i].ecosystem] =
                                         IF store[i].timestamp > @ THEN store[i].timestamp ELSE @]
      BY <2>4 DEF Finding
    <3> QED BY <2>2, <2>3, <2>4, <3>1
  <2> QED BY <1>4, <2>2, <2>4, AnswerStep
<1>5. CASE UNCHANGED vars
  BY <1>0, <1>5 DEF vars, history, ShownIsStored
<1> QED BY <1>2, <1>3, <1>4, <1>5 DEF Next

LEMMA StepNever ==
    ASSUME TypeOK, StagesFit, ShownIsStored, NeverOlder, [Next]_vars, TypeOK'
    PROVE  NeverOlder'
<1>1. SUFFICES ASSUME NEW r \in Requests, request'[r].stage = "done",
                      request'[r].op \in {"details", "lastInteraction"}, NEW e \in request'[r].about
               PROVE  request'[r].latest >= floor'[r][e]
  BY DEF NeverOlder
<1>2. CASE request'[r] = request[r] /\ floor'[r] = floor[r]
  BY <1>1, <1>2 DEF NeverOlder
<1>3. CASE Others
  BY <1>2, <1>3, OthersStep
<1>4. ASSUME NEW s \in Requests, Asks(s) PROVE request'[r] = request[r] /\ floor'[r] = floor[r]
  <2>1. request'[s].stage \in {"every", "owned", "check", "devices", "aggregate", "find"}
    BY <1>4, AskEffect
  <2>2. r # s
    BY <1>1, <2>1
  <2> QED BY <1>4, <2>2, AskEffect
<1>5. ASSUME NEW s \in Requests, Answers(s), r # s PROVE request'[r] = request[r] /\ floor'[r] = floor[r]
  <2>1. request'[r] = request[r] /\ (floor' = floor \/ floor' = [floor EXCEPT ![s] = nothing])
    BY <1>5, AnswerStep
  <2>2. floor \in [Requests -> [Ecosystems -> Instants]]
    BY DEF TypeOK
  <2> QED BY <1>5, <2>1, <2>2
<1>6. CASE Answers(r)
  <2>1. request'[r] # Idle
    BY <1>1 DEF Idle
  <2>2. /\ UNCHANGED floor /\ request'[r].op = request[r].op /\ request'[r].about = request[r].about
        /\ Progress(r) \/ Finding(r)
    BY <1>6, <2>1, AnswerStep
  <2>3. ~Progress(r)
    <3>1. Progress(r) => request[r].stage \in Underway \ {"find"}
      BY DEF Progress, Underway
    <3> QED BY <1>1, <2>2, <3>1 DEF StagesFit, Checked
  <2>4. Finding(r)
    BY <2>2, <2>3
  <2>5. e \in request[r].about /\ \A x \in request[r].about : x = e
    BY <1>1, <2>2, <2>4 DEF Finding, StagesFit
  <2>6. e \in Ecosystems /\ floor[r][e] <= shown[e] /\ floor[r][e] \in Nat /\ shown[e] \in Nat
        /\ request'[r].latest \in Nat
    <3>1. e \in Ecosystems /\ request'[r].latest \in Instants
      BY <2>5 DEF TypeOK, RequestType
    <3>2. floor[r][e] \in Instants /\ shown[e] \in Instants
      BY <3>1 DEF TypeOK
    <3>3. floor[r][e] <= shown[e]
      BY <3>1 DEF ShownIsStored
    <3> QED BY <3>1, <3>2, <3>3, InstantsAre
  <2>7. \A i \in DOMAIN store : store[i].timestamp \in Nat
    <3>1. \A i \in DOMAIN store : store[i].timestamp \in Times
      BY DocumentsAre
    <3> QED BY <3>1, InstantsAre DEF Instants
  <2>8. CASE shown[e] = 0
    BY <2>2, <2>6, <2>8
  <2>9. CASE shown[e] # 0
    <3>1. PICK j \in DOMAIN store : store[j].ecosystem = e /\ store[j].timestamp >= shown[e]
      BY <2>6, <2>9 DEF ShownIsStored
    <3>2. PICK i \in DOMAIN store : request'[r].latest = store[i].timestamp
                                    /\ store[i].timestamp >= store[j].timestamp
      BY <2>4, <2>5, <3>1 DEF Finding
    <3> QED BY <2>2, <2>6, <2>7, <3>1, <3>2
  <2> QED BY <2>8, <2>9
<1>7. CASE UNCHANGED vars
  <2>1. UNCHANGED <<request, floor>>
    BY <1>7 DEF vars
  <2> QED BY <1>2, <2>1
<1> QED BY <1>2, <1>3, <1>4, <1>5, <1>6, <1>7 DEF Next

-----------------------------------------------------------------------------
(* The theorems.                                                            *)

LEMMA Inductive == IInv /\ [Next]_vars => IInv'
<1>1. SUFFICES ASSUME IInv, [Next]_vars PROVE IInv'
  OBVIOUS
<1> QED BY <1>1, StepType, StepStages, StepHeld, StepAll, StepShown, StepNever DEF IInv

\* The inductive invariant holds in every reachable state.
THEOREM Invariant == Spec => []IInv
<1> QED BY InitIInv, Inductive, PTL DEF Spec

\* The state always has its types, and what a request holds are ecosystems.
THEOREM TypeCorrect == Spec => []TypeOK
<1>1. IInv => TypeOK
  BY DEF IInv
<1> QED BY <1>1, Invariant, PTL

\* resolveTelemetryRequestContext and the checks of the ecosystems service: a
\* USER is answered about ecosystems that the USER had during the request.
THEOREM ReadsAreAllowed == Spec => []ReadsWereAllowed
<1>1. IInv => ReadsWereAllowed
  BY DEF IInv, GatheredWasHeld, ReadsWereAllowed
<1> QED BY <1>1, Invariant, PTL

\* getEcosystemsWithAccessType and findAllEcosystemsByUserId: while no row has
\* changed, the list and the scope of the metrics are the same ecosystems.
THEOREM MetricsMatchTheList == Spec => []MetricsCoverTheList
<1>1. IInv => MetricsCoverTheList
  BY DEF IInv, GatheredIsAll, MetricsCoverTheList, Compared
<1> QED BY <1>1, Invariant, PTL

\* findLatestPayload and findLastInteraction: no answer is older than one that
\* was given before it was asked for.
THEOREM AnswersNeverAge == Spec => []NeverOlder
<1>1. IInv => NeverOlder
  BY DEF IInv
<1> QED BY <1>1, Invariant, PTL
=============================================================================
