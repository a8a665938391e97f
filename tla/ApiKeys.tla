------------------------------- MODULE ApiKeys -------------------------------
(***************************************************************************)
(* The API keys of ecosystems: iot-manager authenticates a reading by the  *)
(* key its device sends, with a cache of good keys (in Redis, or in memory *)
(* when no Redis is configured), a map of bad keys in memory, and the auth *)
(* service, which looks the key up and notes where the device is.  Owners  *)
(* create, rename and remove ecosystems meanwhile.  An iot-manager that is *)
(* given a fixed table of keys instead of an auth service is left out.     *)
(*                                                                         *)
(* Keys are drawn at random and never given out twice: the key of an       *)
(* ecosystem is written as the ecosystem.                                  *)
(***************************************************************************)
EXTENDS Naturals

CONSTANTS
    Ecosystems,
    Requests,     \* readings being authenticated
    Operations,   \* requests of owners under way
    PositiveTtl,  \* IOT_API_KEY_POSITIVE_TTL_MS
    NegativeTtl,  \* IOT_API_KEY_NEGATIVE_TTL_MS
    MaxClock,     \* bound
    MaxMoves,     \* bound: readings, operations and restarts
    None

ASSUME KeysAssumption ==
    /\ PositiveTtl \in Nat \ {0} /\ NegativeTtl \in Nat \ {0}
    /\ MaxClock \in Nat /\ MaxMoves \in Nat
    /\ None \notin Ecosystems /\ None \notin Nat

VARIABLES
    clock,
    redis,         \* config.redisUrl is set
    ecosystem,     \* the rows of auth
    known,         \* ecosystems whose key an owner has been shown
    valid,         \* apiKeyCache: when the entry ends, and how long its validation took
    invalid,       \* invalidApiKeyCache: when the entry ends
    request,       \* authenticateApiKey; gone: whoever asked has restarted
    operation,     \* EcosystemsService
    moves,
    revokedAt,     \* history: when an ecosystem was removed
    faultAt,       \* history: when a matching key was last taken for a bad one
    raced          \* history: removed while a validation or an update had read it

auth == <<ecosystem, known, operation, revokedAt, raced>>
iot == <<valid, invalid, request, faultAt>>
vars == <<clock, redis, auth, iot, moves>>

Seconds == 0..MaxClock
Ends == 0..(MaxClock + PositiveTtl + NegativeTtl)
Missing == [status |-> "none", key |-> FALSE, named |-> FALSE, located |-> FALSE, online |-> FALSE]

TypeOK ==
    /\ clock \in Seconds /\ redis \in BOOLEAN
    /\ ecosystem \in [Ecosystems -> [status : {"none", "ACTIVE", "REVOKED"}, key : BOOLEAN,
                                     named : BOOLEAN, located : BOOLEAN, online : BOOLEAN]]
    /\ known \subseteq Ecosystems
    /\ valid \in [Ecosystems -> [until : Ends, took : Seconds]]
    /\ invalid \in [Ecosystems -> Ends]
    /\ request \in [Requests -> [pc : {"free", "cache", "validating", "locating", "valid",
                                       "invalid", "in", "refused"},
                                 key : Ecosystems \cup {None}, at : Seconds, read : Seconds,
                                 took : Seconds, gone : BOOLEAN]]
    /\ operation \in [Operations -> [kind : {"create", "update", "remove", "key"},
                                     pc : {"free", "reading", "identity", "writing", "anchoring"},
                                     eco : Ecosystems \cup {None}]]
    /\ moves \in 0..MaxMoves
    /\ revokedAt \in [Ecosystems -> Seconds]
    /\ faultAt \in [Ecosystems -> Seconds \cup {None}]
    /\ raced \subseteq Ecosystems

NoRequest == [pc |-> "free", key |-> None, at |-> 0, read |-> 0, took |-> 0,
              gone |-> FALSE]
NoOperation == [kind |-> "key", pc |-> "free", eco |-> None]
NoEntry == [until |-> 0, took |-> 0]

Init ==
    /\ clock = 0 /\ redis \in BOOLEAN
    /\ ecosystem = [e \in Ecosystems |-> Missing]
    /\ known = {}
    /\ valid = [e \in Ecosystems |-> NoEntry]
    /\ invalid = [e \in Ecosystems |-> 0]
    /\ request = [r \in Requests |-> NoRequest]
    /\ operation = [o \in Operations |-> NoOperation]
    /\ moves = 0
    /\ revokedAt = [e \in Ecosystems |-> 0]
    /\ faultAt = [e \in Ecosystems |-> None]
    /\ raced = {}

Move == moves < MaxMoves /\ moves' = moves + 1
Active(e) == ecosystem[e].status = "ACTIVE"

Tick ==
    /\ clock < MaxClock
    /\ clock' = clock + 1
    /\ UNCHANGED <<redis, auth, iot, moves>>

-----------------------------------------------------------------------------
(* Variants with a bug the code could have, no part of Next.                *)

\* redis.set without EX
EntryForEver(took) == [until |-> MaxClock + PositiveTtl, took |-> took]

\* the end of a bad key's entry is not compared
IsBadForEver(r) == invalid[request[r].key] # 0

-----------------------------------------------------------------------------
(* authenticateApiKey                                                       *)

Goto(r, l) == request' = [request EXCEPT ![r].pc = l]
Enter(r, took) == request' = [request EXCEPT ![r] = [NoRequest EXCEPT !.pc = "in", !.took = took,
                                                        !.key = request[r].key]]
Turn(r) == request' = [request EXCEPT ![r] = [NoRequest EXCEPT !.pc = "refused"]]

Send(r, k) ==
    /\ request[r].pc = "free" /\ k \in known
    /\ request' = [request EXCEPT ![r] = [NoRequest EXCEPT !.pc = "cache", !.key = k, !.at = clock]]
    /\ Move
    /\ UNCHANGED <<clock, redis, auth, valid, invalid, faultAt>>

IsBad(r) == request[r].at < invalid[request[r].key]

\* A Redis that does not answer is a miss.
ReadCaches(r) ==
    /\ request[r].pc = "cache"
    /\ LET k == request[r].key
           hit == clock < valid[k].until
       IN  \/ /\ hit
              /\ Enter(r, valid[k].took)
              /\ UNCHANGED invalid
           \/ /\ hit => redis
              /\ IF IsBad(r)
                 THEN Turn(r) /\ UNCHANGED invalid
                 ELSE Goto(r, "validating") /\ invalid' = [invalid EXCEPT ![k] = 0]
    /\ UNCHANGED <<clock, redis, auth, valid, faultAt, moves>>

\* validateApiKey: every row is read and its key deciphered
FindKey(r) ==
    /\ request[r].pc = "validating"
    /\ request' = [request EXCEPT ![r].read = clock,
                                  ![r].pc = IF ecosystem[request[r].key].key THEN "locating"
                                            ELSE "invalid"]
    /\ UNCHANGED <<clock, redis, auth, valid, invalid, faultAt, moves>>

\* The update is inside the try of the loop: when it fails, the loop goes on
\* and the answer is that the key is not valid.
Locate(r) ==
    /\ request[r].pc = "locating"
    /\ \/ /\ ecosystem' = [ecosystem EXCEPT ![request[r].key].located = TRUE]
          /\ Goto(r, "valid")
          /\ UNCHANGED faultAt
       \/ /\ Goto(r, "invalid")
          /\ faultAt' = IF request[r].gone THEN faultAt
                        ELSE [faultAt EXCEPT ![request[r].key] = clock]
          /\ UNCHANGED ecosystem
    /\ UNCHANGED <<clock, redis, known, operation, revokedAt, raced, valid,
                   invalid, moves>>

Entry(took) == [until |-> clock + PositiveTtl, took |-> took]

\* a Redis that does not answer keeps nothing
Admit(r) ==
    /\ request[r].pc = "valid" /\ ~request[r].gone
    /\ LET k == request[r].key
           took == clock - request[r].read
       IN  /\ invalid' = [invalid EXCEPT ![k] = 0]
           /\ \/ valid' = [valid EXCEPT ![k] = Entry(took)]
              \/ redis /\ UNCHANGED valid
           /\ Enter(r, took)
    /\ UNCHANGED <<clock, redis, auth, faultAt, moves>>

Refuse(r) ==
    /\ request[r].pc = "invalid" /\ ~request[r].gone
    /\ invalid' = [invalid EXCEPT ![request[r].key] = request[r].at + NegativeTtl]
    /\ Turn(r)
    /\ UNCHANGED <<clock, redis, auth, valid, faultAt, moves>>

\* 503: the validation cannot be reached, or fails before a key matches
ValidatorFails(r) ==
    /\ request[r].pc \in {"validating", "locating", "valid", "invalid"}
    /\ request' = [request EXCEPT ![r] = NoRequest]
    /\ UNCHANGED <<clock, redis, auth, valid, invalid, faultAt, moves>>

\* the reading goes on (TelemetryIngest), or the device has its answer
Done(r) ==
    /\ request[r].pc \in {"in", "refused"}
    /\ request' = [request EXCEPT ![r] = NoRequest]
    /\ UNCHANGED <<clock, redis, auth, valid, invalid, faultAt, moves>>

\* iot-manager restarts: what it kept in memory is gone.  The auth service goes
\* on with the validations it has begun, for nobody.
Restart ==
    /\ invalid' = [e \in Ecosystems |-> 0]
    /\ valid' = IF redis THEN valid ELSE [e \in Ecosystems |-> NoEntry]
    /\ request' = [r \in Requests |->
                       IF request[r].pc \in {"validating", "locating"}
                       THEN [NoRequest EXCEPT !.pc = request[r].pc, !.key = request[r].key,
                                              !.gone = TRUE]
                       ELSE NoRequest]
    /\ Move
    /\ UNCHANGED <<clock, redis, auth, faultAt>>

-----------------------------------------------------------------------------
(* What owners do                                                           *)

Step(o, l) == operation' = [operation EXCEPT ![o].pc = l]
End(o) == operation' = [operation EXCEPT ![o] = NoOperation]

Begin(o, kind, e) ==
    /\ operation[o].pc = "free"
    /\ (kind = "create") <=> ecosystem[e].status = "none"
    /\ \A p \in Operations : operation[p].eco = e => operation[p].kind # "create"
    /\ operation' = [operation EXCEPT ![o] = [kind |-> kind, pc |-> "reading", eco |-> e]]
    /\ Move
    /\ UNCHANGED <<clock, redis, ecosystem, known, revokedAt, raced, iot>>

\* The owner is shown the key, of a row whose key is there.
GetApiKey(o) ==
    /\ operation[o].kind = "key"
    /\ ecosystem[operation[o].eco].key
    /\ known' = known \cup {operation[o].eco}
    /\ End(o)

\* the account of a new ecosystem's owner, getActiveEcosystem, or getApiKey
Read(o) ==
    /\ operation[o].pc = "reading"
    /\ \/ operation[o].kind = "create" /\ Step(o, "identity") /\ UNCHANGED known
       \/ operation[o].kind \in {"update", "remove"} /\ UNCHANGED known
            /\ Active(operation[o].eco) /\ Step(o, "writing")
       \/ GetApiKey(o)
    /\ UNCHANGED <<clock, redis, ecosystem, revokedAt, raced, iot, moves>>

CreateIdentity(o) ==
    /\ operation[o].pc = "identity"
    /\ Step(o, "writing")
    /\ UNCHANGED <<clock, redis, ecosystem, known, revokedAt, raced, iot, moves>>

\* Who has read the row and will write it by id.
Readers(e) == {o \in Operations : operation[o].eco = e /\ operation[o].kind = "update"
                                                       /\ operation[o].pc = "writing"}
              \cup {r \in Requests : request[r].key = e /\ request[r].pc = "locating"}

Blank(e) == [Missing EXCEPT !.status = "REVOKED"]

Write(o) ==
    /\ operation[o].pc = "writing"
    /\ LET e == operation[o].eco IN
       \/ /\ operation[o].kind = "create"
          /\ \E l \in BOOLEAN :
                ecosystem' = [ecosystem EXCEPT ![e] = [status |-> "ACTIVE", key |-> TRUE,
                                    named |-> TRUE, located |-> l, online |-> FALSE]]
          /\ UNCHANGED <<revokedAt, raced>>
       \/ /\ operation[o].kind = "update"
          /\ \/ ecosystem' = [ecosystem EXCEPT ![e].named = TRUE]
             \/ ecosystem' = [ecosystem EXCEPT ![e].located = TRUE]
          /\ UNCHANGED <<revokedAt, raced>>
       \/ /\ operation[o].kind = "remove"
          /\ ecosystem' = [ecosystem EXCEPT ![e] = Blank(e)]
          /\ revokedAt' = [revokedAt EXCEPT ![e] = IF Active(e) THEN clock ELSE @]
          /\ raced' = IF Readers(e) = {} THEN raced ELSE raced \cup {e}
    /\ Step(o, "anchoring")
    /\ UNCHANGED <<clock, redis, known, iot, moves>>

\* create answers with the key once the action is anchored
Anchor(o) ==
    /\ operation[o].pc = "anchoring"
    /\ End(o)
    /\ known' = IF operation[o].kind = "create" THEN known \cup {operation[o].eco} ELSE known
    /\ UNCHANGED <<clock, redis, ecosystem, revokedAt, raced, iot, moves>>

\* The caller may not, the row is gone, or the database or the anchoring throws:
\* what was written stays.
Fail(o) ==
    /\ operation[o].pc \in {"reading", "identity", "writing", "anchoring"}
    /\ End(o)
    /\ UNCHANGED <<clock, redis, ecosystem, known, revokedAt, raced, iot, moves>>

\* PATCH :id/heartbeat asks neither who calls nor whether the row is removed.
Heartbeat(e) ==
    /\ ecosystem[e].status # "none" /\ ~ecosystem[e].online
    /\ ecosystem' = [ecosystem EXCEPT ![e].online = TRUE]
    /\ Move
    /\ UNCHANGED <<clock, redis, known, operation, revokedAt, raced, iot>>

Next ==
    \/ Tick \/ Restart
    \/ \E r \in Requests :
          \/ \E k \in Ecosystems : Send(r, k)
          \/ ReadCaches(r) \/ FindKey(r) \/ Locate(r) \/ Admit(r) \/ Refuse(r)
          \/ ValidatorFails(r) \/ Done(r)
    \/ \E o \in Operations :
          \/ \E kind \in {"create", "update", "remove", "key"}, e \in Ecosystems : Begin(o, kind, e)
          \/ Read(o) \/ CreateIdentity(o) \/ Write(o) \/ Anchor(o) \/ Fail(o)
    \/ \E e \in Ecosystems : Heartbeat(e)

Spec == Init /\ [][Next]_vars

-----------------------------------------------------------------------------
(* Properties                                                               *)

\* index.ts:520 trusts the cache, so a removed ecosystem's key still opens the
\* door: but for no longer than an entry lives, and the time the validation
\* that made the entry took after auth had read the key.
RemovedKeyEnds ==
    [][\A r \in Requests :
        request[r].pc # "in" /\ request'[r].pc = "in" =>
            \/ Active(request[r].key)
            \/ clock < revokedAt[request[r].key] + PositiveTtl + request'[r].took]_vars

\* ecosystems.service.ts:310 and index.ts:535: an active ecosystem's device is
\* refused only because its position could not be written, by this validation
\* or by one not longer ago than a bad key is remembered.
RefusalHasCause ==
    [][\A r \in Requests :
        LET k == request[r].key IN
        request[r].pc # "refused" /\ request'[r].pc = "refused" /\ Active(k) =>
            /\ faultAt[k] # None
            /\ request[r].at < faultAt[k] + NegativeTtl]_vars

\* ecosystems.service.ts:524 leaves nothing of a removed ecosystem but that it
\* was one, unless a validation or an update that had read it before writes
\* after.  (A heartbeat marks it online in any case.)
RemovedIsBlank ==
    \A e \in Ecosystems :
        ecosystem[e].status = "REVOKED" =>
            /\ ~ecosystem[e].key
            /\ ecosystem[e].named \/ ecosystem[e].located => e \in raced
=============================================================================
