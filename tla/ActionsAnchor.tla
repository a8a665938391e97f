---------------------------- MODULE ActionsAnchor ----------------------------
(***************************************************************************)
(* Anchoring of administrative actions: a call of the auth service writes  *)
(* its change to the database and then runs anchorAction, which signs the  *)
(* action with the actor's key and posts it to FireFly, four times at most;*)
(* each post that FireFly takes is an operation of its own, and runs the   *)
(* actions chaincode in a Fabric transaction.  A post whose answer is lost *)
(* lives on, beside those that follow it.                                  *)
(*                                                                         *)
(* An action stands for one run of anchorAction, which draws its actionId  *)
(* and its nonce once, before the first attempt.  No caller passes a       *)
(* parent, so the chaincode's look-up of parents is left out.              *)
(***************************************************************************)
EXTENDS Naturals

CONSTANTS
    Actions,      \* runs of anchorAction, and their actionIds and nonces
    Keyed,        \* those whose actor has an identity with its keys
    MaxRetries    \* maxRetries: posts after the first

ASSUME ActionsAssumption ==
    /\ Keyed \subseteq Actions
    /\ MaxRetries \in Nat

Attempts == 1 .. MaxRetries + 1
Nothing == 0      \* an absent key of the world state, which names an attempt

VARIABLES
    blocking,     \* isBlocking, read at start-up and sent to FireFly as confirm
    changed,      \* actions whose change is in the database
    place,        \* where each run stands
    tries,        \* posts it has made
    result,       \* what anchorAction returned to its caller
    operation,    \* FireFly and Fabric: the operation of each attempt
    records,      \* world state by actionId: the attempt that wrote it
    nonces        \* world state: the nonce keys

chainVars == <<records, nonces>>
actionsVars == <<blocking, changed, place, tries, result, operation, chainVars>>

\* what an attempt came to, and what its transaction read at endorsement
Operations ==
    [state : {"none", "sent", "queued", "refused", "endorsed", "valid", "failed"},
     read : Attempts \cup {Nothing}]

Running == {"keys", "post", "wait", "anchored", "failed"}

ActionsTypeOK ==
    /\ blocking \in BOOLEAN
    /\ changed \subseteq Actions
    /\ place \in [Actions -> Running \cup {"idle", "done", "crashed"}]
    /\ tries \in [Actions -> 0 .. MaxRetries + 1]
    /\ result \in [Actions -> {"none", "id", "null", "thrown"}]
    /\ operation \in [Actions -> [Attempts -> Operations]]
    /\ records \in [Actions -> Attempts \cup {Nothing}]
    /\ nonces \subseteq Actions

ActionsInit ==
    /\ blocking \in BOOLEAN
    /\ changed = {}
    /\ place = [a \in Actions |-> "idle"]
    /\ tries = [a \in Actions |-> 0]
    /\ result = [a \in Actions |-> "none"]
    /\ operation = [a \in Actions |->
                       [n \in Attempts |-> [state |-> "none", read |-> Nothing]]]
    /\ records = [a \in Actions |-> Nothing]
    /\ nonces = {}

OnTrail(a) == records[a] # Nothing
Proceed(a, l) == place' = [place EXCEPT ![a] = l]
SetState(a, n, s) == operation' = [operation EXCEPT ![a][n].state = s]

\* FireFly's answer to a post: 202 for an operation that is queued or, with
\* confirm, 200 for one that has succeeded.
Confirmed(a, n) ==
    IF blocking THEN operation[a][n].state = "valid"
                ELSE operation[a][n].state \in {"queued", "endorsed", "valid", "failed"}

-----------------------------------------------------------------------------
(* Variants with a bug the code could have, no part of Next.                *)

\* an error after the last retry is returned as the id
GiveUpWithId(a) ==
    /\ place[a] = "failed"
    /\ result' = [result EXCEPT ![a] = "id"]
    /\ Proceed(a, "done")
    /\ UNCHANGED <<changed, tries, operation, chainVars>>

\* an action with the same actionId or nonce is not looked for
EndorseUnchecked(a, n) ==
    /\ operation[a][n].state = "queued"
    /\ operation' = [operation EXCEPT ![a][n] = [state |-> "endorsed", read |-> records[a]]]
    /\ UNCHANGED <<changed, place, tries, result, chainVars>>

-----------------------------------------------------------------------------
(* The call and its run of anchorAction.                                    *)

\* the caller's own write, after which nothing undoes it
Change(a) ==
    /\ place[a] = "idle"
    /\ changed' = changed \cup {a}
    /\ Proceed(a, "keys")
    /\ UNCHANGED <<tries, result, operation, chainVars>>

\* resolveActorKeys, the signature and the metadata
ResolveKeys(a) ==
    /\ place[a] = "keys"
    /\ a \in Keyed
    /\ Proceed(a, "post")
    /\ UNCHANGED <<changed, tries, result, operation, chainVars>>

\* the actor has no identity, or the database or the decryption fails
KeysFail(a) ==
    /\ place[a] = "keys"
    /\ Proceed(a, "failed")
    /\ UNCHANGED <<changed, tries, result, operation, chainVars>>

\* one subscription of retry: the same body, a new operation
Post(a) ==
    /\ place[a] = "post"
    /\ tries' = [tries EXCEPT ![a] = @ + 1]
    /\ SetState(a, tries[a] + 1, "sent")
    /\ Proceed(a, "wait")
    /\ UNCHANGED <<changed, result, chainVars>>

Answered(a) ==
    /\ place[a] = "wait"
    /\ Confirmed(a, tries[a])
    /\ Proceed(a, "anchored")
    /\ UNCHANGED <<changed, tries, result, operation, chainVars>>

\* refused, failed on the chain, unreachable, or the answer lost
AttemptFails(a) ==
    /\ place[a] = "wait"
    /\ \/ tries[a] <= MaxRetries /\ Proceed(a, "post")
       \/ tries[a] = MaxRetries + 1 /\ Proceed(a, "failed")
    /\ UNCHANGED <<changed, tries, result, operation, chainVars>>

ReturnId(a) ==
    /\ place[a] = "anchored"
    /\ result' = [result EXCEPT ![a] = "id"]
    /\ Proceed(a, "done")
    /\ UNCHANGED <<changed, tries, operation, chainVars>>

GiveUp(a) ==
    /\ place[a] = "failed"
    /\ result' = [result EXCEPT ![a] = IF blocking THEN "thrown" ELSE "null"]
    /\ Proceed(a, "done")
    /\ UNCHANGED <<changed, tries, operation, chainVars>>

\* the auth service restarts
Restart ==
    /\ \E a \in Actions : place[a] \in Running
    /\ place' = [a \in Actions |-> IF place[a] \in Running THEN "crashed" ELSE place[a]]
    /\ UNCHANGED <<changed, tries, result, operation, chainVars>>

-----------------------------------------------------------------------------
(* FireFly and Fabric.  A transaction reads the world state when it is      *)
(* endorsed and writes when it is committed, if what it read is current.    *)

TakePost(a, n) ==
    /\ operation[a][n].state = "sent"
    /\ \E s \in {"queued", "refused"} : SetState(a, n, s)
    /\ UNCHANGED <<changed, place, tries, result, chainVars>>

\* AnchorAction: the actionId and the nonce must be new
Endorse(a, n) ==
    /\ operation[a][n].state = "queued"
    /\ ~OnTrail(a) /\ a \notin nonces
    /\ operation' = [operation EXCEPT ![a][n] = [state |-> "endorsed", read |-> records[a]]]
    /\ UNCHANGED <<changed, place, tries, result, chainVars>>

\* "accion duplicada", a field that is not valid, no peer to ask; or the
\* transaction is lost between endorsement and commit
Reject(a, n) ==
    /\ operation[a][n].state \in {"queued", "endorsed"}
    /\ SetState(a, n, "failed")
    /\ UNCHANGED <<changed, place, tries, result, chainVars>>

CommitAction(a, n) ==
    /\ operation[a][n].state = "endorsed"
    /\ \/ /\ operation[a][n].read = records[a]
          /\ SetState(a, n, "valid")
          /\ records' = [records EXCEPT ![a] = n]
          /\ nonces' = nonces \cup {a}
       \/ /\ operation[a][n].read # records[a]
          /\ SetState(a, n, "failed")
          /\ UNCHANGED chainVars
    /\ UNCHANGED <<changed, place, tries, result>>

-----------------------------------------------------------------------------
Run(a) ==
    \/ Change(a) \/ ResolveKeys(a) \/ KeysFail(a) \/ Post(a)
    \/ Answered(a) \/ AttemptFails(a) \/ ReturnId(a) \/ GiveUp(a)

Fabric(a, n) == TakePost(a, n) \/ Endorse(a, n) \/ Reject(a, n) \/ CommitAction(a, n)

ActionsNext ==
    /\ blocking' = blocking
    /\ \/ \E a \in Actions : Run(a) \/ \E n \in Attempts : Fabric(a, n)
       \/ Restart

ActionsSpec == ActionsInit /\ [][ActionsNext]_actionsVars

-----------------------------------------------------------------------------
(* Properties.                                                              *)

\* However many attempts of one run are under way at the same time, one of
\* them is recorded at most, and its record is never written again.
OneRecord ==
    \A a \in Actions, n \in Attempts :
        operation[a][n].state = "valid" => records[a] = n

\* With confirm, an id is returned for a recorded action only; without it,
\* for one that FireFly has taken.
IdIsBacked ==
    \A a \in Actions : result[a] = "id" =>
        \E n \in Attempts : Confirmed(a, n)

\* What the trail tells has happened, and is signed by somebody with a key.
RecordIsTrue ==
    \A a \in Actions : OnTrail(a) => a \in changed \cap Keyed /\ a \in nonces

\* What the trail shows of an action: where it stands on the chain, and what
\* its caller is told, which is a success unless anchorAction throws.
TrailAt(a) ==
    IF OnTrail(a) THEN "recorded"
    ELSE IF tries[a] > 0 THEN "submitted" ELSE "absent"
ToldAt(a) ==
    IF result[a] = "none" THEN "nothing"
    ELSE IF result[a] = "thrown" THEN "error" ELSE "success"

Trail == INSTANCE ActionTrail
            WITH made <- changed,
                 chain <- [a \in Actions |-> TrailAt(a)],
                 told <- [a \in Actions |-> ToldAt(a)],
                 waits <- blocking

\* The service implements the trail: changes before records, one record for
\* ever, and with confirm no success without a record.
ImplementsTrail == Trail!TSpec

=============================================================================
