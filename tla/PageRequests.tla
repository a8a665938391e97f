---------------------------- MODULE PageRequests ----------------------------
(***************************************************************************)
(* What the pages of the webapp have in common: a page that is mounted     *)
(* sends requests through apiClient and goes on without waiting for them;  *)
(* services take them in any order, and answers arrive in any order.  The  *)
(* code after an await runs to the next await: an action of the page.      *)
(* Nothing in the pages cancels a request, and nothing numbers them.       *)
(***************************************************************************)
EXTENDS Naturals, Sequences

CONSTANTS
    None,      \* null, and an answer that has not been given
    MaxMoves   \* bound: what the user of a page, and others, do

VARIABLES
    pending,   \* the requests of the page, in the order they were sent
    moves,     \* how much has been done
    inOrder,   \* history: they were taken and answered in the order sent
    failures   \* history: a request has failed

requestVars == <<pending, moves, inOrder, failures>>

RequestsInit(first) ==
    /\ pending = first
    /\ moves = 0
    /\ inOrder = TRUE
    /\ failures = FALSE

Ask(op, arg) == [op |-> op, arg |-> arg, stage |-> "sent", reply |-> None]

Move == moves < MaxMoves /\ moves' = moves + 1

Quiet == pending = <<>>

AskedFor(op) == {i \in DOMAIN pending : pending[i].op = op}

Waiting(i, op) == pending[i].op = op /\ pending[i].stage = "sent"
Failed(i) == pending[i].stage = "failed"

\* the page sends more requests while nothing is answered
Send(more) == pending' = pending \o more /\ UNCHANGED <<inOrder, failures>>

Without(i) == SubSeq(pending, 1, i - 1) \o SubSeq(pending, i + 1, Len(pending))

Over(i) == pending[i].stage \in {"done", "failed"}

\* a step of the service that answers request i
Serve(i, stage, reply) ==
    /\ pending' = [pending EXCEPT ![i].stage = stage, ![i].reply = reply]
    /\ inOrder' = (inOrder /\ \A j \in 1..(i - 1) : Over(j))
    /\ failures' = (failures \/ stage = "failed")
    /\ UNCHANGED moves

Done(i, reply) == Serve(i, "done", reply)
Fails(i) == Serve(i, "failed", None)

\* The answer to request i reaches the page, which sends more requests.
Receive(i, more) ==
    /\ Over(i)
    /\ pending' = Without(i) \o more
    /\ inOrder' = (inOrder /\ i = 1)
    /\ UNCHANGED <<moves, failures>>

=============================================================================
