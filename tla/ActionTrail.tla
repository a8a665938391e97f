----------------------------- MODULE ActionTrail -----------------------------
(***************************************************************************)
(* What the trail of administrative actions promises: an action goes to    *)
(* the chain after the change it tells of was made, it is recorded once    *)
(* and for ever, and where the service waits for the chain nobody is told  *)
(* of a success that is not recorded.  A change whose call failed may be   *)
(* recorded nonetheless, at any time.                                      *)
(***************************************************************************)
CONSTANT Actions

VARIABLES
    made,     \* actions whose change was made
    chain,    \* where each action stands on the chain
    told,     \* what its caller was told
    waits     \* the service waits for the chain

tvars == <<made, chain, told, waits>>

TInit ==
    /\ made = {}
    /\ chain = [a \in Actions |-> "absent"]
    /\ told = [a \in Actions |-> "nothing"]
    /\ waits \in BOOLEAN

Make(a) ==
    /\ a \notin made
    /\ made' = made \cup {a}
    /\ UNCHANGED <<chain, told>>

Submit(a) ==
    /\ a \in made /\ chain[a] = "absent"
    /\ chain' = [chain EXCEPT ![a] = "submitted"]
    /\ UNCHANGED <<made, told>>

Record(a) ==
    /\ chain[a] = "submitted"
    /\ chain' = [chain EXCEPT ![a] = "recorded"]
    /\ UNCHANGED <<made, told>>

TellSuccess(a) ==
    /\ a \in made /\ told[a] = "nothing"
    /\ waits => chain[a] = "recorded"
    /\ told' = [told EXCEPT ![a] = "success"]
    /\ UNCHANGED <<made, chain>>

TellError(a) ==
    /\ waits
    /\ a \in made /\ told[a] = "nothing"
    /\ told' = [told EXCEPT ![a] = "error"]
    /\ UNCHANGED <<made, chain>>

TNext ==
    /\ waits' = waits
    /\ \E a \in Actions :
        Make(a) \/ Submit(a) \/ Record(a) \/ TellSuccess(a) \/ TellError(a)

TSpec == TInit /\ [][TNext]_tvars
=============================================================================
