----------------------------- MODULE AuditPage ------------------------------
(***************************************************************************)
(* The timeline of events anchored in the blockchain: getTimeline of the   *)
(* audit service, which reads FireFly's events and compares each reading   *)
(* with its document in MongoDB, AuditTimeline that shows it under its     *)
(* filters, and the cards of AuditDashboardPage, which load it once.       *)
(*                                                                         *)
(* The signatures in the events are those auth made and are taken for      *)
(* valid; of the filters the name of the event is modelled, the dates are  *)
(* applied at the same place and in the same way.                          *)
(***************************************************************************)
EXTENDS PageRequests, FiniteSets

CONSTANTS
    Readings,   \* readings that may be anchored, each with a document
    Actions,    \* administrative actions that may be anchored
    Limit       \* events that a request asks FireFly for: 50

VARIABLES
    chain,      \* the events, the newest first
    record,     \* the documents of the readings
    events, filters,   \* of AuditTimeline
    cards,      \* the events of AuditDashboardPage
    stale,      \* history: chain or record have changed since the page last asked
    moved       \* history: they have changed since the page was mounted

auditVars == <<chain, record, events, filters, cards, stale, moved>>

Records == {"genuine", "altered", "missing"}

Name(e) == IF e \in Readings THEN "TelemetryAnchored" ELSE "ActionAnchored"

Unchecked(e) ==
    [event |-> e, stage |-> IF e \in Readings THEN "unread" ELSE "checked",
     record |-> "none", status |-> "VERIFIED", crossed |-> FALSE]

AuditInit ==
    /\ RequestsInit(<<Ask("timeline", "ALL"), Ask("cards", "ALL")>>)
    /\ chain \in {<<>>} \cup {<<e>> : e \in Readings \cup Actions}
    /\ record = [r \in Readings |-> "genuine"]
    /\ events = <<>> /\ filters = "ALL" /\ cards = <<>>
    /\ stale = FALSE /\ moved = FALSE

-----------------------------------------------------------------------------
(* audit.service                                                            *)

\* What matches, in its order; an item keeps the place it had in the whole timeline.
Matching(items, name) ==
    [k \in {k \in DOMAIN items : name = "ALL" \/ Name(items[k].event) = name} |-> items[k]]

\* an item of request i after a step of its own
WithItem(i, k, item) ==
    /\ pending' = [pending EXCEPT ![i].reply[k] = item]
    /\ UNCHANGED <<moves, inOrder, failures, auditVars>>

Newest(events_) == SubSeq(events_, 1, IF Len(events_) < Limit THEN Len(events_) ELSE Limit)

\* FireFly is asked for the newest events, of whatever name
ReadEvents(i) ==
    LET newest == Newest(chain)
    IN  /\ pending[i].stage = "sent"
        /\ pending' = [pending EXCEPT
             ![i].stage = "checking",
             ![i].reply = [k \in DOMAIN newest |-> Unchecked(newest[k])]]
        /\ UNCHANGED <<moves, inOrder, failures, auditVars>>

\* findByIngestId: an event without a document stays VERIFIED
FindRecord(i) ==
    /\ pending[i].stage = "checking"
    /\ \E k \in DOMAIN pending[i].reply :
         LET item == pending[i].reply[k]
             found == record[item.event]
         IN  /\ item.stage = "unread"
             /\ WithItem(i, k, IF found = "missing"
                               THEN [item EXCEPT !.stage = "checked"]
                               ELSE [item EXCEPT !.stage = "found", !.record = found])

\* Variants with a bug the code could have, no part of Next.

\* a promise that is not awaited is true
VerifyUnawaited(r) == TRUE

\* verifyIntegrity: the document is read again and its hash computed
verifyIntegrity(r) == record[r] = "genuine"

Verify(i) ==
    /\ pending[i].stage = "checking"
    /\ \E k \in DOMAIN pending[i].reply :
         LET item == pending[i].reply[k]
         IN  /\ item.stage = "found"
             /\ WithItem(i, k, [item EXCEPT
                  !.stage = "checked",
                  !.status = IF verifyIntegrity(item.event) THEN "VERIFIED" ELSE "DISCREPANCY"])

\* the filters are applied to what has been read
ReplyTimeline(i) ==
    /\ pending[i].stage = "checking"
    /\ \A k \in DOMAIN pending[i].reply : pending[i].reply[k].stage = "checked"
    /\ Done(i, Matching(pending[i].reply, pending[i].arg))
    /\ UNCHANGED auditVars

\* An error of FireFly or of MongoDB, or of the way to them: getTimeline, and
\* getAuditTimeline of the webapp, make an empty timeline of it.
TimelineFails(i) ==
    /\ pending[i].stage \in {"sent", "checking"}
    /\ Fails(i)
    /\ UNCHANGED auditVars

AuditServed == \E i \in DOMAIN pending :
    ReadEvents(i) \/ FindRecord(i) \/ Verify(i) \/ ReplyTimeline(i) \/ TimelineFails(i)

\* a reading or an action is anchored
Anchored(e) ==
    /\ e \notin {chain[k] : k \in DOMAIN chain}
    /\ Move
    /\ chain' = <<e>> \o chain
    /\ stale' = TRUE /\ moved' = TRUE
    /\ UNCHANGED <<pending, inOrder, failures, record, events, filters, cards>>

\* somebody writes a document of MongoDB, or deletes it
Tamper(r) ==
    /\ Move
    /\ \E now \in Records \ {record[r]} : record' = [record EXCEPT ![r] = now]
    /\ pending' = [i \in DOMAIN pending |->
         IF pending[i].stage # "checking" THEN pending[i]
         ELSE [pending[i] EXCEPT !.reply = [k \in DOMAIN @ |->
                 IF @[k].event = r /\ @[k].stage = "found"
                 THEN [@[k] EXCEPT !.crossed = TRUE] ELSE @[k]]]]
    /\ stale' = TRUE /\ moved' = TRUE
    /\ UNCHANGED <<inOrder, failures, chain, events, filters, cards>>

-----------------------------------------------------------------------------
(* The page                                                                 *)

\* fetchEvents with these filters
Fetch(name) ==
    /\ Send(<<Ask("timeline", name)>>)
    /\ stale' = FALSE

\* the names to choose from are those of the events that are shown
availableEventNames == {Name(events[k].event) : k \in DOMAIN events}

\* the effect that a change of the filters runs
AfterFilterChange(name) == Fetch(name)

handleFilterChange ==
    /\ Move
    /\ \E name \in ({"ALL"} \cup availableEventNames) \ {filters} :
         filters' = name /\ AfterFilterChange(name)
    /\ UNCHANGED <<chain, record, events, cards, moved>>

\* filters become an object of their own: they are fetched even if they are the same
handleClearFilters ==
    /\ Move
    /\ filters' = "ALL" /\ AfterFilterChange("ALL")
    /\ UNCHANGED <<chain, record, events, cards, moved>>

\* handleApplyFilters and Sincronizar; the cards are not among what is fetched
Synchronise ==
    /\ Move
    /\ Fetch(filters)
    /\ UNCHANGED <<chain, record, events, filters, cards, moved>>

Timeline(i) == IF Failed(i) THEN <<>> ELSE pending[i].reply

TimelineArrives(i) ==
    /\ pending[i].op = "timeline"
    /\ Receive(i, <<>>)
    /\ events' = Timeline(i)
    /\ UNCHANGED <<chain, record, filters, cards, stale, moved>>

CardsArrive(i) ==
    /\ pending[i].op = "cards"
    /\ Receive(i, <<>>)
    /\ cards' = Timeline(i)
    /\ UNCHANGED <<chain, record, events, filters, stale, moved>>

AuditNext ==
    \/ AuditServed
    \/ \E i \in DOMAIN pending : TimelineArrives(i) \/ CardsArrive(i)
    \/ \E e \in Readings \cup Actions : Anchored(e)
    \/ \E r \in Readings : Tamper(r)
    \/ handleFilterChange \/ handleClearFilters \/ Synchronise

-----------------------------------------------------------------------------
(* Properties                                                               *)

Verdict(e) ==
    IF e \in Actions \/ record[e] = "missing"
    THEN [Unchecked(e) EXCEPT !.stage = "checked"]
    ELSE [event |-> e, stage |-> "checked", record |-> record[e], crossed |-> FALSE,
          status |-> IF record[e] = "genuine" THEN "VERIFIED" ELSE "DISCREPANCY"]

\* the timeline as it is now
Current(name) ==
    LET newest == Newest(chain)
    IN  Matching([k \in DOMAIN newest |-> Verdict(newest[k])], name)

\* When the page rests, nothing failed and answers came in order, the timeline
\* is the current one under the filters shown, unless the chain or a document
\* has changed since it was last asked for; the cards are those of the whole
\* timeline, unless something has changed since the page was mounted.
TimelineAgrees ==
    Quiet /\ ~failures /\ inOrder =>
        /\ ~stale => events = Current(filters)
        /\ ~moved => cards = Current("ALL")

\* The audit reads a document twice, once to show it and once to judge it.  If
\* nobody wrote it between the two, what is shown as a DISCREPANCY is a document
\* that was altered, and every document that was is shown as one.
VerdictsAreRight ==
    \A shown \in {events, cards} : \A k \in DOMAIN shown :
        ~shown[k].crossed =>
            (shown[k].status = "DISCREPANCY" <=> shown[k].record = "altered")

=============================================================================
