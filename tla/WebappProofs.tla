---------------------------- MODULE WebappProofs ----------------------------
(***************************************************************************)
(* Proofs about the pages of the webapp, for every set of notifications,   *)
(* accounts, ecosystems, devices, APIs, events, recipients and texts, and  *)
(* whatever users of the pages, and others, do.                            *)
(***************************************************************************)
EXTENDS Webapp, SequenceTheorems, FiniteSetTheorems, TLAPS

-----------------------------------------------------------------------------
(* Sequences of requests                                                    *)

Entry(r) == r = [op |-> r.op, arg |-> r.arg, stage |-> r.stage, reply |-> r.reply]

IsRequests(s) ==
    /\ s \in Seq({s[j] : j \in DOMAIN s})
    /\ \A j \in DOMAIN s : Entry(s[j])

Fresh(s) == IsRequests(s) /\ \A j \in DOMAIN s : s[j].stage = "sent"

\* where the j-th request was before the i-th was taken out
Before(i, j) == IF j < i THEN j ELSE j + 1

LEMMA Places ==
    ASSUME NEW s, IsRequests(s)
    PROVE  Len(s) \in Nat /\ DOMAIN s = 1..Len(s)
  BY LenProperties DEF IsRequests

\* Entries in the places of a sequence are requests.
LEMMA Gathered ==
    ASSUME NEW S, NEW s \in Seq(S), \A j \in DOMAIN s : Entry(s[j])
    PROVE  IsRequests(s)
<1>1. s \in [1..Len(s) -> {s[j] : j \in DOMAIN s}] /\ Len(s) \in Nat
  BY LenProperties
<1> QED BY <1>1, SeqDef, LenProperties DEF IsRequests

LEMMA Joined ==
    ASSUME NEW s, IsRequests(s), NEW more, IsRequests(more)
    PROVE  /\ IsRequests(s \o more)
           /\ Len(s \o more) = Len(s) + Len(more)
           /\ \A j \in DOMAIN s : (s \o more)[j] = s[j]
           /\ \A k \in DOMAIN more : (s \o more)[Len(s) + k] = more[k]
<1> DEFINE S == {s[j] : j \in DOMAIN s} \cup {more[j] : j \in DOMAIN more}
           t == s \o more
<1>1. s \in Seq(S) /\ more \in Seq(S)
  BY SeqMonotonic DEF IsRequests
<1>2. /\ t \in Seq(S)
      /\ Len(t) = Len(s) + Len(more)
      /\ \A i \in 1 .. Len(s) + Len(more) :
            t[i] = IF i <= Len(s) THEN s[i] ELSE more[i - Len(s)]
  BY <1>1, ConcatProperties
<1>3. /\ Len(s) \in Nat /\ DOMAIN s = 1..Len(s)
      /\ Len(more) \in Nat /\ DOMAIN more = 1..Len(more)
      /\ DOMAIN t = 1..Len(t)
  BY <1>2, Places, LenProperties
<1> HIDE DEF t
<1>4. \A j \in DOMAIN s : t[j] = s[j]
  BY <1>2, <1>3
<1>5. \A k \in DOMAIN more : t[Len(s) + k] = more[k]
  BY <1>2, <1>3
<1>6. \A i \in DOMAIN t : Entry(t[i])
  <2> TAKE i \in DOMAIN t
  <2>1. CASE i <= Len(s)
    BY <1>2, <1>3, <2>1 DEF IsRequests
  <2>2. CASE ~(i <= Len(s))
    <3>1. i - Len(s) \in DOMAIN more /\ t[i] = more[i - Len(s)]
      BY <1>2, <1>3, <2>2
    <3> QED BY <3>1 DEF IsRequests
  <2> QED BY <2>1, <2>2
<1>7. IsRequests(t)
  BY <1>2, <1>6, Gathered
<1> QED BY <1>2, <1>4, <1>5, <1>7 DEF t

LEMMA Taken ==
    ASSUME NEW s, IsRequests(s), NEW i \in DOMAIN s
    PROVE  LET t == SubSeq(s, 1, i - 1) \o SubSeq(s, i + 1, Len(s))
           IN  /\ IsRequests(t)
               /\ Len(t) = Len(s) - 1
               /\ \A j \in DOMAIN t : Before(i, j) \in DOMAIN s \ {i} /\ t[j] = s[Before(i, j)]
<1> DEFINE S == {s[j] : j \in DOMAIN s}
           a == SubSeq(s, 1, i - 1)
           b == SubSeq(s, i + 1, Len(s))
           t == a \o b
<1>1. Len(s) \in Nat /\ DOMAIN s = 1..Len(s) /\ i \in 1..Len(s) /\ s \in Seq(S)
  BY Places DEF IsRequests
<1>2. /\ \A j \in 1..(i - 1) : s[j] \in S
      /\ \A j \in (i + 1)..Len(s) : s[j] \in S
  BY <1>1
<1>3. /\ a \in Seq(S) /\ Len(a) = i - 1
      /\ \A j \in 1..(i - 1) : a[j] = s[j]
  BY <1>1, <1>2, SubSeqProperties
<1>4. /\ b \in Seq(S) /\ Len(b) = Len(s) - i
      /\ \A j \in 1..(Len(s) - i) : b[j] = s[i + j]
  <2>1. /\ b \in Seq(S)
        /\ Len(b) = IF i + 1 <= Len(s) THEN Len(s) - (i + 1) + 1 ELSE 0
        /\ \A j \in 1..(Len(s) - (i + 1) + 1) : b[j] = s[i + 1 + j - 1]
    <3>1. PICK m, n : m = i + 1 /\ n = Len(s)
      OBVIOUS
    <3>2. m \in Int /\ n \in Int /\ \A j \in m..n : s[j] \in S
      BY <1>1, <1>2, <3>1
    <3>3. /\ SubSeq(s, m, n) \in Seq(S)
          /\ Len(SubSeq(s, m, n)) = IF m <= n THEN n - m + 1 ELSE 0
          /\ \A j \in 1..(n - m + 1) : SubSeq(s, m, n)[j] = s[m + j - 1]
      BY <3>2, SubSeqProperties
    <3> QED BY <3>1, <3>3
  <2>2. Len(b) = Len(s) - i
    BY <1>1, <2>1
  <2>3. ASSUME NEW j \in 1..(Len(s) - i) PROVE b[j] = s[i + j]
    <3>1. j \in 1..(Len(s) - (i + 1) + 1) /\ i + 1 + j - 1 = i + j
      BY <1>1
    <3> HIDE DEF b
    <3> QED BY <2>1, <3>1
  <2> QED BY <2>1, <2>2, <2>3
<1> HIDE DEF a, b
<1>5. /\ t \in Seq(S)
      /\ Len(t) = Len(s) - 1
      /\ \A j \in 1..(Len(s) - 1) : t[j] = IF j <= i - 1 THEN a[j] ELSE b[j - (i - 1)]
  <2>1. /\ t \in Seq(S)
        /\ Len(t) = Len(a) + Len(b)
        /\ \A j \in 1 .. Len(a) + Len(b) :
              t[j] = IF j <= Len(a) THEN a[j] ELSE b[j - Len(a)]
    BY <1>3, <1>4, ConcatProperties
  <2>2. Len(a) = i - 1 /\ Len(a) + Len(b) = Len(s) - 1
    BY <1>1, <1>3, <1>4
  <2> HIDE DEF t
  <2> QED BY <2>1, <2>2
<1>6. DOMAIN t = 1..(Len(s) - 1)
  BY <1>5, LenProperties
<1> HIDE DEF t
<1>7. \A j \in DOMAIN t : Before(i, j) \in DOMAIN s \ {i} /\ t[j] = s[Before(i, j)]
  <2> TAKE j \in DOMAIN t
  <2>1. CASE j < i
    <3>1. j \in 1..(i - 1) /\ j <= i - 1
      BY <1>1, <1>6, <2>1
    <3>2. t[j] = a[j]
      BY <1>5, <1>6, <3>1
    <3>3. a[j] = s[j]
      BY <1>3, <3>1
    <3> QED BY <1>1, <2>1, <3>1, <3>2, <3>3 DEF Before
  <2>2. CASE ~(j < i)
    <3>1. j - (i - 1) \in 1..(Len(s) - i) /\ i + (j - (i - 1)) = j + 1 /\ ~(j <= i - 1)
      BY <1>1, <1>6, <2>2
    <3>2. t[j] = b[j - (i - 1)]
      BY <1>5, <1>6, <3>1
    <3>3. b[j - (i - 1)] = s[j + 1]
      BY <1>4, <3>1
    <3> QED BY <1>1, <1>6, <2>2, <3>2, <3>3 DEF Before
  <2> QED BY <2>1, <2>2
<1>8. IsRequests(t)
  <2>1. \A j \in DOMAIN t : Entry(t[j])
    BY <1>7 DEF IsRequests
  <2> QED BY <1>5, <2>1, Gathered
<1> QED BY <1>5, <1>7, <1>8 DEF t, a, b

LEMMA Changed ==
    ASSUME NEW s, IsRequests(s), NEW i \in DOMAIN s, NEW r, Entry(r)
    PROVE  LET t == [s EXCEPT ![i] = r]
           IN  /\ IsRequests(t)
               /\ Len(t) = Len(s) /\ DOMAIN t = DOMAIN s
               /\ t[i] = r
               /\ \A j \in DOMAIN s \ {i} : t[j] = s[j]
<1> DEFINE S == {s[j] : j \in DOMAIN s} \cup {r}
           t == [s EXCEPT ![i] = r]
<1>1. s \in Seq(S)
  BY SeqMonotonic DEF IsRequests
<1>2. t \in Seq(S) /\ Len(t) = Len(s) /\ DOMAIN t = DOMAIN s
  BY <1>1, LenProperties, ExceptSeq, Places
<1>3. t[i] = r /\ \A j \in DOMAIN s \ {i} : t[j] = s[j]
  OBVIOUS
<1>4. \A j \in DOMAIN t : Entry(t[j])
  BY <1>2, <1>3 DEF IsRequests
<1> QED BY <1>2, <1>3, <1>4, Gathered

LEMMA NoneSent == Fresh(<<>>) /\ Len(<<>>) = 0
<1>1. <<>> \in Seq({}) /\ DOMAIN <<>> = {}
  OBVIOUS
<1> QED BY <1>1, Gathered DEF Fresh

LEMMA OneSent ==
    ASSUME NEW op, NEW arg
    PROVE  /\ Fresh(<<Ask(op, arg)>>) /\ Len(<<Ask(op, arg)>>) = 1
           /\ DOMAIN <<Ask(op, arg)>> = {1} /\ <<Ask(op, arg)>>[1] = Ask(op, arg)
           /\ Ask(op, arg).op = op /\ Ask(op, arg).arg = arg /\ Ask(op, arg).stage = "sent"
<1> DEFINE s == <<Ask(op, arg)>>
<1>1. s \in Seq({Ask(op, arg)}) /\ DOMAIN s = {1} /\ s[1] = Ask(op, arg) /\ Len(s) = 1
  OBVIOUS
<1>2. /\ Entry(Ask(op, arg)) /\ Ask(op, arg).stage = "sent"
      /\ Ask(op, arg).op = op /\ Ask(op, arg).arg = arg
  BY DEF Ask, Entry
<1>3. \A j \in DOMAIN s : Entry(s[j]) /\ s[j].stage = "sent"
  BY <1>1, <1>2
<1> HIDE DEF s
<1>4. IsRequests(s)
  BY <1>1, <1>3, Gathered
<1>5. Fresh(s) /\ Len(s) = 1 /\ DOMAIN s = {1} /\ s[1] = Ask(op, arg)
  BY <1>1, <1>3, <1>4 DEF Fresh
<1> QED BY <1>2, <1>5 DEF s

LEMMA TwoSent ==
    ASSUME NEW op, NEW arg, NEW op2, NEW arg2
    PROVE  LET s == <<Ask(op, arg), Ask(op2, arg2)>>
           IN  /\ Fresh(s) /\ Len(s) = 2 /\ DOMAIN s = {1, 2}
               /\ s[1].op = op /\ s[1].arg = arg /\ s[1].stage = "sent"
               /\ s[2].op = op2 /\ s[2].arg = arg2 /\ s[2].stage = "sent"
<1> DEFINE s == <<Ask(op, arg), Ask(op2, arg2)>>
<1>1. /\ s \in Seq({Ask(op, arg), Ask(op2, arg2)}) /\ DOMAIN s = {1, 2} /\ Len(s) = 2
      /\ s[1] = Ask(op, arg) /\ s[2] = Ask(op2, arg2)
  OBVIOUS
<1>2. /\ Entry(Ask(op, arg)) /\ Ask(op, arg).stage = "sent"
      /\ Ask(op, arg).op = op /\ Ask(op, arg).arg = arg
      /\ Entry(Ask(op2, arg2)) /\ Ask(op2, arg2).stage = "sent"
      /\ Ask(op2, arg2).op = op2 /\ Ask(op2, arg2).arg = arg2
  BY DEF Ask, Entry
<1> HIDE DEF s
<1>3. \A j \in DOMAIN s : Entry(s[j]) /\ s[j].stage = "sent"
  BY <1>1, <1>2
<1>4. Fresh(s)
  BY <1>1, <1>3, Gathered DEF Fresh
<1> QED BY <1>1, <1>2, <1>4 DEF s

-----------------------------------------------------------------------------
(* What every page knows of its requests, and how steps change them         *)

Queue ==
    /\ IsRequests(pending)
    /\ inOrder \in BOOLEAN /\ failures \in BOOLEAN
    /\ ~failures => \A i \in DOMAIN pending : ~Failed(i)

\* nothing but the requests' own places is used below
LEMMA QueuePlaces ==
    ASSUME Queue
    PROVE  Len(pending) \in Nat /\ DOMAIN pending = 1..Len(pending)
  BY Places DEF Queue

LEMMA FirstQueue ==
    ASSUME NEW first, Fresh(first), RequestsInit(first)
    PROVE  Queue
  BY DEF Queue, RequestsInit, Fresh, Failed

\* A request is asked for.
LEMMA Asks ==
    ASSUME Queue, NEW more, Fresh(more), Send(more)
    PROVE  /\ Queue'
           /\ DOMAIN pending' = 1..(Len(pending) + Len(more))
           /\ \A j \in DOMAIN pending : pending'[j] = pending[j]
           /\ \A k \in DOMAIN more : pending'[Len(pending) + k] = more[k]
           /\ inOrder' = inOrder /\ failures' = failures
<1>1. /\ IsRequests(pending) /\ IsRequests(more)
      /\ pending' = pending \o more
      /\ inOrder' = inOrder /\ failures' = failures
  BY DEF Queue, Fresh, Send
<1>2. /\ IsRequests(pending')
      /\ Len(pending') = Len(pending) + Len(more)
      /\ \A j \in DOMAIN pending : pending'[j] = pending[j]
      /\ \A k \in DOMAIN more : pending'[Len(pending) + k] = more[k]
  BY <1>1, Joined
<1>3. /\ DOMAIN pending' = 1..(Len(pending) + Len(more))
      /\ Len(pending) \in Nat /\ DOMAIN pending = 1..Len(pending)
      /\ Len(more) \in Nat /\ DOMAIN more = 1..Len(more)
  BY <1>1, <1>2, Places
<1>4. ASSUME ~failures, NEW j \in DOMAIN pending'
      PROVE  pending'[j].stage # "failed"
  <2>1. CASE j \in DOMAIN pending
    BY <1>2, <1>4, <2>1 DEF Queue, Failed
  <2>2. CASE j \notin DOMAIN pending
    <3>1. j - Len(pending) \in DOMAIN more /\ Len(pending) + (j - Len(pending)) = j
      BY <1>3, <1>4, <2>2
    <3>2. pending'[j] = more[j - Len(pending)]
      BY <1>2, <3>1
    <3> QED BY <3>1, <3>2 DEF Fresh
  <2> QED BY <2>1, <2>2
<1>5. Queue'
  BY <1>1, <1>2, <1>4 DEF Queue, Failed
<1> QED BY <1>1, <1>2, <1>3, <1>5

LEMMA AsksOne ==
    ASSUME Queue, NEW op, NEW arg, Send(<<Ask(op, arg)>>)
    PROVE  /\ Queue'
           /\ DOMAIN pending' = 1..(Len(pending) + 1)
           /\ \A j \in DOMAIN pending : pending'[j] = pending[j]
           /\ pending'[Len(pending) + 1] = Ask(op, arg)
           /\ inOrder' = inOrder /\ failures' = failures
<1> DEFINE more == <<Ask(op, arg)>>
<1>1. Fresh(more) /\ Len(more) = 1 /\ 1 \in DOMAIN more /\ more[1] = Ask(op, arg)
  BY OneSent
<1>2. Send(more)
  OBVIOUS
<1> HIDE DEF more
<1> QED BY <1>1, <1>2, Asks

\* A service takes a request a step further.
LEMMA Serves ==
    ASSUME Queue, NEW i \in DOMAIN pending, NEW stage, NEW reply, Serve(i, stage, reply)
    PROVE  /\ Queue'
           /\ DOMAIN pending' = DOMAIN pending
           /\ pending'[i] = [op |-> pending[i].op, arg |-> pending[i].arg,
                             stage |-> stage, reply |-> reply]
           /\ \A j \in DOMAIN pending \ {i} : pending'[j] = pending[j]
           /\ inOrder' => inOrder
           /\ ~failures' => ~failures /\ stage # "failed"
<1> DEFINE r == [op |-> pending[i].op, arg |-> pending[i].arg, stage |-> stage, reply |-> reply]
<1>1. Entry(r) /\ Entry(pending[i]) /\ IsRequests(pending)
  BY DEF Entry, Queue, IsRequests
<1>2. pending' = [pending EXCEPT ![i].stage = stage, ![i].reply = reply]
  BY DEF Serve
<1>3. pending' = [pending EXCEPT ![i] = r]
  <2>1. [[pending[i] EXCEPT !.stage = stage] EXCEPT !.reply = reply] = r
    BY <1>1 DEF Entry
  <2>2. pending' = [pending EXCEPT ![i] = [[pending[i] EXCEPT !.stage = stage]
                                             EXCEPT !.reply = reply]]
    BY <1>2
  <2> QED BY <2>1, <2>2
<1> HIDE DEF r
<1>4. /\ IsRequests(pending')
      /\ DOMAIN pending' = DOMAIN pending
      /\ pending'[i] = r
      /\ \A j \in DOMAIN pending \ {i} : pending'[j] = pending[j]
  BY <1>1, <1>3, Changed
<1>5. /\ inOrder' \in BOOLEAN /\ (inOrder' => inOrder)
      /\ failures' \in BOOLEAN /\ (~failures' => ~failures /\ stage # "failed")
  BY DEF Serve, Queue
<1>6. Queue'
  BY <1>4, <1>5 DEF Queue, Failed, r
<1> QED BY <1>4, <1>5, <1>6 DEF r

\* A service takes a request further and no history is written.
Advance(i, stage, reply) ==
    /\ \/ pending' = [pending EXCEPT ![i].stage = stage, ![i].reply = reply]
       \/ pending' = [pending EXCEPT ![i].stage = stage] /\ reply = pending[i].reply
       \/ pending' = [pending EXCEPT ![i].reply = reply] /\ stage = pending[i].stage
    /\ UNCHANGED <<inOrder, failures>>

LEMMA Advances ==
    ASSUME Queue, NEW i \in DOMAIN pending, NEW stage, NEW reply, stage # "failed",
           Advance(i, stage, reply)
    PROVE  /\ Queue'
           /\ DOMAIN pending' = DOMAIN pending
           /\ pending'[i] = [op |-> pending[i].op, arg |-> pending[i].arg,
                             stage |-> stage, reply |-> reply]
           /\ \A j \in DOMAIN pending \ {i} : pending'[j] = pending[j]
<1> DEFINE r == [op |-> pending[i].op, arg |-> pending[i].arg, stage |-> stage, reply |-> reply]
<1>1. Entry(r) /\ Entry(pending[i]) /\ IsRequests(pending)
  BY DEF Entry, Queue, IsRequests
<1> USE DEF Advance
<1>2. pending' = [pending EXCEPT ![i] = r]
  <2>1. CASE pending' = [pending EXCEPT ![i].stage = stage, ![i].reply = reply]
    <3>1. [[pending[i] EXCEPT !.stage = stage] EXCEPT !.reply = reply] = r
      BY <1>1 DEF Entry
    <3>2. pending' = [pending EXCEPT ![i] = [[pending[i] EXCEPT !.stage = stage]
                                               EXCEPT !.reply = reply]]
      BY <2>1
    <3> QED BY <3>1, <3>2
  <2>2. CASE pending' = [pending EXCEPT ![i].stage = stage] /\ reply = pending[i].reply
    <3>1. [pending[i] EXCEPT !.stage = stage] = r
      BY <1>1, <2>2 DEF Entry
    <3>2. pending' = [pending EXCEPT ![i] = [pending[i] EXCEPT !.stage = stage]]
      BY <2>2
    <3> QED BY <3>1, <3>2
  <2>3. CASE pending' = [pending EXCEPT ![i].reply = reply] /\ stage = pending[i].stage
    <3>1. [pending[i] EXCEPT !.reply = reply] = r
      BY <1>1, <2>3 DEF Entry
    <3>2. pending' = [pending EXCEPT ![i] = [pending[i] EXCEPT !.reply = reply]]
      BY <2>3
    <3> QED BY <3>1, <3>2
  <2> QED BY <2>1, <2>2, <2>3
<1> HIDE DEF r
<1>3. /\ IsRequests(pending')
      /\ DOMAIN pending' = DOMAIN pending
      /\ pending'[i] = r
      /\ \A j \in DOMAIN pending \ {i} : pending'[j] = pending[j]
  BY <1>1, <1>2, Changed
<1>4. Queue'
  BY <1>3 DEF Queue, Failed, r
<1> QED BY <1>3, <1>4 DEF r

\* An answer reaches the page, which asks for more.
LEMMA Receives ==
    ASSUME Queue, NEW i \in DOMAIN pending, NEW more, Fresh(more), Receive(i, more)
    PROVE  /\ Queue'
           /\ DOMAIN pending' = 1..(Len(pending) - 1 + Len(more))
           /\ \A j \in 1..(Len(pending) - 1) :
                 Before(i, j) \in DOMAIN pending \ {i} /\ pending'[j] = pending[Before(i, j)]
           /\ \A k \in DOMAIN more : pending'[Len(pending) - 1 + k] = more[k]
           /\ inOrder' => inOrder /\ i = 1
           /\ failures' = failures
<1> DEFINE rest == Without(i)
<1>1. /\ IsRequests(rest)
      /\ Len(rest) = Len(pending) - 1
      /\ \A j \in DOMAIN rest : Before(i, j) \in DOMAIN pending \ {i}
                                /\ rest[j] = pending[Before(i, j)]
  BY Taken DEF Queue, Without
<1>2. pending' = rest \o more
  BY DEF Receive
<1> HIDE DEF rest
<1>3. PICK left : left = rest
  OBVIOUS
<1>4. /\ IsRequests(left)
      /\ Len(left) = Len(pending) - 1
      /\ \A j \in DOMAIN left : Before(i, j) \in DOMAIN pending \ {i}
                                /\ left[j] = pending[Before(i, j)]
  BY <1>3, <1>1
<1>5. pending' = left \o more /\ IsRequests(more)
  BY <1>3, <1>2 DEF Fresh
<1>6. /\ Len(pending) \in Nat /\ DOMAIN pending = 1..Len(pending)
      /\ DOMAIN left = 1..(Len(pending) - 1)
      /\ Len(more) \in Nat /\ DOMAIN more = 1..Len(more)
  BY <1>4, <1>5, Places, QueuePlaces
<1>7. /\ IsRequests(pending')
      /\ Len(pending') = Len(pending) - 1 + Len(more)
      /\ \A j \in DOMAIN left : pending'[j] = left[j]
      /\ \A k \in DOMAIN more : pending'[Len(pending) - 1 + k] = more[k]
  <2>1. IsRequests(left) /\ IsRequests(more) /\ pending' = left \o more
    BY <1>4, <1>5
  <2>2. /\ IsRequests(pending')
        /\ Len(pending') = Len(left) + Len(more)
        /\ \A j \in DOMAIN left : pending'[j] = left[j]
        /\ \A k \in DOMAIN more : pending'[Len(left) + k] = more[k]
    BY <2>1, Joined
  <2> QED BY <1>4, <2>2
<1>8. /\ DOMAIN pending' = 1..(Len(pending) - 1 + Len(more))
      /\ \A j \in 1..(Len(pending) - 1) :
            Before(i, j) \in DOMAIN pending \ {i} /\ pending'[j] = pending[Before(i, j)]
  BY <1>4, <1>6, <1>7, Places
<1>9. /\ inOrder' \in BOOLEAN /\ (inOrder' => inOrder /\ i = 1) /\ failures' = failures
  BY DEF Receive, Queue
<1>10. ASSUME ~failures, NEW j \in DOMAIN pending'
       PROVE  pending'[j].stage # "failed"
  <2>1. CASE j \in 1..(Len(pending) - 1)
    BY <1>8, <1>10, <2>1 DEF Queue, Failed
  <2>2. CASE j \notin 1..(Len(pending) - 1)
    <3>1. /\ j - (Len(pending) - 1) \in DOMAIN more
          /\ Len(pending) - 1 + (j - (Len(pending) - 1)) = j
      BY <1>6, <1>8, <1>10, <2>2
    <3>2. pending'[j] = more[j - (Len(pending) - 1)]
      BY <1>7, <3>1
    <3> QED BY <3>1, <3>2 DEF Fresh
  <2> QED BY <2>1, <2>2
<1>11. Queue'
  BY <1>7, <1>9, <1>10 DEF Queue, Failed
<1> QED BY <1>7, <1>8, <1>9, <1>11

LEMMA ReceivesNothing ==
    ASSUME Queue, NEW i \in DOMAIN pending, Receive(i, <<>>)
    PROVE  /\ Queue'
           /\ DOMAIN pending' = 1..(Len(pending) - 1)
           /\ \A j \in DOMAIN pending' :
                 Before(i, j) \in DOMAIN pending \ {i} /\ pending'[j] = pending[Before(i, j)]
           /\ inOrder' => inOrder /\ i = 1
           /\ failures' = failures
<1> DEFINE more == <<>>
<1>1. Fresh(more) /\ Len(more) = 0 /\ Receive(i, more)
  BY NoneSent
<1> HIDE DEF more
<1>2. /\ Queue'
      /\ DOMAIN pending' = 1..(Len(pending) - 1 + Len(more))
      /\ \A j \in 1..(Len(pending) - 1) :
            Before(i, j) \in DOMAIN pending \ {i} /\ pending'[j] = pending[Before(i, j)]
      /\ inOrder' => inOrder /\ i = 1
      /\ failures' = failures
  BY <1>1, Receives
<1>3. Len(pending) - 1 + Len(more) = Len(pending) - 1
  BY <1>1, QueuePlaces
<1> QED BY <1>2, <1>3

LEMMA ReceivesOne ==
    ASSUME Queue, NEW i \in DOMAIN pending, NEW op, NEW arg, Receive(i, <<Ask(op, arg)>>)
    PROVE  /\ Queue'
           /\ DOMAIN pending' = 1..Len(pending)
           /\ \A j \in 1..(Len(pending) - 1) :
                 Before(i, j) \in DOMAIN pending \ {i} /\ pending'[j] = pending[Before(i, j)]
           /\ pending'[Len(pending)] = Ask(op, arg)
           /\ inOrder' => inOrder /\ i = 1
           /\ failures' = failures
<1> DEFINE more == <<Ask(op, arg)>>
<1>1. Fresh(more) /\ Len(more) = 1 /\ 1 \in DOMAIN more /\ more[1] = Ask(op, arg)
  BY OneSent
<1>2. Receive(i, more)
  OBVIOUS
<1> HIDE DEF more
<1>3. /\ Queue'
      /\ DOMAIN pending' = 1..(Len(pending) - 1 + Len(more))
      /\ \A j \in 1..(Len(pending) - 1) :
            Before(i, j) \in DOMAIN pending \ {i} /\ pending'[j] = pending[Before(i, j)]
      /\ \A k \in DOMAIN more : pending'[Len(pending) - 1 + k] = more[k]
      /\ inOrder' => inOrder /\ i = 1
      /\ failures' = failures
  BY <1>1, <1>2, Receives
<1>4. /\ Len(pending) - 1 + Len(more) = Len(pending)
      /\ Len(pending) - 1 + 1 = Len(pending)
  BY <1>1, QueuePlaces
<1> QED BY <1>1, <1>3, <1>4

\* What is not answered remains, each request where one of before was.
LEMMA Remains ==
    ASSUME Queue, NEW i \in DOMAIN pending, NEW more, Fresh(more), Receive(i, more)
    PROVE  /\ \A k \in DOMAIN pending \ {i} : \E j \in DOMAIN pending' : pending'[j] = pending[k]
           /\ \A j \in DOMAIN pending' :
                 \/ \E m \in DOMAIN more : pending'[j] = more[m]
                 \/ /\ j \in 1..(Len(pending) - 1)
                    /\ Before(i, j) \in DOMAIN pending \ {i} /\ pending'[j] = pending[Before(i, j)]
           /\ \A j, k \in 1..(Len(pending) - 1) : Before(i, j) = Before(i, k) => j = k
           /\ i = 1 => \A k \in DOMAIN pending \ {i} : k - 1 \in DOMAIN pending'
                                                      /\ pending'[k - 1] = pending[k]
<1>1. /\ Len(pending) \in Nat /\ DOMAIN pending = 1..Len(pending)
      /\ Len(more) \in Nat /\ DOMAIN more = 1..Len(more)
  BY QueuePlaces, Places DEF Fresh
<1>2. /\ DOMAIN pending' = 1..(Len(pending) - 1 + Len(more))
      /\ \A j \in 1..(Len(pending) - 1) :
            Before(i, j) \in DOMAIN pending \ {i} /\ pending'[j] = pending[Before(i, j)]
      /\ \A m \in DOMAIN more : pending'[Len(pending) - 1 + m] = more[m]
  BY Receives
<1>3. ASSUME NEW k \in DOMAIN pending \ {i}
      PROVE  /\ \E j \in DOMAIN pending' : pending'[j] = pending[k]
             /\ i = 1 => k - 1 \in DOMAIN pending' /\ pending'[k - 1] = pending[k]
  <2> DEFINE j == IF k < i THEN k ELSE k - 1
  <2>1. j \in 1..(Len(pending) - 1) /\ Before(i, j) = k
    BY <1>1 DEF Before
  <2>2. i = 1 => j = k - 1
    BY <1>1
  <2> HIDE DEF j
  <2>3. j \in DOMAIN pending' /\ pending'[j] = pending[k]
    BY <1>1, <1>2, <2>1
  <2> QED BY <2>2, <2>3
<1>4. ASSUME NEW j \in DOMAIN pending', j \notin 1..(Len(pending) - 1)
      PROVE  \E m \in DOMAIN more : pending'[j] = more[m]
  <2>1. /\ j - (Len(pending) - 1) \in DOMAIN more
        /\ Len(pending) - 1 + (j - (Len(pending) - 1)) = j
    BY <1>1, <1>2, <1>4
  <2> QED BY <1>2, <2>1
<1>5. \A j, k \in 1..(Len(pending) - 1) : Before(i, j) = Before(i, k) => j = k
  BY <1>1 DEF Before
<1> QED BY <1>2, <1>3, <1>4, <1>5

\* The page that sends one request keeps the others.
LEMMA SentOne ==
    ASSUME Queue, NEW op, NEW arg, Send(<<Ask(op, arg)>>)
    PROVE  /\ Queue'
           /\ Len(pending) + 1 \in DOMAIN pending' \ DOMAIN pending
           /\ pending'[Len(pending) + 1] = Ask(op, arg)
           /\ \A j \in DOMAIN pending : j \in DOMAIN pending' /\ pending'[j] = pending[j]
           /\ \A j \in DOMAIN pending' : j \in DOMAIN pending \/ j = Len(pending) + 1
           /\ inOrder' = inOrder /\ failures' = failures
<1>1. /\ Queue'
      /\ DOMAIN pending' = 1..(Len(pending) + 1)
      /\ DOMAIN pending = 1..Len(pending) /\ Len(pending) \in Nat
      /\ \A j \in DOMAIN pending : pending'[j] = pending[j]
      /\ pending'[Len(pending) + 1] = Ask(op, arg)
      /\ inOrder' = inOrder /\ failures' = failures
  BY AsksOne, QueuePlaces
<1> QED BY <1>1

\* the last request of its kind
Latest(i, op) ==
    /\ pending[i].op = op
    /\ \A j \in DOMAIN pending : j > i => pending[j].op # op

NoneOf(op) == \A i \in DOMAIN pending : pending[i].op # op

\* The last request of a kind remains the last when requests of other kinds
\* are sent, when something is served, and when the first request is answered.
LEMMA LatestWhenSent ==
    ASSUME Queue, NEW more, Fresh(more), Send(more),
           NEW op, \A m \in DOMAIN more : more[m].op # op
    PROVE  /\ \A k \in DOMAIN pending : Latest(k, op) =>
                 k \in DOMAIN pending' /\ Latest(k, op)' /\ pending'[k] = pending[k]
           /\ NoneOf(op) => NoneOf(op)'
<1>1. /\ Len(pending) \in Nat /\ DOMAIN pending = 1..Len(pending)
      /\ Len(more) \in Nat /\ DOMAIN more = 1..Len(more)
  BY QueuePlaces, Places DEF Fresh
<1>2. /\ DOMAIN pending' = 1..(Len(pending) + Len(more))
      /\ \A j \in DOMAIN pending : pending'[j] = pending[j]
      /\ \A m \in DOMAIN more : pending'[Len(pending) + m] = more[m]
  BY Asks
<1>3. ASSUME NEW j \in DOMAIN pending', j \notin DOMAIN pending
      PROVE  pending'[j].op # op
  <2>1. j - Len(pending) \in DOMAIN more /\ Len(pending) + (j - Len(pending)) = j
    BY <1>1, <1>2, <1>3
  <2>2. pending'[j] = more[j - Len(pending)]
    BY <1>2, <2>1
  <2> QED BY <2>1, <2>2
<1>4. DOMAIN pending \subseteq DOMAIN pending'
  BY <1>1, <1>2
<1>5. ASSUME NEW k \in DOMAIN pending, Latest(k, op) PROVE Latest(k, op)'
  BY <1>2, <1>3, <1>4, <1>5 DEF Latest
<1>6. NoneOf(op) => NoneOf(op)'
  BY <1>2, <1>3 DEF NoneOf
<1> QED BY <1>2, <1>4, <1>5, <1>6

LEMMA LatestWhenReceived ==
    ASSUME Queue, NEW i \in DOMAIN pending, i = 1, NEW more, Fresh(more), Receive(i, more),
           NEW op, \A m \in DOMAIN more : more[m].op # op
    PROVE  /\ \A k \in DOMAIN pending \ {i} : Latest(k, op) =>
                 k - 1 \in DOMAIN pending' /\ Latest(k - 1, op)' /\ pending'[k - 1] = pending[k]
           /\ NoneOf(op) \/ Latest(i, op) => NoneOf(op)'
<1>1. /\ Len(pending) \in Nat /\ DOMAIN pending = 1..Len(pending)
      /\ Len(more) \in Nat /\ DOMAIN more = 1..Len(more)
  BY QueuePlaces, Places DEF Fresh
<1>2. /\ DOMAIN pending' = 1..(Len(pending) - 1 + Len(more))
      /\ \A j \in 1..(Len(pending) - 1) : pending'[j] = pending[Before(i, j)]
      /\ \A m \in DOMAIN more : pending'[Len(pending) - 1 + m] = more[m]
  BY Receives
<1>3. \A j \in 1..(Len(pending) - 1) : pending'[j] = pending[j + 1] /\ j + 1 \in DOMAIN pending
  BY <1>1, <1>2 DEF Before
<1>4. ASSUME NEW j \in DOMAIN pending', j \notin 1..(Len(pending) - 1)
      PROVE  pending'[j].op # op
  <2>1. /\ j - (Len(pending) - 1) \in DOMAIN more
        /\ Len(pending) - 1 + (j - (Len(pending) - 1)) = j
    BY <1>1, <1>2, <1>4
  <2>2. pending'[j] = more[j - (Len(pending) - 1)]
    BY <1>2, <2>1
  <2> QED BY <2>1, <2>2
<1>5. ASSUME NEW k \in DOMAIN pending \ {i}, Latest(k, op)
      PROVE  k - 1 \in DOMAIN pending' /\ Latest(k - 1, op)' /\ pending'[k - 1] = pending[k]
  <2>1. /\ k - 1 \in 1..(Len(pending) - 1) /\ k - 1 + 1 = k
        /\ k - 1 \in DOMAIN pending'
    BY <1>1, <1>2
  <2>2. pending'[k - 1] = pending[k]
    BY <1>3, <2>1
  <2>3. ASSUME NEW j \in DOMAIN pending', j > k - 1, j \in 1..(Len(pending) - 1)
        PROVE  pending'[j].op # op
    <3>1. j + 1 > k
      BY <1>1, <2>3
    <3> QED BY <1>3, <1>5, <2>3, <3>1 DEF Latest
  <2> QED BY <1>4, <1>5, <2>1, <2>2, <2>3 DEF Latest
<1>6. ASSUME NoneOf(op) \/ Latest(i, op) PROVE NoneOf(op)'
  <2>1. \A j \in 1..(Len(pending) - 1) : j + 1 > i
    BY <1>1
  <2>2. \A j \in 1..(Len(pending) - 1) : pending[j + 1].op # op
    BY <1>3, <1>6, <2>1 DEF NoneOf, Latest
  <2> QED BY <1>3, <1>4, <2>2 DEF NoneOf
<1> QED BY <1>5, <1>6

\* A request that is sent is the last of its kind.
LEMMA LatestAsked ==
    ASSUME Queue, NEW op, NEW arg,
           \/ Send(<<Ask(op, arg)>>)
           \/ \E i \in DOMAIN pending : Receive(i, <<Ask(op, arg)>>)
    PROVE  \E k \in DOMAIN pending' : Latest(k, op)' /\ pending'[k] = Ask(op, arg)
<1>1. /\ Len(pending) \in Nat /\ Ask(op, arg).op = op
  BY QueuePlaces, OneSent
<1>2. CASE Send(<<Ask(op, arg)>>)
  <2>1. DOMAIN pending' = 1..(Len(pending) + 1) /\ pending'[Len(pending) + 1] = Ask(op, arg)
    BY <1>2, AsksOne
  <2>2. \A j \in DOMAIN pending' : ~(j > Len(pending) + 1)
    BY <1>1, <2>1
  <2> QED BY <1>1, <2>1, <2>2 DEF Latest
<1>3. ASSUME NEW i \in DOMAIN pending, Receive(i, <<Ask(op, arg)>>)
      PROVE  \E k \in DOMAIN pending' : Latest(k, op)' /\ pending'[k] = Ask(op, arg)
  <2>1. /\ DOMAIN pending' = 1..Len(pending) /\ pending'[Len(pending)] = Ask(op, arg)
        /\ DOMAIN pending = 1..Len(pending)
    BY <1>3, ReceivesOne, QueuePlaces
  <2>2. \A j \in DOMAIN pending' : ~(j > Len(pending))
    BY <1>1, <2>1
  <2>3. Len(pending) \in DOMAIN pending'
    BY <1>1, <2>1
  <2> QED BY <1>1, <2>1, <2>2, <2>3 DEF Latest
<1> QED BY <1>2, <1>3

-----------------------------------------------------------------------------
(* BlockchainPage                                                           *)

ChaincodeCalls ==
    \A i \in DOMAIN pending :
        Chaincodes!Running(i) => pending[i].op \in {"register", "delete"}

\* Calls that have not overlapped are one at a time, and what one of them is
\* going to clear is all there is.
ListenersInv ==
    ~raced /\ ~stopped =>
        /\ \A i, j \in DOMAIN pending : Chaincodes!Running(i) /\ Chaincodes!Running(j) => i = j
        /\ \A i \in DOMAIN pending :
              pending[i].stage = "clear" => listeners \subseteq pending[i].reply
        /\ \A l, m \in listeners : l = m

\* Whoever changes the APIs will load them, or they are being loaded, or they
\* are shown.
ContractsInv ==
    inOrder /\ ~failures =>
        \/ \E i \in DOMAIN pending : pending[i].op \in {"register", "delete"}
        \/ \E i \in DOMAIN pending :
              /\ Latest(i, "contracts")
              /\ ~Over(i) \/ pending[i].reply = registered
        \/ NoneOf("contracts") /\ smartContracts = registered

InterfaceInv ==
    inOrder /\ ~failures /\ selectedContract # None =>
        \/ \E i \in DOMAIN pending : Latest(i, "interface") /\ pending[i].arg = selectedContract
        \/ NoneOf("interface") /\ interfaceOf = selectedContract

BlockchainInv == Queue /\ ChaincodeCalls /\ ListenersInv /\ ContractsInv /\ InterfaceInv

LEMMA BlockchainStarts == Chaincodes!BlockchainInit => BlockchainInv
<1> SUFFICES ASSUME Chaincodes!BlockchainInit PROVE BlockchainInv
  OBVIOUS
<1> DEFINE first == <<Ask("contracts", None)>>
<1>1. Fresh(first) /\ RequestsInit(first) /\ first = Chaincodes!ForContracts
  BY OneSent DEF Chaincodes!BlockchainInit, Chaincodes!RequestsInit, RequestsInit,
                 Chaincodes!ForContracts, Chaincodes!Ask, Ask
<1>2. Queue
  <2> HIDE DEF first
  <2> QED BY <1>1, FirstQueue
<1>3. DOMAIN pending = 1..1 /\ pending[1] = Ask("contracts", None)
  BY <1>1 DEF RequestsInit
<1>4. pending[1].op = "contracts" /\ pending[1].stage = "sent"
  BY <1>3 DEF Ask
<1>5. ChaincodeCalls /\ ListenersInv
  BY <1>3, <1>4 DEF ChaincodeCalls, ListenersInv, Chaincodes!Running, Chaincodes!BlockchainInit
<1>6. ContractsInv
  BY <1>3, <1>4 DEF ContractsInv, Latest, Over
<1>7. InterfaceInv
  BY DEF InterfaceInv, Chaincodes!BlockchainInit
<1> QED BY <1>2, <1>5, <1>6, <1>7 DEF BlockchainInv

\* What the blockchain-manager does with a request.
LEMMA BlockchainServes ==
    ASSUME BlockchainInv, NEW i \in DOMAIN pending, Chaincodes!BlockchainServed(i)
    PROVE  BlockchainInv'
<1> USE DEF Chaincodes!Step, Chaincodes!firefly, Chaincodes!dialogs
<1>1. /\ smartContracts' = smartContracts /\ selectedContract' = selectedContract
      /\ interfaceOf' = interfaceOf
      /\ raced' = (raced \/ \E j \in DOMAIN pending \ {i} : Chaincodes!Running(j))
  BY DEF Chaincodes!BlockchainServed, Chaincodes!RegisterApi, Chaincodes!FindApi,
         Chaincodes!ListListeners, Chaincodes!ClearListener, Chaincodes!FinishCall,
         Chaincodes!BlockchainRead
<1>2. ASSUME NEW stage, NEW reply, Serve(i, stage, reply),
             stage \in {"list", "clear"} => pending[i].op \in {"register", "delete"},
             registered' = registered \/ pending[i].op \in {"register", "delete"},
             pending[i].op = "contracts" =>
                 stage = "failed" \/ (stage = "done" /\ reply = registered),
             ~raced /\ ~stopped' =>
                 /\ ~stopped
                 /\ stage = "clear" => listeners' \subseteq reply
                 /\ (\A j \in DOMAIN pending \ {i} : ~Chaincodes!Running(j)) =>
                       \A l, m \in listeners' : l = m
      PROVE  BlockchainInv'
  <2>1. /\ Queue'
        /\ DOMAIN pending' = DOMAIN pending
        /\ pending'[i] = [op |-> pending[i].op, arg |-> pending[i].arg,
                          stage |-> stage, reply |-> reply]
        /\ \A j \in DOMAIN pending \ {i} : pending'[j] = pending[j]
        /\ inOrder' => inOrder
        /\ ~failures' => ~failures /\ stage # "failed"
    BY <1>2, Serves DEF BlockchainInv
  <2>2. /\ pending'[i].op = pending[i].op /\ pending'[i].arg = pending[i].arg
        /\ pending'[i].stage = stage /\ pending'[i].reply = reply
    BY <2>1
  <2>3. ChaincodeCalls'
    BY <1>2, <2>1, <2>2 DEF BlockchainInv, ChaincodeCalls, Chaincodes!Running
  <2>4. ListenersInv'
    <3> SUFFICES ASSUME ~raced', ~stopped' PROVE ListenersInv'
      BY DEF ListenersInv
    <3>1. /\ ~raced /\ \A j \in DOMAIN pending \ {i} : ~Chaincodes!Running(j)
      BY <1>1
    <3>2. \A l, m \in listeners' : l = m
      BY <1>2, <3>1
    <3>3. \A j \in DOMAIN pending' : Chaincodes!Running(j)' => j = i
      BY <2>1, <3>1 DEF Chaincodes!Running
    <3>4. \A j \in DOMAIN pending' :
             pending'[j].stage = "clear" => listeners' \subseteq pending'[j].reply
      BY <1>2, <2>2, <3>1, <3>3 DEF Chaincodes!Running
    <3> QED BY <3>2, <3>3, <3>4 DEF ListenersInv
  <2>5. ContractsInv'
    <3> SUFFICES ASSUME inOrder', ~failures' PROVE ContractsInv'
      BY DEF ContractsInv
    <3>1. inOrder /\ ~failures /\ stage # "failed"
      BY <2>1
    <3>2. CASE \E k \in DOMAIN pending : pending[k].op \in {"register", "delete"}
      BY <2>1, <2>2, <3>2 DEF ContractsInv
    <3>3. CASE ~\E k \in DOMAIN pending : pending[k].op \in {"register", "delete"}
      <4>1. registered' = registered
        BY <1>2, <3>3
      <4>2. CASE NoneOf("contracts") /\ smartContracts = registered
        BY <1>1, <2>1, <2>2, <4>1, <4>2 DEF ContractsInv, NoneOf
      <4>3. ASSUME NEW k \in DOMAIN pending, Latest(k, "contracts"),
                   ~Over(k) \/ pending[k].reply = registered
            PROVE  ContractsInv'
        <5>1. Latest(k, "contracts")'
          BY <2>1, <2>2, <4>3 DEF Latest
        <5>2. ~Over(k)' \/ pending'[k].reply = registered'
          BY <1>2, <2>1, <2>2, <3>1, <4>1, <4>3 DEF Over, Latest
        <5> QED BY <2>1, <5>1, <5>2 DEF ContractsInv
      <4> QED BY <3>1, <3>3, <4>2, <4>3 DEF BlockchainInv, ContractsInv
    <3> QED BY <3>2, <3>3
  <2>6. InterfaceInv'
    BY <1>1, <2>1, <2>2 DEF BlockchainInv, InterfaceInv, Latest, NoneOf
  <2> QED BY <2>1, <2>3, <2>4, <2>5, <2>6 DEF BlockchainInv
<1>3. \A stage, reply : Chaincodes!Serve(i, stage, reply) => Serve(i, stage, reply)
  BY DEF Chaincodes!Serve, Serve, Chaincodes!Over, Over
<1> USE DEF Chaincodes!Waiting, Chaincodes!Done, Chaincodes!Fails, Chaincodes!Refused
<1>4. ASSUME Chaincodes!Refused(i), UNCHANGED <<registered, listeners>>,
             pending[i].op # "contracts" \/ stopped' = TRUE
      PROVE  BlockchainInv'
  <2>1. Serve(i, "failed", None) /\ stopped' = TRUE
    BY <1>3, <1>4
  <2> QED BY <1>2, <1>4, <2>1
<1>5. CASE Chaincodes!RegisterApi(i)
  <2>1. listeners' = listeners /\ pending[i].op = "register"
    BY <1>5 DEF Chaincodes!RegisterApi
  <2>2. CASE Serve(i, "list", None) /\ UNCHANGED stopped
    BY <1>2, <2>1, <2>2 DEF BlockchainInv, ListenersInv
  <2>3. CASE Chaincodes!Refused(i) /\ UNCHANGED registered
    BY <1>4, <2>1, <2>3
  <2> QED BY <1>3, <1>5, <2>2, <2>3 DEF Chaincodes!RegisterApi
<1>6. CASE Chaincodes!FindApi(i)
  <2>1. UNCHANGED <<registered, listeners>> /\ pending[i].op = "delete"
    BY <1>6 DEF Chaincodes!FindApi
  <2>2. CASE Serve(i, "list", None) /\ UNCHANGED stopped
    BY <1>2, <2>1, <2>2 DEF BlockchainInv, ListenersInv
  <2>3. CASE Chaincodes!Refused(i)
    BY <1>4, <2>1, <2>3
  <2> QED BY <1>3, <1>6, <2>2, <2>3 DEF Chaincodes!FindApi
<1>7. CASE Chaincodes!ListListeners(i)
  <2>1. /\ UNCHANGED <<registered, listeners>>
        /\ Chaincodes!Running(i) /\ pending[i].op \in {"register", "delete"}
    BY <1>7 DEF Chaincodes!ListListeners, Chaincodes!Running, BlockchainInv, ChaincodeCalls
  <2>2. CASE Serve(i, "clear", listeners) /\ UNCHANGED stopped
    BY <1>2, <2>1, <2>2 DEF BlockchainInv, ListenersInv
  <2>3. CASE Chaincodes!Refused(i)
    BY <1>4, <2>1, <2>3
  <2> QED BY <1>3, <1>7, <2>2, <2>3 DEF Chaincodes!ListListeners, Chaincodes!ToClear
<1>8. CASE Chaincodes!ClearListener(i)
  <2>1. /\ UNCHANGED registered /\ pending[i].stage = "clear"
        /\ pending[i].op \in {"register", "delete"}
    BY <1>8 DEF Chaincodes!ClearListener, Chaincodes!Running, BlockchainInv, ChaincodeCalls
  <2>2. PICK l \in pending[i].reply :
           /\ Serve(i, "clear", pending[i].reply \ {l})
           /\ \/ listeners' = listeners \ {l} /\ stopped' = stopped
              \/ stopped' = TRUE
    BY <1>3, <1>8 DEF Chaincodes!ClearListener
  <2>3. ~raced /\ ~stopped' =>
            /\ ~stopped
            /\ listeners' \subseteq pending[i].reply \ {l}
            /\ \A x, y \in listeners' : x = y
    BY <2>1, <2>2 DEF BlockchainInv, ListenersInv
  <2> HIDE DEF BlockchainInv
  <2> QED BY <1>2, <2>1, <2>2, <2>3
<1>9. CASE Chaincodes!FinishCall(i)
  <2>1. /\ pending[i].stage = "clear" /\ pending[i].reply = {}
        /\ pending[i].op \in {"register", "delete"}
    BY <1>9 DEF Chaincodes!FinishCall, Chaincodes!Running, BlockchainInv, ChaincodeCalls
  <2>2. ~raced /\ ~stopped => listeners = {}
    BY <2>1 DEF BlockchainInv, ListenersInv
  <2>3. CASE Serve(i, "done", None) /\ UNCHANGED stopped
    <3>1. ~raced /\ ~stopped => \A x, y \in listeners' : x = y
      BY <1>9, <2>2 DEF Chaincodes!FinishCall
    <3> QED BY <1>2, <2>1, <2>3, <3>1
  <2>4. CASE Chaincodes!Refused(i) /\ UNCHANGED <<registered, listeners>>
    BY <1>4, <2>1, <2>4
  <2> QED BY <1>3, <1>9, <2>3, <2>4 DEF Chaincodes!FinishCall
<1>10. CASE Chaincodes!BlockchainRead(i)
  <2>1. /\ UNCHANGED <<registered, listeners, stopped>>
        /\ pending[i].op \in {"contracts", "interface"}
    BY <1>10 DEF Chaincodes!BlockchainRead
  <2>2. PICK stage, reply :
           /\ Serve(i, stage, reply)
           /\ stage \in {"done", "failed"}
           /\ pending[i].op = "contracts" => stage = "failed" \/ (stage = "done" /\ reply = registered)
    BY <1>3, <1>10 DEF Chaincodes!BlockchainRead
  <2> QED BY <1>2, <2>1, <2>2 DEF BlockchainInv, ListenersInv
<1> QED BY <1>5, <1>6, <1>7, <1>8, <1>9, <1>10 DEF Chaincodes!BlockchainServed

\* An answer that reaches the page touches no listener.
LEMMA BlockchainReceives ==
    ASSUME BlockchainInv, NEW i \in DOMAIN pending,
           \/ Chaincodes!ContractsArrive(i) \/ Chaincodes!InterfaceArrives(i)
           \/ Chaincodes!RegisterArrives(i) \/ Chaincodes!DeleteArrives(i)
    PROVE  BlockchainInv'
<1> USE DEF Chaincodes!Page, Chaincodes!firefly, Chaincodes!dialogs
<1>1. \A more : Chaincodes!Receive(i, more) => Receive(i, more)
  BY DEF Chaincodes!Receive, Receive, Chaincodes!Over, Over, Chaincodes!Without, Without
<1>2. \E more \in {<<>>, <<Ask("contracts", None)>>} :
         /\ Receive(i, more)
         /\ more = <<>> /\ ~Failed(i) => pending[i].op \in {"contracts", "interface"}
  BY <1>1, OneSent DEF Chaincodes!Failed, Failed, Chaincodes!ContractsArrive, Chaincodes!InterfaceArrives,
              Chaincodes!RegisterArrives, Chaincodes!DeleteArrives, Chaincodes!AfterForm,
              Chaincodes!ForContracts, Chaincodes!Ask, Ask
<1>3. UNCHANGED <<registered, listeners, raced, stopped>>
  BY DEF Chaincodes!ContractsArrive, Chaincodes!InterfaceArrives,
         Chaincodes!RegisterArrives, Chaincodes!DeleteArrives
<1>4. PICK more \in {<<>>, <<Ask("contracts", None)>>} :
         /\ Receive(i, more)
         /\ more = <<>> /\ ~Failed(i) => pending[i].op \in {"contracts", "interface"}
  BY <1>2
<1>5. Fresh(more) /\ \A m \in DOMAIN more : more[m].op = "contracts"
  BY <1>4, NoneSent, OneSent
<1>6. /\ Queue'
      /\ Len(pending) \in Nat
      /\ DOMAIN pending' = 1..(Len(pending) - 1 + Len(more))
      /\ \A j \in 1..(Len(pending) - 1) :
            Before(i, j) \in DOMAIN pending \ {i} /\ pending'[j] = pending[Before(i, j)]
      /\ \A k \in DOMAIN more : pending'[Len(pending) - 1 + k] = more[k]
      /\ inOrder' => inOrder /\ i = 1
      /\ failures' = failures
  BY <1>4, <1>5, Receives, QueuePlaces DEF BlockchainInv
<1>7. \A j \in DOMAIN pending' : pending'[j].stage # "sent" =>
         j \in 1..(Len(pending) - 1)
  <2> SUFFICES ASSUME NEW j \in DOMAIN pending', j \notin 1..(Len(pending) - 1)
               PROVE  pending'[j].stage = "sent"
    OBVIOUS
  <2>1. Len(more) \in Nat /\ DOMAIN more = 1..Len(more)
    BY <1>5, Places DEF Fresh
  <2>2. /\ j - (Len(pending) - 1) \in DOMAIN more
        /\ Len(pending) - 1 + (j - (Len(pending) - 1)) = j
    BY <1>6, <2>1
  <2> QED BY <1>5, <1>6, <2>2 DEF Fresh
<1>8. ChaincodeCalls'
  BY <1>6, <1>7 DEF BlockchainInv, ChaincodeCalls, Chaincodes!Running
<1>9. ListenersInv'
  <2> SUFFICES ASSUME ~raced, ~stopped PROVE ListenersInv'
    BY <1>3 DEF ListenersInv
  <2>1. \A j, k \in 1..(Len(pending) - 1) : Before(i, j) = Before(i, k) => j = k
    BY <1>6, QueuePlaces DEF Before, BlockchainInv
  <2>2. \A j, k \in DOMAIN pending' : Chaincodes!Running(j)' /\ Chaincodes!Running(k)' => j = k
    BY <1>6, <1>7, <2>1 DEF BlockchainInv, ListenersInv, Chaincodes!Running
  <2>3. \A j \in DOMAIN pending' : pending'[j].stage = "clear" => listeners \subseteq pending'[j].reply
    BY <1>6, <1>7 DEF BlockchainInv, ListenersInv
  <2> QED BY <1>3, <2>2, <2>3 DEF BlockchainInv, ListenersInv
<1>11. ASSUME i = 1, NEW k \in DOMAIN pending \ {i}
       PROVE  k - 1 \in DOMAIN pending' /\ pending'[k - 1] = pending[k]
  <2>1. k - 1 \in 1..(Len(pending) - 1) /\ Before(i, k - 1) = k
    BY <1>6, <1>11, QueuePlaces DEF Before, BlockchainInv
  <2>2. k - 1 \in DOMAIN pending'
    BY <1>5, <1>6, <2>1, Places DEF Fresh
  <2> QED BY <1>6, <2>1, <2>2
<1>12. ASSUME i = 1, more = <<>>, NEW k \in DOMAIN pending \ {i}, Latest(k, "contracts"),
              ~Over(k) \/ pending[k].reply = registered
       PROVE  \E j \in DOMAIN pending' : /\ Latest(j, "contracts")'
                                         /\ ~Over(j)' \/ pending'[j].reply = registered'
  <2>1. /\ k - 1 \in DOMAIN pending' /\ Latest(k - 1, "contracts")'
        /\ pending'[k - 1] = pending[k]
    BY <1>4, <1>5, <1>12, NoneSent, LatestWhenReceived DEF BlockchainInv
  <2>2. ~Over(k - 1)' \/ pending'[k - 1].reply = registered'
    BY <1>3, <1>12, <2>1 DEF Over
  <2> QED BY <2>1, <2>2
<1>10. ContractsInv'
  <2> SUFFICES ASSUME inOrder', ~failures' PROVE ContractsInv'
    BY DEF ContractsInv
  <2>1. /\ inOrder /\ ~failures /\ i = 1 /\ Over(i) /\ ~Failed(i)
    BY <1>4, <1>6 DEF BlockchainInv, Queue, Receive
  <2>2. CASE more = <<Ask("contracts", None)>>
    <3>1. PICK k \in DOMAIN pending' : Latest(k, "contracts")' /\ pending'[k] = Ask("contracts", None)
      BY <1>4, <2>2, LatestAsked DEF BlockchainInv
    <3>2. ~Over(k)'
      BY <3>1 DEF Over, Ask
    <3> QED BY <3>1, <3>2 DEF ContractsInv
  <2>3. CASE more = <<>> /\ pending[i].op = "contracts"
    <3>1. smartContracts' = pending[i].reply
      BY <2>1, <2>3 DEF Chaincodes!ContractsArrive, Chaincodes!InterfaceArrives,
                   Chaincodes!RegisterArrives, Chaincodes!DeleteArrives, Chaincodes!Failed, Failed
    <3>2. CASE \E k \in DOMAIN pending \ {i} : pending[k].op \in {"register", "delete"}
      <4>1. PICK k \in DOMAIN pending \ {i} : pending[k].op \in {"register", "delete"}
        BY <3>2
      <4> QED BY <1>11, <2>1, <4>1 DEF ContractsInv
    <3>3. ASSUME NEW k \in DOMAIN pending, Latest(k, "contracts"),
                 ~Over(k) \/ pending[k].reply = registered
          PROVE  ContractsInv'
      <4>1. CASE k = i
        <5>1. NoneOf("contracts")'
          BY <1>4, <1>5, <2>1, <2>3, <3>3, <4>1, LatestWhenReceived DEF BlockchainInv
        <5> QED BY <1>3, <2>1, <3>1, <3>3, <4>1, <5>1 DEF ContractsInv
      <4>2. CASE k # i
        BY <1>12, <2>1, <2>3, <3>3, <4>2 DEF ContractsInv
      <4> QED BY <4>1, <4>2
    <3> QED BY <2>1, <2>3, <3>2, <3>3 DEF BlockchainInv, ContractsInv, NoneOf
  <2>4. CASE more = <<>> /\ pending[i].op = "interface"
    <3>1. smartContracts' = smartContracts
      BY <2>4 DEF Chaincodes!ContractsArrive, Chaincodes!InterfaceArrives,
                  Chaincodes!RegisterArrives, Chaincodes!DeleteArrives
    <3>2. CASE \E k \in DOMAIN pending \ {i} : pending[k].op \in {"register", "delete"}
      <4>1. PICK k \in DOMAIN pending \ {i} : pending[k].op \in {"register", "delete"}
        BY <3>2
      <4> QED BY <1>11, <2>1, <4>1 DEF ContractsInv
    <3>3. ASSUME NEW k \in DOMAIN pending, Latest(k, "contracts"),
                 ~Over(k) \/ pending[k].reply = registered
          PROVE  ContractsInv'
      <4>1. k # i
        BY <2>4, <3>3 DEF Latest
      <4> QED BY <1>12, <2>1, <2>4, <3>3, <4>1 DEF ContractsInv
    <3>4. CASE NoneOf("contracts") /\ smartContracts = registered
      <4>1. NoneOf("contracts")'
        BY <1>4, <1>5, <2>1, <2>4, <3>4, LatestWhenReceived DEF BlockchainInv
      <4> QED BY <1>3, <3>1, <3>4, <4>1 DEF ContractsInv
    <3> QED BY <2>1, <2>4, <3>2, <3>3, <3>4 DEF BlockchainInv, ContractsInv
  <2> QED BY <1>4, <2>1, <2>2, <2>3, <2>4
<1>13. InterfaceInv'
  <2> SUFFICES ASSUME inOrder', ~failures', selectedContract' # None PROVE InterfaceInv'
    BY DEF InterfaceInv
  <2>1. /\ inOrder /\ ~failures /\ i = 1 /\ Over(i) /\ ~Failed(i)
        /\ selectedContract' = selectedContract
        /\ interfaceOf' = IF pending[i].op = "interface" THEN pending[i].arg ELSE interfaceOf
    <3>1. inOrder /\ ~failures /\ i = 1 /\ Over(i) /\ ~Failed(i)
      BY <1>4, <1>6 DEF BlockchainInv, Queue, Receive
    <3> QED BY <3>1 DEF Chaincodes!ContractsArrive, Chaincodes!InterfaceArrives,
                Chaincodes!RegisterArrives, Chaincodes!DeleteArrives, Chaincodes!Failed, Failed
  <2>2. \A m \in DOMAIN more : more[m].op # "interface"
    BY <1>5
  <2>3. ASSUME NEW k \in DOMAIN pending \ {i}, Latest(k, "interface"),
               pending[k].arg = selectedContract
        PROVE  InterfaceInv'
    <3>1. /\ k - 1 \in DOMAIN pending' /\ Latest(k - 1, "interface")'
          /\ pending'[k - 1] = pending[k]
      BY <1>4, <1>5, <2>1, <2>2, <2>3, LatestWhenReceived DEF BlockchainInv
    <3> QED BY <2>1, <2>3, <3>1 DEF InterfaceInv
  <2>4. CASE Latest(i, "interface") /\ pending[i].arg = selectedContract
    <3>1. NoneOf("interface")'
      BY <1>4, <1>5, <2>1, <2>2, <2>4, LatestWhenReceived DEF BlockchainInv
    <3> QED BY <2>1, <2>4, <3>1 DEF InterfaceInv, Latest
  <2>5. CASE NoneOf("interface") /\ interfaceOf = selectedContract
    <3>1. NoneOf("interface")'
      BY <1>4, <1>5, <2>1, <2>2, <2>5, LatestWhenReceived DEF BlockchainInv
    <3> QED BY <2>1, <2>5, <3>1 DEF InterfaceInv, NoneOf
  <2> QED BY <2>1, <2>3, <2>4, <2>5 DEF BlockchainInv, InterfaceInv
<1> QED BY <1>6, <1>8, <1>9, <1>10, <1>13 DEF BlockchainInv

\* The user of the page opens and closes what is shown, and sends requests.
LEMMA BlockchainActs ==
    ASSUME BlockchainInv,
           \/ \E a \in Apis : \/ Chaincodes!handleContractClick(a)
                              \/ \E ffi \in BOOLEAN : Chaincodes!handleSubmit(a, ffi)
           \/ Chaincodes!CloseDetails \/ Chaincodes!OpenForm \/ Chaincodes!CloseForm
           \/ Chaincodes!PromptDelete \/ Chaincodes!CancelDelete \/ Chaincodes!ConfirmDelete
    PROVE  BlockchainInv'
<1> USE DEF Chaincodes!Page, Chaincodes!firefly, Chaincodes!dialogs
<1>1. \A more : Chaincodes!Send(more) => Send(more)
  BY DEF Chaincodes!Send, Send
<1>2. UNCHANGED <<registered, listeners, raced, stopped, smartContracts>>
  BY DEF Chaincodes!handleContractClick, Chaincodes!handleSubmit, Chaincodes!CloseDetails,
         Chaincodes!OpenForm, Chaincodes!CloseForm, Chaincodes!PromptDelete,
         Chaincodes!CancelDelete, Chaincodes!ConfirmDelete
<1>3. ASSUME UNCHANGED <<pending, inOrder, failures, interfaceOf>>,
             selectedContract' \in {selectedContract, None}
      PROVE  BlockchainInv'
  BY <1>2, <1>3 DEF BlockchainInv, Queue, ChaincodeCalls, ListenersInv, ContractsInv, InterfaceInv,
                    Chaincodes!Running, Latest, NoneOf, Over, Failed
<1>4. ASSUME NEW op \in {"interface", "register", "delete"}, NEW arg, Send(<<Ask(op, arg)>>),
             IF op = "interface" THEN selectedContract' = arg
             ELSE UNCHANGED <<selectedContract, interfaceOf>>
      PROVE  BlockchainInv'
  <2> DEFINE more == <<Ask(op, arg)>>
  <2>1. /\ Queue'
        /\ DOMAIN pending' = 1..(Len(pending) + 1)
        /\ DOMAIN pending = 1..Len(pending) /\ Len(pending) \in Nat
        /\ \A j \in DOMAIN pending : pending'[j] = pending[j]
        /\ pending'[Len(pending) + 1] = Ask(op, arg)
        /\ inOrder' = inOrder /\ failures' = failures
    BY <1>4, AsksOne, QueuePlaces DEF BlockchainInv
  <2>2. /\ Fresh(more) /\ Send(more)
        /\ \A m \in DOMAIN more : more[m].op = op
    BY <1>4, OneSent
  <2> HIDE DEF more
  <2>3. \A j \in DOMAIN pending' : pending'[j].stage # "sent" => j \in DOMAIN pending
    BY <2>1 DEF Ask
  <2>4. ChaincodeCalls'
    BY <2>1, <2>3 DEF BlockchainInv, ChaincodeCalls, Chaincodes!Running
  <2>5. ListenersInv'
    <3> SUFFICES ASSUME ~raced, ~stopped PROVE ListenersInv'
      BY <1>2 DEF ListenersInv
    <3>1. \A j, k \in DOMAIN pending' : Chaincodes!Running(j)' /\ Chaincodes!Running(k)' => j = k
      BY <2>1, <2>3 DEF BlockchainInv, ListenersInv, Chaincodes!Running
    <3>2. \A j \in DOMAIN pending' : pending'[j].stage = "clear" => listeners \subseteq pending'[j].reply
      BY <2>1, <2>3 DEF BlockchainInv, ListenersInv
    <3> QED BY <1>2, <3>1, <3>2 DEF BlockchainInv, ListenersInv
  <2>6. ContractsInv'
    <3> SUFFICES ASSUME inOrder, ~failures PROVE ContractsInv'
      BY <2>1 DEF ContractsInv
    <3>1. CASE op \in {"register", "delete"}
      <4>1. /\ Len(pending) + 1 \in DOMAIN pending'
            /\ pending'[Len(pending) + 1].op \in {"register", "delete"}
        BY <2>1, <3>1 DEF Ask
      <4> QED BY <4>1 DEF ContractsInv
    <3>2. CASE op = "interface"
      <4>1. \A m \in DOMAIN more : more[m].op # "contracts"
        BY <2>2, <3>2
      <4>2. /\ \A k \in DOMAIN pending : Latest(k, "contracts") =>
                 k \in DOMAIN pending' /\ Latest(k, "contracts")' /\ pending'[k] = pending[k]
            /\ NoneOf("contracts") => NoneOf("contracts")'
        BY <2>2, <4>1, LatestWhenSent DEF BlockchainInv
      <4>3. ASSUME NEW k \in DOMAIN pending, pending[k].op \in {"register", "delete"}
            PROVE  ContractsInv'
        BY <2>1, <4>3 DEF ContractsInv
      <4>4. ASSUME NEW k \in DOMAIN pending, Latest(k, "contracts"),
                   ~Over(k) \/ pending[k].reply = registered
            PROVE  ContractsInv'
        BY <1>2, <4>2, <4>4 DEF ContractsInv, Over
      <4>5. CASE NoneOf("contracts") /\ smartContracts = registered
        BY <1>2, <4>2, <4>5 DEF ContractsInv
      <4> QED BY <4>3, <4>4, <4>5 DEF BlockchainInv, ContractsInv
    <3> QED BY <3>1, <3>2
  <2>7. InterfaceInv'
    <3>1. CASE op = "interface"
      <4>1. PICK k \in DOMAIN pending' : Latest(k, "interface")' /\ pending'[k] = Ask(op, arg)
        BY <1>4, <3>1, LatestAsked DEF BlockchainInv
      <4> QED BY <1>4, <3>1, <4>1 DEF InterfaceInv, Ask
    <3>2. CASE op # "interface"
      <4>1. \A m \in DOMAIN more : more[m].op # "interface"
        BY <2>2, <3>2
      <4>2. /\ \A k \in DOMAIN pending : Latest(k, "interface") =>
                 k \in DOMAIN pending' /\ Latest(k, "interface")' /\ pending'[k] = pending[k]
            /\ NoneOf("interface") => NoneOf("interface")'
        BY <2>2, <4>1, LatestWhenSent DEF BlockchainInv
      <4> QED BY <1>4, <2>1, <3>2, <4>2 DEF BlockchainInv, InterfaceInv
    <3> QED BY <3>1, <3>2
  <2> QED BY <2>1, <2>4, <2>5, <2>6, <2>7 DEF BlockchainInv
<1>5. ASSUME NEW a \in Apis, Chaincodes!handleContractClick(a) PROVE BlockchainInv'
  <2>1. Send(<<Ask("interface", a)>>) /\ selectedContract' = a
    BY <1>1, <1>5 DEF Chaincodes!handleContractClick, Chaincodes!Fetch, Chaincodes!Ask, Ask
  <2> QED BY <1>4, <2>1
<1>6. ASSUME NEW a \in Apis, NEW ffi \in BOOLEAN, Chaincodes!handleSubmit(a, ffi)
      PROVE  BlockchainInv'
  <2>1. /\ Send(<<Ask("register", [form |-> formOpen, api |-> a, ffi |-> ffi, id |-> moves + 1])>>)
        /\ UNCHANGED <<selectedContract, interfaceOf>>
    BY <1>1, <1>6 DEF Chaincodes!handleSubmit, Chaincodes!Ask, Ask
  <2> QED BY <1>4, <2>1
<1>7. CASE Chaincodes!ConfirmDelete
  <2>1. /\ Send(<<Ask("delete", [api |-> confirmDelete])>>)
        /\ UNCHANGED <<selectedContract, interfaceOf>>
    BY <1>1, <1>7 DEF Chaincodes!ConfirmDelete, Chaincodes!Ask, Ask
  <2> QED BY <1>4, <2>1
<1>8. CASE \/ Chaincodes!CloseDetails \/ Chaincodes!OpenForm \/ Chaincodes!CloseForm
           \/ Chaincodes!PromptDelete \/ Chaincodes!CancelDelete
  BY <1>3, <1>8 DEF Chaincodes!CloseDetails, Chaincodes!OpenForm, Chaincodes!CloseForm,
                    Chaincodes!PromptDelete, Chaincodes!CancelDelete, Chaincodes!requestVars
<1> QED BY <1>5, <1>6, <1>7, <1>8

LEMMA BlockchainStep == BlockchainInv /\ Chaincodes!BlockchainNext => BlockchainInv'
  BY BlockchainServes, BlockchainReceives, BlockchainActs DEF Chaincodes!BlockchainNext

LEMMA BlockchainRests == BlockchainInv /\ UNCHANGED <<requestVars, chaincodes>> => BlockchainInv'
  BY DEF requestVars, chaincodes, BlockchainInv, Queue, ChaincodeCalls, ListenersInv, ContractsInv,
         InterfaceInv, Chaincodes!Running, Latest, NoneOf, Over, Failed

\* What the page promises follows.
LEMMA BlockchainPromises ==
    BlockchainInv => /\ Chaincodes!OneListener
                     /\ Chaincodes!ContractsAgree
                     /\ Chaincodes!InterfaceIsTheirs
<1> SUFFICES ASSUME BlockchainInv
             PROVE  /\ Chaincodes!OneListener
                    /\ Chaincodes!ContractsAgree
                    /\ Chaincodes!InterfaceIsTheirs
  OBVIOUS
<1>1. Chaincodes!OneListener
  <2> SUFFICES ASSUME ~raced, ~stopped PROVE Cardinality(listeners) <= 1
    BY DEF Chaincodes!OneListener, Chaincodes!Cardinality, Cardinality
  <2>1. CASE listeners = {}
    BY <2>1, FS_EmptySet
  <2>2. ASSUME NEW l \in listeners PROVE Cardinality(listeners) <= 1
    <3>1. listeners = {l}
      BY <2>2 DEF BlockchainInv, ListenersInv
    <3>2. Cardinality({l}) = 1
      BY FS_Singleton
    <3> QED BY <3>1, <3>2
  <2> QED BY <2>1, <2>2
<1>2. ASSUME Chaincodes!Quiet PROVE DOMAIN pending = {}
  BY <1>2 DEF Chaincodes!Quiet
<1> QED BY <1>1, <1>2 DEF BlockchainInv, ContractsInv, InterfaceInv,
                          Chaincodes!ContractsAgree, Chaincodes!InterfaceIsTheirs

-----------------------------------------------------------------------------
(* NotificationSender                                                       *)

\* whom a request is for
Meant(i) ==
    IF pending[i].op = "user" THEN {pending[i].arg.to} \ {Sender}
    ELSE {u \in Notices!Everybody : roleOf[u] \in pending[i].arg.roles \ {roleOf[Sender]}}

SenderTypes ==
    /\ inbox \in [Notices!Everybody -> [Texts -> Nat]]
    /\ chosen \in [Texts -> SUBSET Notices!Everybody]
    /\ typed \subseteq Texts /\ active \subseteq Notices!Everybody
    /\ form = [text |-> form.text, roles |-> form.roles]
    /\ form.text \in typed \cup {None}
    /\ notificationConfirm => form.text \in typed
    /\ notificationModal \in Notices!Everybody \cup {"global", None}

\* What a request of the dialogs has done of what it was confirmed for.
Sending(i) ==
    /\ pending[i].op \in {"user", "roles"}
    /\ pending[i].op = "user" => pending[i].arg.to \in Notices!Everybody
    /\ pending[i].arg.text \in typed
    /\ pending[i].stage \in {"sent", "found", "created", "done", "failed"}
    /\ Meant(i) \subseteq chosen[pending[i].arg.text]
    /\ pending[i].stage = "found" =>
          /\ pending[i].reply \subseteq Meant(i)
          /\ Meant(i) \cap active \subseteq pending[i].reply
    /\ pending[i].stage = "failed" => pending[i].arg.text \in failed
    /\ pending[i].arg.text \notin failed =>
          /\ chosen[pending[i].arg.text] = Meant(i)
          /\ \A u \in Notices!Everybody :
                IF pending[i].stage \in {"sent", "found"} THEN inbox[u][pending[i].arg.text] = 0
                ELSE u \in Meant(i) \cap active => inbox[u][pending[i].arg.text] = 1

\* One request is under way at a time.
SendingInv ==
    \A i \in DOMAIN pending : notificationSending /\ Sending(i) /\ \A j \in DOMAIN pending : i = j

\* A text that no request is about has not been confirmed, or it has arrived and
\* left the draft.
TextsInv ==
    \A t \in Texts :
        /\ t \notin typed => chosen[t] = {}
        /\ \A u \in Notices!Everybody :
              /\ u \notin chosen[t] => inbox[u][t] = 0
              /\ t \notin failed => inbox[u][t] <= 1
        /\ t \notin failed /\ (\A i \in DOMAIN pending : pending[i].arg.text # t) =>
              \/ chosen[t] = {}
              \/ form.text # t /\ \A u \in chosen[t] \cap active : inbox[u][t] = 1

SenderInv == Queue /\ SenderTypes /\ SendingInv /\ TextsInv

LEMMA SenderStarts == Notices!SenderInit => SenderInv
<1> SUFFICES ASSUME Notices!SenderInit PROVE SenderInv
  OBVIOUS
<1>1. Fresh(<<>>) /\ RequestsInit(<<>>)
  BY NoneSent DEF Notices!SenderInit, Notices!RequestsInit, RequestsInit
<1>2. Queue
  BY <1>1, FirstQueue
<1>3. DOMAIN pending = {}
  BY <1>1 DEF RequestsInit
<1>4. SendingInv
  BY <1>3 DEF SendingInv
<1>5. SenderTypes
  BY DEF SenderTypes, Notices!SenderInit, Notices!Blank
<1>6. TextsInv
  BY DEF TextsInv, Notices!SenderInit
<1> QED BY <1>2, <1>4, <1>5, <1>6 DEF SenderInv

\* What auth does with a notification that is sent.
LEMMA SenderServes ==
    ASSUME SenderInv, NEW i \in DOMAIN pending,
           \/ Notices!sendToUser(i) \/ Notices!FindUsers(i) \/ Notices!CreateRows(i)
           \/ Notices!Sent(i) \/ Notices!SendFails(i)
    PROVE  SenderInv'
<1> DEFINE t == pending[i].arg.text
<1> USE DEF Notices!rows, Notices!sendVars, Notices!Waiting
<1>1. ASSUME NEW stage, NEW reply,
             Queue', DOMAIN pending' = DOMAIN pending,
             pending'[i] = [op |-> pending[i].op, arg |-> pending[i].arg,
                            stage |-> stage, reply |-> reply],
             UNCHANGED <<roleOf, active, notificationModal, form, notificationConfirm,
                         notificationSending, chosen, typed>>,
             failed' \in {failed, failed \cup {t}},
             inbox' \in [Notices!Everybody -> [Texts -> Nat]],
             \A u \in Notices!Everybody :
                 /\ \A s \in Texts \ {t} : inbox'[u][s] = inbox[u][s]
                 /\ u \notin Meant(i) => inbox'[u][t] = inbox[u][t]
                 /\ t \notin failed' => inbox'[u][t] <= 1,
             Sending(i)'
      PROVE  SenderInv'
  <2>1. SenderTypes'
    BY <1>1 DEF SenderInv, SenderTypes
  <2>2. /\ pending'[i].arg = pending[i].arg /\ \A j \in DOMAIN pending : j = i
        /\ t \in typed /\ t \in Texts /\ Meant(i) \subseteq chosen[t]
    BY <1>1 DEF SenderInv, SendingInv, Sending, SenderTypes
  <2>3. SendingInv'
    BY <1>1, <2>2 DEF SenderInv, SendingInv
  <2>4. TextsInv'
    <3> SUFFICES ASSUME NEW s \in Texts
                 PROVE  /\ s \notin typed' => chosen'[s] = {}
                        /\ \A u \in Notices!Everybody :
                              /\ u \notin chosen'[s] => inbox'[u][s] = 0
                              /\ s \notin failed' => inbox'[u][s] <= 1
                        /\ s \notin failed' /\ (\A j \in DOMAIN pending' : pending'[j].arg.text # s) =>
                              \/ chosen'[s] = {}
                              \/ /\ form'.text # s
                                 /\ \A u \in chosen'[s] \cap active' : inbox'[u][s] = 1
      BY DEF TextsInv, Notices!Everybody
    <3>1. CASE s = t
      BY <1>1, <2>2, <3>1 DEF SenderInv, TextsInv
    <3>2. CASE s # t
      <4>1. \A u \in Notices!Everybody : inbox'[u][s] = inbox[u][s]
        BY <1>1, <3>2
      <4>2. s \notin failed' => s \notin failed
        BY <1>1
      <4>3. \A u \in chosen[s] : u \in Notices!Everybody
        BY DEF SenderInv, SenderTypes
      <4> QED BY <1>1, <2>2, <3>2, <4>1, <4>2, <4>3 DEF SenderInv, TextsInv
    <3> QED BY <3>1, <3>2
  <2> QED BY <1>1, <2>1, <2>3, <2>4 DEF SenderInv
<1>2. \A stage, reply : Notices!Serve(i, stage, reply) => Serve(i, stage, reply)
  BY DEF Notices!Serve, Serve, Notices!Over, Over
<1>3. /\ Sending(i) /\ t \in Texts /\ Meant(i) \subseteq Notices!Everybody
      /\ inbox \in [Notices!Everybody -> [Texts -> Nat]]
      /\ \A u \in Notices!Everybody : t \notin failed => inbox[u][t] <= 1
      /\ Queue /\ active \subseteq Notices!Everybody
  BY DEF SenderInv, SendingInv, Sending, SenderTypes, Meant, TextsInv
<1>4. ASSUME NEW stage, NEW reply, UNCHANGED roleOf,
             pending'[i] = [op |-> pending[i].op, arg |-> pending[i].arg,
                            stage |-> stage, reply |-> reply]
      PROVE  /\ pending'[i].op = pending[i].op /\ pending'[i].arg = pending[i].arg
             /\ pending'[i].stage = stage /\ pending'[i].reply = reply
             /\ Meant(i)' = Meant(i)
  BY <1>4 DEF Meant, Notices!Everybody
<1>5. ASSUME Notices!Refused(i) PROVE SenderInv'
  <2>1. Serve(i, "failed", None) /\ failed' = failed \cup {t}
    BY <1>2, <1>5 DEF Notices!Refused, Notices!Fails
  <2>2. /\ UNCHANGED <<roleOf, active, inbox, notificationModal, form, notificationConfirm,
                       notificationSending, chosen, typed>>
    BY <1>5 DEF Notices!Refused
  <2>3. /\ Queue' /\ DOMAIN pending' = DOMAIN pending
        /\ pending'[i] = [op |-> pending[i].op, arg |-> pending[i].arg,
                          stage |-> "failed", reply |-> None]
    BY <1>3, <2>1, Serves
  <2>4. Sending(i)'
    BY <1>3, <2>1, <2>2, <2>3 DEF Sending, Meant, Notices!Everybody
  <2> QED BY <1>1, <1>3, <2>1, <2>2, <2>3, <2>4
<1>6. CASE Notices!sendToUser(i)
  <2>1. CASE pending[i].arg.to = Sender
    BY <1>5, <1>6, <2>1 DEF Notices!sendToUser
  <2>2. CASE pending[i].arg.to # Sender
    <3> DEFINE to == pending[i].arg.to
    <3>1. /\ inbox' = [inbox EXCEPT ![to][t] = @ + 1]
          /\ pending' = [pending EXCEPT ![i].stage = "created"]
          /\ UNCHANGED <<inOrder, failures>>
          /\ UNCHANGED <<roleOf, active, notificationModal, form, notificationConfirm,
                         notificationSending, chosen, typed, failed>>
          /\ pending[i].op = "user" /\ pending[i].stage = "sent"
      BY <1>6, <2>2 DEF Notices!sendToUser
    <3>2. to \in Notices!Everybody /\ Meant(i) = {to}
      BY <1>3, <2>2, <3>1 DEF Sending, Meant
    <3>3. /\ Queue' /\ DOMAIN pending' = DOMAIN pending
          /\ pending'[i] = [op |-> pending[i].op, arg |-> pending[i].arg,
                            stage |-> "created", reply |-> pending[i].reply]
      <4>1. Advance(i, "created", pending[i].reply)
        BY <3>1 DEF Advance
      <4> QED BY <1>3, <4>1, Advances
    <3>4. /\ inbox' \in [Notices!Everybody -> [Texts -> Nat]]
          /\ inbox'[to][t] = inbox[to][t] + 1
          /\ \A u \in Notices!Everybody : \A s \in Texts :
                u # to \/ s # t => inbox'[u][s] = inbox[u][s]
      <4>1. inbox' = [inbox EXCEPT ![to] = [inbox[to] EXCEPT ![t] = inbox[to][t] + 1]]
        BY <3>1
      <4>2. inbox[to] \in [Texts -> Nat] /\ inbox[to][t] \in Nat
        BY <1>3, <3>2
      <4>3. inbox[to][t] + 1 \in Nat
        BY <4>2
      <4> HIDE DEF t
      <4> QED BY <1>3, <3>2, <4>1, <4>2, <4>3
    <3>5. t \notin failed => inbox'[to][t] = 1
      BY <1>3, <3>1, <3>2, <3>4 DEF Sending
    <3>8. /\ pending'[i].op = pending[i].op /\ pending'[i].arg = pending[i].arg
          /\ pending'[i].stage = "created" /\ Meant(i)' = Meant(i)
      BY <1>4, <3>1, <3>3
    <3>6. Sending(i)'
      BY <1>3, <3>1, <3>2, <3>5, <3>8 DEF Sending, Notices!Everybody
    <3>7. \A u \in Notices!Everybody :
             /\ \A s \in Texts \ {t} : inbox'[u][s] = inbox[u][s]
             /\ u \notin Meant(i) => inbox'[u][t] = inbox[u][t]
             /\ t \notin failed' => inbox'[u][t] <= 1
      <4> TAKE u \in Notices!Everybody
      <4>1. \A s \in Texts \ {t} : inbox'[u][s] = inbox[u][s]
        BY <3>4
      <4>2. u # to => inbox'[u][t] = inbox[u][t]
        BY <1>3, <3>4
      <4>3. t \notin failed' => inbox'[u][t] <= 1
        <5>1. t \notin failed' => t \notin failed
          BY <3>1
        <5>2. u = to \/ u # to
          OBVIOUS
        <5>3. t \notin failed => (u = to => inbox'[u][t] <= 1)
          BY <3>5
        <5> QED BY <1>3, <4>2, <5>1, <5>2, <5>3
      <4> QED BY <3>2, <4>1, <4>2, <4>3
    <3> HIDE DEF t, to
    <3> QED BY <1>1, <3>1, <3>3, <3>4, <3>6, <3>7 DEF t
  <2> QED BY <2>1, <2>2
<1>7. CASE Notices!FindUsers(i)
  <2> DEFINE found == {u \in active : roleOf[u] \in pending[i].arg.roles \ {roleOf[Sender]}}
  <2>1. CASE Notices!RolesToSend(pending[i].arg.roles) = {}
    BY <1>5, <1>7, <2>1 DEF Notices!FindUsers
  <2>2. CASE Notices!RolesToSend(pending[i].arg.roles) # {}
    <3>1. /\ pending' = [pending EXCEPT ![i].stage = "found", ![i].reply = found]
          /\ UNCHANGED <<inOrder, failures>>
          /\ UNCHANGED <<roleOf, active, inbox, notificationModal, form, notificationConfirm,
                         notificationSending, chosen, typed, failed>>
          /\ pending[i].op = "roles" /\ pending[i].stage = "sent"
      BY <1>7, <2>2 DEF Notices!FindUsers, Notices!RolesToSend
    <3>2. found \subseteq Meant(i) /\ Meant(i) \cap active \subseteq found
      BY <1>3, <3>1 DEF Meant
    <3> HIDE DEF found
    <3>3. /\ Queue' /\ DOMAIN pending' = DOMAIN pending
          /\ pending'[i] = [op |-> pending[i].op, arg |-> pending[i].arg,
                            stage |-> "found", reply |-> found]
      <4>1. Advance(i, "found", found)
        BY <3>1 DEF Advance
      <4> QED BY <1>3, <4>1, Advances
    <3>5. /\ pending'[i].op = pending[i].op /\ pending'[i].arg = pending[i].arg
          /\ pending'[i].stage = "found" /\ pending'[i].reply = found /\ Meant(i)' = Meant(i)
      BY <1>4, <3>1, <3>3
    <3>4. Sending(i)'
      BY <1>3, <3>1, <3>2, <3>5 DEF Sending, Notices!Everybody
    <3>6. UNCHANGED <<roleOf, active, inbox, notificationModal, form, notificationConfirm,
                      notificationSending, chosen, typed, failed>>
      BY <3>1
    <3> HIDE DEF t
    <3>7. /\ inbox' \in [Notices!Everybody -> [Texts -> Nat]]
          /\ \A u \in Notices!Everybody :
                /\ \A s \in Texts \ {t} : inbox'[u][s] = inbox[u][s]
                /\ u \notin Meant(i) => inbox'[u][t] = inbox[u][t]
                /\ t \notin failed' => inbox'[u][t] <= 1
      BY <1>3, <3>6
    <3> QED BY <1>1, <3>3, <3>4, <3>6, <3>7
  <2> QED BY <2>1, <2>2
<1>8. CASE Notices!CreateRows(i)
  <2>1. /\ pending' = [pending EXCEPT ![i].stage = "created"]
        /\ inbox' = [u \in Notices!Everybody |-> [s \in Texts |->
                       inbox[u][s] + IF u \in pending[i].reply /\ s = t THEN 1 ELSE 0]]
        /\ UNCHANGED <<inOrder, failures>>
        /\ UNCHANGED <<roleOf, active, notificationModal, form, notificationConfirm,
                       notificationSending, chosen, typed, failed>>
        /\ pending[i].stage = "found"
    BY <1>8 DEF Notices!CreateRows
  <2>2. /\ Queue' /\ DOMAIN pending' = DOMAIN pending
        /\ pending'[i] = [op |-> pending[i].op, arg |-> pending[i].arg,
                          stage |-> "created", reply |-> pending[i].reply]
    <3>1. Advance(i, "created", pending[i].reply)
      BY <2>1 DEF Advance
    <3> QED BY <1>3, <3>1, Advances
  <2>3. \A u \in Notices!Everybody : \A s \in Texts : inbox[u][s] \in Nat
    BY <1>3
  <2>4. /\ inbox' \in [Notices!Everybody -> [Texts -> Nat]]
        /\ \A u \in Notices!Everybody :
              /\ \A s \in Texts \ {t} : inbox'[u][s] = inbox[u][s]
              /\ inbox'[u][t] = inbox[u][t] + IF u \in pending[i].reply THEN 1 ELSE 0
    BY <1>3, <2>1, <2>3
  <2>5. pending[i].reply \subseteq Meant(i) /\ Meant(i) \cap active \subseteq pending[i].reply
    BY <1>3, <2>1 DEF Sending
  <2>6. \A u \in Notices!Everybody :
           /\ u \notin Meant(i) => inbox'[u][t] = inbox[u][t]
           /\ t \notin failed => inbox'[u][t] = IF u \in pending[i].reply THEN 1 ELSE 0
    BY <1>3, <2>1, <2>3, <2>4, <2>5 DEF Sending
  <2>9. /\ pending'[i].op = pending[i].op /\ pending'[i].arg = pending[i].arg
        /\ pending'[i].stage = "created" /\ Meant(i)' = Meant(i)
    BY <1>4, <2>1, <2>2
  <2>10. UNCHANGED <<roleOf, active, notificationModal, form, notificationConfirm,
                     notificationSending, chosen, typed, failed>>
    BY <2>1
  <2>7. Sending(i)'
    BY <1>3, <2>5, <2>6, <2>9, <2>10 DEF Sending, Notices!Everybody
  <2>8. \A u \in Notices!Everybody : t \notin failed' => inbox'[u][t] <= 1
    BY <2>1, <2>6
  <2> HIDE DEF t
  <2> QED BY <1>1, <2>2, <2>4, <2>6, <2>7, <2>8, <2>10
<1>9. CASE Notices!Sent(i)
  <2>1. /\ Serve(i, "done", None) /\ pending[i].stage = "created"
        /\ UNCHANGED <<roleOf, active, inbox, notificationModal, form, notificationConfirm,
                       notificationSending, chosen, typed, failed>>
    BY <1>2, <1>9 DEF Notices!Sent, Notices!Done
  <2>2. /\ Queue' /\ DOMAIN pending' = DOMAIN pending
        /\ pending'[i] = [op |-> pending[i].op, arg |-> pending[i].arg,
                          stage |-> "done", reply |-> None]
    BY <1>3, <2>1, Serves
  <2>3. Sending(i)'
    BY <1>3, <2>1, <2>2 DEF Sending, Meant, Notices!Everybody
  <2> QED BY <1>1, <1>3, <2>1, <2>2, <2>3
<1> QED BY <1>5, <1>6, <1>7, <1>8, <1>9 DEF Notices!SendFails

\* The answer reaches the page: a text that was sent leaves the draft.
LEMMA SenderReceives ==
    ASSUME SenderInv, NEW i \in DOMAIN pending, Notices!SendArrives(i)
    PROVE  SenderInv'
<1> DEFINE t == pending[i].arg.text
<1>1. /\ Queue /\ SenderTypes /\ Sending(i) /\ TextsInv
      /\ notificationSending /\ \A j \in DOMAIN pending : i = j
  BY DEF SenderInv, SendingInv
<1>2. Receive(i, <<>>)
  BY DEF Notices!SendArrives, Notices!Receive, Receive, Notices!Over, Over,
         Notices!Without, Without
<1>3. Queue' /\ DOMAIN pending' = {}
  <2>1. /\ Queue'
        /\ \A j \in DOMAIN pending' : Before(i, j) \in DOMAIN pending \ {i}
    BY <1>1, <1>2, ReceivesNothing
  <2> QED BY <1>1, <2>1
<1>4. /\ UNCHANGED <<roleOf, active, inbox, chosen, typed, failed>>
      /\ IF Failed(i)
         THEN UNCHANGED <<notificationModal, form, notificationConfirm>>
         ELSE /\ notificationModal' = None /\ form' = [text |-> None, roles |-> {}]
              /\ notificationConfirm' = FALSE
  BY DEF Notices!SendArrives, Notices!rows, Notices!Blank, Notices!Failed, Failed
<1>5. SenderTypes'
  BY <1>1, <1>4 DEF SenderTypes
<1>6. SendingInv'
  BY <1>3 DEF SendingInv
<1>7. TextsInv'
  <2> SUFFICES ASSUME NEW s \in Texts
               PROVE  /\ s \notin typed => chosen[s] = {}
                      /\ \A u \in Notices!Everybody :
                            /\ u \notin chosen[s] => inbox[u][s] = 0
                            /\ s \notin failed => inbox[u][s] <= 1
                      /\ s \notin failed =>
                            \/ chosen[s] = {}
                            \/ form'.text # s /\ \A u \in chosen[s] \cap active : inbox[u][s] = 1
    BY <1>4 DEF TextsInv, Notices!Everybody
  <2>1. /\ s \notin typed => chosen[s] = {}
        /\ \A u \in Notices!Everybody :
              /\ u \notin chosen[s] => inbox[u][s] = 0
              /\ s \notin failed => inbox[u][s] <= 1
    BY <1>1 DEF TextsInv
  <2>2. ASSUME s \notin failed
        PROVE  \/ chosen[s] = {}
               \/ form'.text # s /\ \A u \in chosen[s] \cap active : inbox[u][s] = 1
    <3>1. CASE s = t
      <4>1. pending[i].stage = "done"
        BY <1>1, <1>2, <2>2, <3>1 DEF Receive, Over, Sending
      <4>2. form'.text # s
        BY <1>4, <4>1, NullAssumption DEF Failed
      <4>3. \A u \in chosen[s] \cap active : inbox[u][s] = 1
        BY <1>1, <2>2, <3>1, <4>1 DEF Sending, SenderTypes
      <4> QED BY <4>2, <4>3
    <3>2. CASE s # t
      <4>1. \/ chosen[s] = {}
            \/ form.text # s /\ \A u \in chosen[s] \cap active : inbox[u][s] = 1
        BY <1>1, <2>2, <3>2 DEF TextsInv
      <4>2. form'.text # s \/ form'.text = form.text
        BY <1>4, NullAssumption
      <4> QED BY <4>1, <4>2
    <3> QED BY <3>1, <3>2
  <2> QED BY <2>1, <2>2
<1> QED BY <1>3, <1>5, <1>6, <1>7 DEF SenderInv

\* The administrator opens, fills in and closes the dialogs, and confirms; a
\* user is deactivated.
LEMMA SenderActs ==
    ASSUME SenderInv,
           \/ \E u \in Recipients \intersect active : Notices!Deactivate(u)
           \/ Notices!OpenDialog \/ Notices!CloseDialog \/ Notices!Continue
           \/ Notices!Back \/ Notices!Confirm
           \/ \E t \in Texts : Notices!Type(t)
           \/ \E r \in Notices!Offered : Notices!ToggleRole(r)
    PROVE  SenderInv'
<1> USE DEF Notices!rows, Notices!requestVars
<1>1. ASSUME UNCHANGED <<pending, inOrder, failures, roleOf, inbox, notificationSending, chosen,
                         failed>>,
             active' \subseteq active, SenderTypes',
             typed \subseteq typed',
             form'.text = form.text \/ form'.text \notin typed
      PROVE  SenderInv'
  <2>1. Queue'
    BY <1>1 DEF SenderInv, Queue, Failed
  <2>2. SendingInv'
    <3> SUFFICES ASSUME NEW i \in DOMAIN pending
                 PROVE  Sending(i)'
      BY <1>1 DEF SenderInv, SendingInv
    <3>1. Meant(i)' = Meant(i)
      BY <1>1 DEF Meant, Notices!Everybody
    <3>2. Sending(i)
      BY DEF SenderInv, SendingInv
    <3> QED BY <1>1, <3>1, <3>2 DEF Sending, Notices!Everybody
  <2>3. TextsInv'
    <3> SUFFICES ASSUME NEW s \in Texts
                 PROVE  /\ s \notin typed' => chosen[s] = {}
                        /\ \A u \in Notices!Everybody :
                              /\ u \notin chosen[s] => inbox[u][s] = 0
                              /\ s \notin failed => inbox[u][s] <= 1
                        /\ s \notin failed /\ (\A i \in DOMAIN pending : pending[i].arg.text # s) =>
                              \/ chosen[s] = {}
                              \/ /\ form'.text # s
                                 /\ \A u \in chosen[s] \cap active' : inbox[u][s] = 1
      BY <1>1 DEF TextsInv, Notices!Everybody
    <3> QED BY <1>1 DEF SenderInv, TextsInv
  <2> QED BY <1>1, <2>1, <2>2, <2>3 DEF SenderInv
<1>2. SenderTypes /\ form = [text |-> form.text, roles |-> form.roles]
  BY DEF SenderInv, SenderTypes
<1>3. ASSUME NEW whose \in Notices!Everybody \cup {"global", None}, NEW confirming \in BOOLEAN,
             NEW draft, Notices!Dialog(whose, draft, confirming), typed' = typed,
             draft = [text |-> draft.text, roles |-> draft.roles], draft.text = form.text,
             confirming => form.text \in typed
      PROVE  SenderInv'
  <2>1. SenderTypes'
    BY <1>2, <1>3 DEF SenderTypes, Notices!Dialog, Notices!Everybody
  <2> QED BY <1>1, <1>3, <2>1 DEF Notices!Dialog
<1>4. ASSUME NEW u \in Recipients, Notices!Deactivate(u) PROVE SenderInv'
  <2>1. /\ UNCHANGED <<pending, inOrder, failures, roleOf, inbox, notificationSending, chosen,
                       failed>>
        /\ UNCHANGED <<notificationModal, form, notificationConfirm, typed>>
        /\ active' = active \ {u}
    BY <1>4 DEF Notices!Deactivate
  <2>2. SenderTypes'
    BY <1>2, <2>1 DEF SenderTypes, Notices!Everybody
  <2> QED BY <1>1, <2>1, <2>2
<1>5. CASE Notices!OpenDialog
  <2>1. PICK to \in Notices!Everybody \cup {"global"} :
           Notices!Dialog(to, form, FALSE) /\ typed' = typed
    BY <1>5 DEF Notices!OpenDialog
  <2> QED BY <1>2, <1>3, <2>1
<1>6. CASE Notices!CloseDialog
  BY <1>2, <1>3, <1>6 DEF Notices!CloseDialog
<1>7. CASE Notices!Continue
  BY <1>2, <1>3, <1>7 DEF Notices!Continue, SenderTypes
<1>8. CASE Notices!Back
  BY <1>2, <1>3, <1>8 DEF Notices!Back, SenderTypes
<1>9. ASSUME NEW t \in Texts, Notices!Type(t) PROVE SenderInv'
  <2>1. /\ UNCHANGED <<pending, inOrder, failures, roleOf, inbox, notificationSending, chosen,
                       failed, active>>
        /\ notificationModal' = notificationModal /\ notificationConfirm' = FALSE
        /\ form' = [form EXCEPT !.text = t]
        /\ typed' = typed \cup {t} /\ t \notin typed
    BY <1>9 DEF Notices!Type, Notices!Dialog
  <2>2. form' = [text |-> t, roles |-> form.roles]
    BY <1>2, <2>1
  <2>3. SenderTypes'
    BY <1>2, <2>1, <2>2 DEF SenderTypes, Notices!Everybody
  <2> QED BY <1>1, <2>1, <2>2, <2>3
<1>10. ASSUME NEW r, Notices!ToggleRole(r) PROVE SenderInv'
  <2> DEFINE roles == IF r \in form.roles THEN form.roles \ {r} ELSE form.roles \cup {r}
             draft == [text |-> form.text, roles |-> roles]
  <2>1. Notices!Dialog("global", [form EXCEPT !.roles = roles], FALSE) /\ typed' = typed
    BY <1>10 DEF Notices!ToggleRole
  <2>2. [form EXCEPT !.roles = roles] = draft
    BY <1>2
  <2>3. draft.text = form.text /\ draft.roles = roles
    OBVIOUS
  <2> HIDE DEF roles
  <2>4. Notices!Dialog("global", draft, FALSE) /\ draft = [text |-> draft.text, roles |-> draft.roles]
    BY <2>1, <2>2, <2>3
  <2> HIDE DEF draft
  <2> QED BY <1>2, <1>3, <2>1, <2>3, <2>4
<1>11. CASE Notices!Confirm
  <2> DEFINE t == form.text
             op == IF notificationModal = "global" THEN "roles" ELSE "user"
             arg == IF notificationModal = "global"
                    THEN [roles |-> Notices!RolesSent, text |-> t]
                    ELSE [to |-> notificationModal, text |-> t]
  <2>1. /\ ~notificationSending /\ notificationModal # None /\ notificationConfirm
        /\ chosen' = [chosen EXCEPT ![t] = chosen[t] \cup Notices!Chosen]
        /\ notificationSending' = TRUE
        /\ UNCHANGED <<roleOf, active, inbox, notificationModal, form, notificationConfirm, typed,
                       failed>>
    BY <1>11 DEF Notices!Confirm, Notices!ConfirmEnabled
  <2>2. Send(<<Ask(op, arg)>>)
    BY <1>11 DEF Notices!Confirm, Notices!Send, Send, Notices!Ask, Ask
  <2>3. /\ arg.text = t
        /\ notificationModal = "global" => arg.roles = Notices!RolesSent
        /\ notificationModal # "global" => arg.to = notificationModal
        /\ op = "user" <=> notificationModal # "global"
        /\ op \in {"user", "roles"}
    OBVIOUS
  <2>4. /\ t \in typed /\ t \in Texts
        /\ notificationModal \in Notices!Everybody \cup {"global"}
    BY <1>2, <2>1 DEF SenderTypes
  <2> HIDE DEF t, op, arg
  <2>5. DOMAIN pending = {} /\ Len(pending) = 0
    <3>1. DOMAIN pending = {}
      BY <2>1 DEF SenderInv, SendingInv
    <3> QED BY <3>1, QueuePlaces DEF SenderInv
  <2>6. /\ Queue' /\ DOMAIN pending' = {1}
        /\ pending'[1] = Ask(op, arg)
    BY <2>2, <2>5, AsksOne DEF SenderInv
  <2>7. /\ pending'[1].op = op /\ pending'[1].arg = arg /\ pending'[1].stage = "sent"
    BY <2>6 DEF Ask
  <2>8. /\ Notices!Chosen \subseteq Notices!Everybody
        /\ Meant(1)' = Notices!Chosen
    <3>1. CASE notificationModal = "global"
      BY <2>1, <2>3, <2>7, <3>1 DEF Meant, Notices!Chosen, Notices!Everybody
    <3>2. CASE notificationModal # "global"
      BY <2>1, <2>3, <2>4, <2>7, <3>2 DEF Meant, Notices!Chosen, Notices!Everybody
    <3> QED BY <3>1, <3>2
  <2>9. /\ \A s \in Texts \ {t} : chosen'[s] = chosen[s]
        /\ chosen'[t] = chosen[t] \cup Notices!Chosen
        /\ chosen' \in [Texts -> SUBSET Notices!Everybody]
    BY <1>2, <2>1, <2>4, <2>8 DEF SenderTypes
  <2>10. SenderTypes'
    BY <1>2, <2>1, <2>9 DEF SenderTypes, Notices!Everybody
  <2>11. t \notin failed => /\ chosen[t] = {}
                            /\ \A u \in Notices!Everybody : inbox[u][t] = 0
    <3>1. t \notin failed => chosen[t] = {}
      BY <2>4, <2>5 DEF SenderInv, TextsInv, t
    <3> QED BY <2>4, <3>1 DEF SenderInv, TextsInv
  <2>12. Sending(1)'
    <3> DEFINE meant == Notices!Chosen
    <3>1. op = "user" => arg.to \in Notices!Everybody
      BY <2>3, <2>4
    <3> HIDE DEF meant
    <3> QED BY <2>1, <2>3, <2>4, <2>7, <2>8, <2>9, <2>11, <3>1 DEF Sending, Notices!Everybody
  <2>13. SendingInv'
    BY <2>1, <2>6, <2>12 DEF SendingInv
  <2>14. TextsInv'
    <3> SUFFICES ASSUME NEW s \in Texts
                 PROVE  /\ s \notin typed => chosen'[s] = {}
                        /\ \A u \in Notices!Everybody :
                              /\ u \notin chosen'[s] => inbox[u][s] = 0
                              /\ s \notin failed => inbox[u][s] <= 1
                        /\ s \notin failed /\ s # t =>
                              \/ chosen'[s] = {}
                              \/ /\ form.text # s
                                 /\ \A u \in chosen'[s] \cap active : inbox[u][s] = 1
      BY <2>1, <2>3, <2>6, <2>7 DEF TextsInv, Notices!Everybody
    <3>1. CASE s = t
      BY <2>4, <2>9, <3>1 DEF SenderInv, TextsInv
    <3>2. CASE s # t
      BY <2>5, <2>9, <3>2 DEF SenderInv, TextsInv
    <3> QED BY <3>1, <3>2
  <2> QED BY <2>6, <2>10, <2>13, <2>14 DEF SenderInv
<1> QED BY <1>4, <1>5, <1>6, <1>7, <1>8, <1>9, <1>10, <1>11

LEMMA SenderStep == SenderInv /\ Notices!SenderNext => SenderInv'
  BY SenderServes, SenderReceives, SenderActs DEF Notices!SenderNext, Notices!SendServed

LEMMA SenderRests == SenderInv /\ UNCHANGED <<requestVars, sendings>> => SenderInv'
<1> SUFFICES ASSUME SenderInv, UNCHANGED <<requestVars, sendings>> PROVE SenderInv'
  OBVIOUS
<1>1. UNCHANGED <<pending, inOrder, failures, roleOf, active, inbox, notificationModal, form,
                  notificationConfirm, notificationSending, chosen, typed, failed>>
  BY DEF requestVars, sendings
<1>2. Queue' /\ SenderTypes'
  BY <1>1 DEF SenderInv, Queue, Failed, SenderTypes, Notices!Everybody
<1>3. ASSUME NEW i \in DOMAIN pending PROVE Sending(i) => Sending(i)'
  <2>1. Meant(i)' = Meant(i)
    BY <1>1 DEF Meant, Notices!Everybody
  <2> QED BY <1>1, <2>1 DEF Sending, Notices!Everybody
<1>4. SendingInv'
  BY <1>1, <1>3 DEF SenderInv, SendingInv
<1>5. TextsInv'
  BY <1>1 DEF SenderInv, TextsInv, Notices!Everybody
<1> QED BY <1>2, <1>4, <1>5 DEF SenderInv

LEMMA SenderPromises == SenderInv => Notices!SentAsChosen
<1> SUFFICES ASSUME SenderInv, NEW t \in Texts, NEW u \in Notices!Everybody
             PROVE  /\ u \notin chosen[t] => inbox[u][t] = 0
                    /\ t \notin failed => inbox[u][t] <= 1
                    /\ Notices!Quiet /\ t \notin failed /\ u \in chosen[t] \cap active =>
                          inbox[u][t] = 1
  BY DEF Notices!SentAsChosen
<1>1. Notices!Quiet => DOMAIN pending = {}
  BY DEF Notices!Quiet
<1> QED BY <1>1 DEF SenderInv, TextsInv

-----------------------------------------------------------------------------
(* NotificationsPage                                                        *)

Answering(i) == pending[i].op \in {"read", "answer"}

OpenCount == Bell!Cardinality(Bell!Open(status))

NotesTypes ==
    /\ status \in [Notes -> Bell!Statuses] /\ listed \in [Notes -> Bell!Statuses]
    /\ selected # None => selected.note \in Notes
    /\ \A i \in DOMAIN pending :
          /\ Answering(i) => pending[i].arg.note \in Notes
          /\ pending[i].op = "answer" => pending[i].arg.answer \in Bell!Statuses
          /\ pending[i].stage = "done" =>
                /\ pending[i].op = "list" => pending[i].reply \in [Notes -> Bell!Statuses]
                /\ pending[i].op = "read" => pending[i].reply = "READ"
                /\ pending[i].op = "answer" => pending[i].reply \in Bell!Statuses

\* Nothing is opened, let alone answered, before the list is there.
LoadingInv ==
    \A i \in DOMAIN pending : pending[i].op = "list" =>
        /\ selected = None
        /\ \A j \in DOMAIN pending : ~Answering(j) /\ (pending[j].op = "list" => i = j)

\* the row of a notification and what the page shows of it
RowAgrees(n) ==
    /\ \A i, j \in DOMAIN pending :
          /\ Answering(i) /\ pending[i].arg.note = n
          /\ Answering(j) /\ pending[j].arg.note = n
          => i = j
    /\ \A i \in DOMAIN pending :
          /\ Answering(i) /\ pending[i].arg.note = n =>
                status[n] = IF pending[i].stage = "done" THEN pending[i].reply ELSE listed[n]
          /\ pending[i].op = "list" /\ pending[i].stage = "done" => pending[i].reply[n] = status[n]
    /\ (\A i \in DOMAIN pending :
          pending[i].op # "list" /\ ~(Answering(i) /\ pending[i].arg.note = n)) =>
       listed[n] = status[n]

RowsInv == ~failures => \A n \in Notes \ (touched \cup twice) : RowAgrees(n)

\* Whoever answers will ask for the count, or it has been asked for since, or
\* it is shown.
CountInv ==
    inOrder /\ ~failures /\ touched = {} =>
        \/ \E i \in DOMAIN pending : Answering(i)
        \/ \E i \in DOMAIN pending :
              /\ Latest(i, "count")
              /\ ~Over(i) \/ pending[i].reply = OpenCount
        \/ NoneOf("count") /\ pendingCount = OpenCount

NotesInv == Queue /\ NotesTypes /\ LoadingInv /\ RowsInv /\ CountInv

LEMMA NotesStart == Bell!NotesInit => NotesInv
<1> SUFFICES ASSUME Bell!NotesInit PROVE NotesInv
  OBVIOUS
<1> DEFINE first == <<Ask("list", None), Ask("count", None)>>
<1>1. /\ Fresh(first) /\ DOMAIN first = {1, 2}
      /\ first[1].op = "list" /\ first[1].stage = "sent"
      /\ first[2].op = "count" /\ first[2].stage = "sent"
  BY TwoSent
<1>2. RequestsInit(first)
  BY DEF Bell!NotesInit, Bell!RequestsInit, RequestsInit, Bell!Ask, Ask
<1> HIDE DEF first
<1>6. Queue
  BY <1>1, <1>2, FirstQueue
<1>8. /\ DOMAIN pending = {1, 2}
      /\ pending[1].op = "list" /\ pending[1].stage = "sent"
      /\ pending[2].op = "count" /\ pending[2].stage = "sent"
      /\ failures = FALSE
  BY <1>1, <1>2 DEF RequestsInit
<1>9. NotesTypes
  BY <1>8 DEF NotesTypes, Bell!NotesInit, Bell!Statuses, Answering
<1>10. LoadingInv
  BY <1>8 DEF LoadingInv, Bell!NotesInit, Answering
<1>11. RowsInv
  BY <1>8 DEF RowsInv, RowAgrees, Answering
<1>12. CountInv
  <2>1. Latest(2, "count") /\ ~Over(2)
    BY <1>8 DEF Latest, Over
  <2> QED BY <1>8, <2>1 DEF CountInv
<1> QED BY <1>6, <1>9, <1>10, <1>11, <1>12 DEF NotesInv

\* What auth does with a request of the page.
LEMMA NotesServes ==
    ASSUME NotesInv, NEW i \in DOMAIN pending,
           \/ Bell!ListServed(i) \/ Bell!getPendingCount(i) \/ Bell!markAsRead(i)
           \/ Bell!RespondReads(i) \/ Bell!RespondWrites(i)
    PROVE  NotesInv'
<1> USE DEF Bell!noteVars, Bell!noteHistory, Bell!Waiting, Bell!Done, Bell!Fails
<1> DEFINE n == pending[i].arg.note
<1>1. \A stage, reply : Bell!Serve(i, stage, reply) => Serve(i, stage, reply)
  BY DEF Bell!Serve, Serve, Bell!Over, Over
<1>2. /\ Queue /\ NotesTypes /\ LoadingInv /\ RowsInv /\ CountInv
  BY DEF NotesInv
<1>3. ASSUME NEW stage, NEW reply, Serve(i, stage, reply),
             UNCHANGED <<listed, selected, pendingCount, touched, twice>>,
             Answering(i) \/ status' = status,
             Answering(i) => \A m \in Notes \ {n} : status'[m] = status[m],
             Answering(i) /\ stage # "failed" =>
                 status'[n] = IF stage = "done" THEN reply ELSE status[n],
             status' \in [Notes -> Bell!Statuses],
             stage = "done" =>
                 /\ pending[i].op = "list" => reply = status
                 /\ pending[i].op = "count" => reply = OpenCount
                 /\ pending[i].op = "read" => reply = "READ"
                 /\ pending[i].op = "answer" => reply \in Bell!Statuses,
             pending[i].stage \notin {"done", "failed"},
             stage = "failed" \/ stage = "done" \/ Answering(i)
      PROVE  NotesInv'
  <2>1. /\ Queue'
        /\ DOMAIN pending' = DOMAIN pending
        /\ pending'[i] = [op |-> pending[i].op, arg |-> pending[i].arg,
                          stage |-> stage, reply |-> reply]
        /\ \A j \in DOMAIN pending \ {i} : pending'[j] = pending[j]
        /\ inOrder' => inOrder
        /\ ~failures' => ~failures /\ stage # "failed"
    BY <1>2, <1>3, Serves
  <2>2. /\ pending'[i].op = pending[i].op /\ pending'[i].arg = pending[i].arg
        /\ pending'[i].stage = stage /\ pending'[i].reply = reply
    BY <2>1
  <2>3. \A j \in DOMAIN pending : /\ pending'[j].op = pending[j].op
                                  /\ pending'[j].arg = pending[j].arg
                                  /\ Answering(j)' <=> Answering(j)
    BY <2>1, <2>2 DEF Answering
  <2>4. NotesTypes'
    BY <1>2, <1>3, <2>1, <2>2, <2>3 DEF NotesTypes, Bell!Statuses
  <2>5. LoadingInv'
    BY <1>2, <1>3, <2>1, <2>3 DEF LoadingInv
  <2>6. RowsInv'
    <3> SUFFICES ASSUME ~failures', NEW m \in Notes \ (touched \cup twice)
                 PROVE  RowAgrees(m)'
      BY <1>3 DEF RowsInv
    <3>1. RowAgrees(m) /\ stage # "failed" /\ ~failures
      BY <1>2, <2>1 DEF RowsInv
    <3>2. CASE Answering(i) /\ n = m
      <4>1. \A j \in DOMAIN pending : pending[j].op # "list"
        BY <1>2, <3>2 DEF LoadingInv
      <4>2. status'[m] = IF stage = "done" THEN reply ELSE status[m]
        BY <1>2, <1>3, <3>1, <3>2 DEF NotesTypes
      <4>3. \A j \in DOMAIN pending : Answering(j) /\ pending[j].arg.note = m => j = i
        BY <3>1, <3>2 DEF RowAgrees
      <4>4. status[m] = listed[m]
        BY <1>3, <3>1, <3>2 DEF RowAgrees
      <4>5. /\ \A j \in DOMAIN pending' : pending'[j].op # "list"
            /\ \A j \in DOMAIN pending' : Answering(j)' /\ pending'[j].arg.note = m => j = i
        BY <2>1, <2>3, <4>1, <4>3
      <4>6. status'[m] = IF pending'[i].stage = "done" THEN pending'[i].reply ELSE listed'[m]
        BY <1>3, <2>2, <4>2, <4>4
      <4>7. i \in DOMAIN pending' /\ Answering(i)' /\ pending'[i].arg.note = m
        BY <2>1, <2>3, <3>2
      <4> QED BY <4>5, <4>6, <4>7 DEF RowAgrees
    <3>3. CASE ~(Answering(i) /\ n = m)
      <4>1. status'[m] = status[m]
        <5>1. CASE ~Answering(i)
          BY <1>3, <5>1
        <5>2. CASE Answering(i)
          <6>1. n \in Notes /\ m \in Notes \ {n}
            BY <1>2, <3>3, <5>2 DEF NotesTypes
          <6> QED BY <1>3, <5>2, <6>1
        <5> QED BY <5>1, <5>2
      <4>2. ASSUME NEW j \in DOMAIN pending', Answering(j)', pending'[j].arg.note = m,
                   NEW k \in DOMAIN pending', Answering(k)', pending'[k].arg.note = m
            PROVE  j = k
        <5>1. /\ Answering(j) /\ pending[j].arg.note = m
              /\ Answering(k) /\ pending[k].arg.note = m
          BY <2>1, <2>3, <4>2
        <5> QED BY <2>1, <3>1, <4>2, <5>1 DEF RowAgrees
      <4>3. ASSUME NEW j \in DOMAIN pending', Answering(j)', pending'[j].arg.note = m
            PROVE  status'[m] = IF pending'[j].stage = "done" THEN pending'[j].reply ELSE listed'[m]
        <5>1. j # i /\ Answering(j) /\ pending[j].arg.note = m /\ pending'[j] = pending[j]
          BY <2>1, <2>3, <3>3, <4>3
        <5> QED BY <1>3, <2>1, <3>1, <4>1, <5>1 DEF RowAgrees
      <4>4. ASSUME NEW j \in DOMAIN pending', pending'[j].op = "list", pending'[j].stage = "done"
            PROVE  pending'[j].reply[m] = status'[m]
        <5>1. CASE j = i
          BY <1>3, <2>2, <4>4, <5>1 DEF Answering
        <5>2. CASE j # i
          BY <2>1, <3>1, <4>1, <4>4, <5>2 DEF RowAgrees
        <5> QED BY <5>1, <5>2
      <4>5. (\A j \in DOMAIN pending' :
                pending'[j].op # "list" /\ ~(Answering(j)' /\ pending'[j].arg.note = m)) =>
            listed'[m] = status'[m]
        BY <1>3, <2>1, <2>3, <3>1, <4>1 DEF RowAgrees
      <4> QED BY <4>2, <4>3, <4>4, <4>5 DEF RowAgrees
    <3> QED BY <3>2, <3>3
  <2>7. CountInv'
    <3> SUFFICES ASSUME inOrder', ~failures', touched = {}
                 PROVE  CountInv'
      BY <1>3 DEF CountInv
    <3>1. CASE \E j \in DOMAIN pending : Answering(j)
      BY <2>1, <2>3, <3>1 DEF CountInv
    <3>2. CASE ~\E j \in DOMAIN pending : Answering(j)
      <4>1. OpenCount' = OpenCount
        <5>1. status' = status
          BY <1>3, <3>2
        <5> QED BY <5>1 DEF OpenCount, Bell!Open, Bell!Cardinality
      <4>2. ASSUME NEW k \in DOMAIN pending, Latest(k, "count"),
                   ~Over(k) \/ pending[k].reply = OpenCount
            PROVE  CountInv'
        <5>1. Latest(k, "count")'
          BY <2>1, <2>3, <4>2 DEF Latest
        <5>2. ~Over(k)' \/ pending'[k].reply = OpenCount'
          BY <1>3, <2>1, <2>2, <4>1, <4>2 DEF Over, Latest
        <5> QED BY <2>1, <5>1, <5>2 DEF CountInv
      <4>3. CASE NoneOf("count") /\ pendingCount = OpenCount
        BY <1>3, <2>1, <2>3, <4>1, <4>3 DEF CountInv, NoneOf
      <4> QED BY <1>2, <2>1, <3>2, <4>2, <4>3 DEF CountInv
    <3> QED BY <3>1, <3>2
  <2> QED BY <2>1, <2>4, <2>5, <2>6, <2>7 DEF NotesInv
<1>4. ASSUME Serve(i, "failed", None), UNCHANGED <<listed, selected, pendingCount, touched, twice>>,
             status' = status, pending[i].stage \notin {"done", "failed"}
      PROVE  NotesInv'
  BY <1>2, <1>3, <1>4 DEF NotesTypes
<1>5. CASE Bell!ListServed(i) \/ Bell!getPendingCount(i)
  <2>1. /\ UNCHANGED <<status, listed, selected, pendingCount, touched, twice>>
        /\ pending[i].op \in {"list", "count"} /\ pending[i].stage = "sent"
    BY <1>5 DEF Bell!ListServed, Bell!getPendingCount
  <2>2. CASE Serve(i, "done", status) /\ pending[i].op = "list"
    BY <1>2, <1>3, <2>1, <2>2 DEF NotesTypes, Answering
  <2>3. CASE Serve(i, "done", OpenCount) /\ pending[i].op = "count"
    BY <1>2, <1>3, <2>1, <2>3 DEF NotesTypes, Answering
  <2> QED BY <1>1, <1>4, <1>5, <2>1, <2>2, <2>3
          DEF Bell!ListServed, Bell!getPendingCount, OpenCount
<1>6. CASE Bell!markAsRead(i)
  <2>1. /\ UNCHANGED <<listed, selected, pendingCount, touched, twice>>
        /\ pending[i].op = "read" /\ pending[i].stage = "sent" /\ Answering(i)
    BY <1>6 DEF Bell!markAsRead, Answering
  <2>2. /\ n \in Notes /\ status \in [Notes -> Bell!Statuses] /\ "READ" \in Bell!Statuses
    BY <1>2, <2>1 DEF NotesTypes, Bell!Statuses
  <2>3. CASE Serve(i, "done", "READ") /\ status' = [status EXCEPT ![n] = "READ"]
    BY <1>3, <2>1, <2>2, <2>3
  <2>4. CASE Serve(i, "failed", None) /\ status' = [status EXCEPT ![n] = "READ"]
    BY <1>3, <2>1, <2>2, <2>4
  <2>5. CASE Serve(i, "done", "READ") /\ status[n] = "READ" /\ status' = status
    BY <1>3, <2>1, <2>2, <2>5
  <2>6. CASE Serve(i, "failed", None) /\ status' = status
    BY <1>4, <2>1, <2>6
  <2> QED BY <1>1, <1>6, <2>3, <2>4, <2>5, <2>6 DEF Bell!markAsRead, Bell!Write
<1>7. CASE Bell!RespondReads(i)
  <2>1. /\ UNCHANGED <<status, listed, selected, pendingCount, touched, twice>>
        /\ pending[i].op = "answer" /\ pending[i].stage = "sent" /\ Answering(i)
    BY <1>7 DEF Bell!RespondReads, Answering
  <2>2. CASE Serve(i, "checked", None)
    BY <1>2, <1>3, <2>1, <2>2 DEF NotesTypes
  <2> QED BY <1>1, <1>4, <1>7, <2>1, <2>2 DEF Bell!RespondReads
<1>8. CASE Bell!RespondWrites(i)
  <2> DEFINE answer == pending[i].arg.answer
  <2>1. /\ UNCHANGED <<listed, selected, pendingCount, touched, twice>>
        /\ pending[i].op = "answer" /\ pending[i].stage = "checked" /\ Answering(i)
        /\ status' = [status EXCEPT ![n] = answer]
        /\ Serve(i, "done", answer) \/ Serve(i, "failed", None)
    BY <1>1, <1>8 DEF Bell!RespondWrites, Bell!Write, Answering
  <2>2. /\ n \in Notes /\ status \in [Notes -> Bell!Statuses] /\ answer \in Bell!Statuses
    BY <1>2, <2>1 DEF NotesTypes
  <2> HIDE DEF answer
  <2>3. CASE Serve(i, "done", answer)
    BY <1>3, <2>1, <2>2, <2>3
  <2>4. CASE Serve(i, "failed", None)
    BY <1>3, <2>1, <2>2, <2>4
  <2> QED BY <2>1, <2>3, <2>4
<1> QED BY <1>5, <1>6, <1>7, <1>8

\* An answer reaches the page.
LEMMA NotesReceive ==
    ASSUME NotesInv, NEW i \in DOMAIN pending,
           \/ Bell!ListArrives(i) \/ Bell!CountArrives(i)
           \/ Bell!ReadArrives(i) \/ Bell!AnswerArrives(i)
    PROVE  NotesInv'
<1> USE DEF Bell!noteHistory
<1> DEFINE n == pending[i].arg.note
<1>1. /\ Queue /\ NotesTypes /\ LoadingInv /\ RowsInv /\ CountInv
  BY DEF NotesInv
<1>2. PICK more \in {<<>>, <<Ask("count", None)>>} :
         /\ Receive(i, more)
         /\ Answering(i) /\ ~Failed(i) => more = <<Ask("count", None)>>
  <2>1. \A more : Bell!Receive(i, more) => Receive(i, more)
    BY DEF Bell!Receive, Receive, Bell!Over, Over, Bell!Without, Without
  <2> QED BY <2>1, OneSent DEF Bell!ListArrives, Bell!CountArrives, Bell!ReadArrives,
              Bell!AnswerArrives, Bell!AfterAnswer, Bell!Ask, Ask, Bell!Failed, Failed, Answering
<1>3. Fresh(more) /\ \A m \in DOMAIN more : more[m].op = "count" /\ more[m].stage = "sent"
  BY <1>2, NoneSent, OneSent DEF Fresh
<1>4. /\ Queue'
      /\ inOrder' => inOrder /\ i = 1
      /\ failures' = failures
      /\ Over(i)
  BY <1>1, <1>2, <1>3, Receives DEF Receive
<1>5. /\ \A k \in DOMAIN pending \ {i} : \E j \in DOMAIN pending' : pending'[j] = pending[k]
      /\ \A j \in DOMAIN pending' :
            \/ \E m \in DOMAIN more : pending'[j] = more[m]
            \/ /\ j \in 1..(Len(pending) - 1)
               /\ Before(i, j) \in DOMAIN pending \ {i} /\ pending'[j] = pending[Before(i, j)]
      /\ \A j, k \in 1..(Len(pending) - 1) : Before(i, j) = Before(i, k) => j = k
  <2>1. Queue /\ Fresh(more) /\ Receive(i, more)
    BY <1>1, <1>2, <1>3
  <2> QED BY <2>1, Remains
<1>6. \A j \in DOMAIN pending' : pending'[j].op # "count" =>
         /\ j \in 1..(Len(pending) - 1)
         /\ Before(i, j) \in DOMAIN pending \ {i} /\ pending'[j] = pending[Before(i, j)]
  BY <1>3, <1>5
<1>7. /\ UNCHANGED <<status, touched, twice>>
      /\ selected' = selected \/ selected' = None
      /\ listed' = IF pending[i].op = "list"
                   THEN IF Failed(i) THEN [m \in Notes |-> "ABSENT"] ELSE pending[i].reply
                   ELSE IF pending[i].op = "read" /\ ~Failed(i)
                   THEN [listed EXCEPT ![n] = "READ"]
                   ELSE IF pending[i].op = "answer" /\ ~Failed(i)
                   THEN [listed EXCEPT ![n] = pending[i].reply]
                   ELSE listed
      /\ pendingCount' = IF pending[i].op = "count"
                         THEN IF Failed(i) THEN 0 ELSE pending[i].reply
                         ELSE pendingCount
      /\ pending[i].op \in {"list", "count", "read", "answer"}
  BY DEF Bell!ListArrives, Bell!CountArrives, Bell!ReadArrives, Bell!AnswerArrives,
         Bell!Failed, Failed
<1>8. ~Failed(i) => pending[i].stage = "done"
  BY <1>4 DEF Over, Failed
<1>9. NotesTypes'
  <2>1. listed' \in [Notes -> Bell!Statuses]
    <3>1. "READ" \in Bell!Statuses /\ "ABSENT" \in Bell!Statuses
      BY DEF Bell!Statuses
    <3>2. CASE Failed(i)
      BY <1>1, <1>7, <3>1, <3>2 DEF NotesTypes
    <3>3. CASE ~Failed(i)
      BY <1>1, <1>7, <1>8, <3>1, <3>3 DEF NotesTypes, Answering
    <3> QED BY <3>2, <3>3
  <2>2. ASSUME NEW j \in DOMAIN pending'
        PROVE  /\ Answering(j)' => pending'[j].arg.note \in Notes
               /\ pending'[j].op = "answer" => pending'[j].arg.answer \in Bell!Statuses
               /\ pending'[j].stage = "done" =>
                     /\ pending'[j].op = "list" => pending'[j].reply \in [Notes -> Bell!Statuses]
                     /\ pending'[j].op = "read" => pending'[j].reply = "READ"
                     /\ pending'[j].op = "answer" => pending'[j].reply \in Bell!Statuses
    <3>1. CASE pending'[j].op = "count"
      BY <3>1 DEF Answering
    <3>2. CASE pending'[j].op # "count"
      <4>1. PICK k \in DOMAIN pending : pending'[j] = pending[k]
        BY <1>6, <3>2
      <4> QED BY <1>1, <4>1 DEF NotesTypes, Answering
    <3> QED BY <3>1, <3>2
  <2> QED BY <1>1, <1>7, <2>1, <2>2 DEF NotesTypes, Bell!Statuses
<1>10. LoadingInv'
  <2> SUFFICES ASSUME NEW j \in DOMAIN pending', pending'[j].op = "list"
               PROVE  /\ selected' = None
                      /\ \A k \in DOMAIN pending' :
                            ~Answering(k)' /\ (pending'[k].op = "list" => j = k)
    BY DEF LoadingInv
  <2>1. Before(i, j) \in DOMAIN pending /\ pending[Before(i, j)].op = "list"
    BY <1>6
  <2>2. selected' = None
    BY <1>1, <1>7, <2>1 DEF LoadingInv
  <2>3. ASSUME NEW k \in DOMAIN pending', pending'[k].op # "count"
        PROVE  ~Answering(k)' /\ (pending'[k].op = "list" => j = k)
    <3>1. /\ Before(i, k) \in DOMAIN pending /\ pending'[k] = pending[Before(i, k)]
          /\ Before(i, j) = Before(i, k) => j = k
      BY <1>5, <1>6, <2>3
    <3> QED BY <1>1, <2>1, <3>1 DEF LoadingInv, Answering
  <2> QED BY <2>2, <2>3 DEF Answering
<1>11. RowsInv'
  <2> SUFFICES ASSUME ~failures, NEW m \in Notes \ (touched \cup twice)
               PROVE  RowAgrees(m)'
    BY <1>4, <1>7 DEF RowsInv
  <2>1. RowAgrees(m) /\ ~Failed(i) /\ pending[i].stage = "done"
    BY <1>1, <1>8 DEF RowsInv, Queue
  <2>2. ASSUME NEW j \in DOMAIN pending', Answering(j)', pending'[j].arg.note = m,
               NEW k \in DOMAIN pending', Answering(k)', pending'[k].arg.note = m
        PROVE  j = k
    <3>1. /\ Before(i, j) \in DOMAIN pending /\ pending'[j] = pending[Before(i, j)]
          /\ Before(i, k) \in DOMAIN pending /\ pending'[k] = pending[Before(i, k)]
          /\ Before(i, j) = Before(i, k) => j = k
      BY <1>5, <1>6, <2>2 DEF Answering
    <3> QED BY <2>1, <2>2, <3>1 DEF RowAgrees, Answering
  <2>3. CASE pending[i].op = "list"
    <3>1. listed'[m] = status'[m]
      BY <1>7, <2>1, <2>3 DEF RowAgrees
    <3>2. ASSUME NEW j \in DOMAIN pending' PROVE ~Answering(j)' /\ pending'[j].op # "list"
      BY <1>1, <1>6, <2>3 DEF LoadingInv, Answering
    <3> QED BY <2>2, <3>1, <3>2 DEF RowAgrees
  <2>4. CASE Answering(i) /\ n = m
    <3>1. listed'[m] = status'[m]
      BY <1>1, <1>7, <2>1, <2>4 DEF RowAgrees, Answering, NotesTypes
    <3>2. ASSUME NEW j \in DOMAIN pending' PROVE ~(Answering(j)' /\ pending'[j].arg.note = m)
      BY <1>6, <2>1, <2>4 DEF RowAgrees, Answering
    <3>3. ASSUME NEW j \in DOMAIN pending' PROVE pending'[j].op # "list"
      BY <1>1, <1>6, <2>4 DEF LoadingInv
    <3> QED BY <3>1, <3>2, <3>3 DEF RowAgrees
  <2>5. CASE pending[i].op # "list" /\ ~(Answering(i) /\ n = m)
    <3>1. listed'[m] = listed[m] /\ status'[m] = status[m]
      BY <1>1, <1>7, <2>5 DEF Answering, NotesTypes
    <3>2. ASSUME NEW j \in DOMAIN pending', Answering(j)', pending'[j].arg.note = m
          PROVE  status'[m] = IF pending'[j].stage = "done" THEN pending'[j].reply ELSE listed'[m]
      BY <1>6, <2>1, <3>1, <3>2 DEF RowAgrees, Answering
    <3>3. ASSUME NEW j \in DOMAIN pending', pending'[j].op = "list", pending'[j].stage = "done"
          PROVE  pending'[j].reply[m] = status'[m]
      BY <1>6, <2>1, <3>1, <3>3 DEF RowAgrees
    <3>4. ASSUME \A j \in DOMAIN pending' :
                    pending'[j].op # "list" /\ ~(Answering(j)' /\ pending'[j].arg.note = m)
          PROVE  listed'[m] = status'[m]
      <4>1. ASSUME NEW k \in DOMAIN pending
            PROVE  pending[k].op # "list" /\ ~(Answering(k) /\ pending[k].arg.note = m)
        <5>1. CASE k = i
          BY <2>5, <5>1
        <5>2. CASE k # i
          <6>1. PICK j \in DOMAIN pending' : pending'[j] = pending[k]
            BY <1>5, <5>2
          <6>2. pending'[j].op # "list" /\ ~(Answering(j)' /\ pending'[j].arg.note = m)
            BY <3>4
          <6> QED BY <6>1, <6>2 DEF Answering
        <5> QED BY <5>1, <5>2
      <4> QED BY <2>1, <3>1, <4>1 DEF RowAgrees
    <3> QED BY <2>2, <3>2, <3>3, <3>4 DEF RowAgrees
  <2> QED BY <2>3, <2>4, <2>5
<1>12. CountInv'
  <2> SUFFICES ASSUME inOrder', ~failures', touched' = {} PROVE CountInv'
    BY DEF CountInv
  <2>1. /\ inOrder /\ ~failures /\ i = 1 /\ ~Failed(i) /\ touched = {}
        /\ OpenCount' = OpenCount
    BY <1>1, <1>4, <1>7 DEF Queue, OpenCount, Bell!Open, Bell!Cardinality
  <2>2. CASE Answering(i)
    <3>1. PICK k \in DOMAIN pending' : Latest(k, "count")' /\ pending'[k] = Ask("count", None)
      BY <1>1, <1>2, <2>1, <2>2, LatestAsked
    <3>2. ~Over(k)'
      BY <3>1 DEF Over, Ask
    <3> QED BY <3>1, <3>2 DEF CountInv
  <2>3. CASE more = <<Ask("count", None)>>
    <3>1. PICK k \in DOMAIN pending' : Latest(k, "count")' /\ pending'[k] = Ask("count", None)
      BY <1>1, <1>2, <2>3, LatestAsked
    <3>2. ~Over(k)'
      BY <3>1 DEF Over, Ask
    <3> QED BY <3>1, <3>2 DEF CountInv
  <2>4. CASE more = <<>> /\ ~Answering(i)
    <3>1. \A m \in DOMAIN more : more[m].op # "count"
      BY <2>4
    <3>2. ASSUME NEW k \in DOMAIN pending, Answering(k) PROVE CountInv'
      <4>1. PICK j \in DOMAIN pending' : pending'[j] = pending[k]
        BY <1>5, <2>4, <3>2
      <4> QED BY <3>2, <4>1 DEF CountInv, Answering
    <3>3. ASSUME NEW k \in DOMAIN pending, Latest(k, "count"),
                 ~Over(k) \/ pending[k].reply = OpenCount
          PROVE  CountInv'
      <4>1. CASE k = i
        <5>1. NoneOf("count")'
          BY <1>1, <1>2, <1>3, <2>1, <3>1, <3>3, <4>1, LatestWhenReceived
        <5> QED BY <1>4, <1>7, <2>1, <3>3, <4>1, <5>1 DEF CountInv, Latest
      <4>2. CASE k # i
        <5>1. /\ k - 1 \in DOMAIN pending' /\ Latest(k - 1, "count")'
              /\ pending'[k - 1] = pending[k]
          BY <1>1, <1>2, <1>3, <2>1, <3>1, <3>3, <4>2, LatestWhenReceived
        <5>2. ~Over(k - 1)' \/ pending'[k - 1].reply = OpenCount'
          BY <2>1, <3>3, <5>1 DEF Over
        <5> QED BY <5>1, <5>2 DEF CountInv
      <4> QED BY <4>1, <4>2
    <3>4. CASE NoneOf("count") /\ pendingCount = OpenCount
      <4>1. NoneOf("count")'
        BY <1>1, <1>2, <1>3, <2>1, <3>1, <3>4, LatestWhenReceived
      <4>2. pendingCount' = pendingCount
        BY <1>7, <3>4 DEF NoneOf
      <4> QED BY <2>1, <3>4, <4>1, <4>2 DEF CountInv
    <3> QED BY <1>1, <2>1, <3>2, <3>3, <3>4 DEF CountInv
  <2> QED BY <1>2, <2>2, <2>3, <2>4
<1> QED BY <1>4, <1>9, <1>10, <1>11, <1>12 DEF NotesInv

\* The user opens, closes and answers; others write rows.
LEMMA NotesActs ==
    ASSUME NotesInv,
           \/ \E n \in Notes : Bell!Arrive(n) \/ Bell!CancelledByOwner(n) \/ Bell!Select(n)
           \/ Bell!handleCloseModal
           \/ \E answer \in {"ACCEPTED", "REJECTED"} : Bell!Answer(answer)
    PROVE  NotesInv'
<1> USE DEF Bell!noteHistory
<1>1. /\ Queue /\ NotesTypes /\ LoadingInv /\ RowsInv /\ CountInv
  BY DEF NotesInv
<1>2. ASSUME UNCHANGED <<pending, inOrder, failures, listed, pendingCount, twice>>,
             selected' = selected \/ (\A i \in DOMAIN pending : pending[i].op # "list"),
             selected' # None => selected'.note \in Notes,
             \/ UNCHANGED <<status, touched>>
             \/ \E n \in Notes : \E s \in Bell!Statuses :
                   /\ status' = [status EXCEPT ![n] = s]
                   /\ touched' = touched \cup {n}
      PROVE  NotesInv'
  <2>1. Queue'
    BY <1>1, <1>2 DEF Queue, Failed
  <2>2. NotesTypes'
    BY <1>1, <1>2 DEF NotesTypes, Answering, Bell!Statuses
  <2>3. LoadingInv'
    BY <1>1, <1>2 DEF LoadingInv, Answering
  <2>4. /\ \A m \in Notes \ touched' : m \notin touched /\ status'[m] = status[m]
        /\ touched' = {} => touched = {} /\ status' = status
    BY <1>1, <1>2 DEF NotesTypes
  <2>5. RowsInv'
    <3> SUFFICES ASSUME ~failures, NEW m \in Notes, m \notin touched', m \notin twice
                 PROVE  RowAgrees(m)'
      BY <1>2 DEF RowsInv
    <3>1. RowAgrees(m)
      BY <1>1, <2>4 DEF RowsInv
    <3> QED BY <1>2, <2>4, <3>1 DEF RowAgrees, Answering
  <2>6. CountInv'
    <3> SUFFICES ASSUME touched' = {} PROVE CountInv'
      BY DEF CountInv
    <3>1. OpenCount' = OpenCount /\ touched = {}
      BY <2>4 DEF OpenCount, Bell!Open, Bell!Cardinality
    <3> QED BY <1>1, <1>2, <3>1 DEF CountInv, Answering, Latest, NoneOf, Over
  <2> QED BY <2>1, <2>2, <2>3, <2>5, <2>6 DEF NotesInv
<1>3. ASSUME NEW n \in Notes, Bell!Arrive(n) \/ Bell!CancelledByOwner(n) PROVE NotesInv'
  <2>1. "PENDING" \in Bell!Statuses /\ "CANCELLED" \in Bell!Statuses
    BY DEF Bell!Statuses
  <2>2. /\ UNCHANGED <<pending, inOrder, failures, listed, pendingCount, twice, selected>>
        /\ \E s \in Bell!Statuses : status' = [status EXCEPT ![n] = s]
        /\ touched' = touched \cup {n}
    BY <1>3, <2>1 DEF Bell!Arrive, Bell!CancelledByOwner, Bell!Write
  <2>3. selected' # None => selected'.note \in Notes
    BY <1>1, <2>2 DEF NotesTypes
  <2> QED BY <1>2, <2>2, <2>3
<1>4. ASSUME NEW n \in Notes, Bell!Select(n) PROVE NotesInv'
  <2>1. /\ UNCHANGED <<pending, inOrder, failures, listed, pendingCount, twice, status, touched>>
        /\ selected' = [note |-> n, status |-> listed[n]]
        /\ \A i \in DOMAIN pending : pending[i].op # "list"
    BY <1>4 DEF Bell!Select, Bell!isLoading, Bell!AskedFor
  <2> QED BY <1>2, <2>1
\* a request about the notification that is open
<1>5. ASSUME NEW op \in {"read", "answer"}, NEW arg, Bell!AskAbout(op, arg),
             selected # None, arg.note = selected.note,
             op = "answer" => arg.answer \in Bell!Statuses,
             UNCHANGED <<status, listed, pendingCount, touched>>,
             selected' = selected \/ selected' = None
      PROVE  NotesInv'
  <2> DEFINE n == arg.note
  <2>1. /\ Send(<<Ask(op, arg)>>)
        /\ twice' = IF Bell!About(n) = {} THEN twice ELSE twice \cup {n}
    BY <1>5 DEF Bell!AskAbout, Bell!Send, Send, Bell!Ask, Ask
  <2>2. PICK last :
        /\ Queue'
        /\ last \in DOMAIN pending' \ DOMAIN pending
        /\ pending'[last] = Ask(op, arg)
        /\ \A j \in DOMAIN pending : j \in DOMAIN pending' /\ pending'[j] = pending[j]
        /\ \A j \in DOMAIN pending' : j \in DOMAIN pending \/ j = last
        /\ inOrder' = inOrder /\ failures' = failures
    BY <1>1, <2>1, SentOne
  <2>3. /\ pending'[last].op = op /\ pending'[last].arg = arg /\ pending'[last].stage = "sent"
        /\ Answering(last)'
    BY <2>2 DEF Ask, Answering
  <2>4. /\ \A j \in DOMAIN pending : pending[j].op # "list"
        /\ n \in Notes
    BY <1>1, <1>5 DEF LoadingInv, NotesTypes
  <2>5. NotesTypes'
    <3>1. ASSUME NEW j \in DOMAIN pending'
          PROVE  /\ Answering(j)' => pending'[j].arg.note \in Notes
                 /\ pending'[j].op = "answer" => pending'[j].arg.answer \in Bell!Statuses
                 /\ pending'[j].stage = "done" =>
                       /\ pending'[j].op = "list" => pending'[j].reply \in [Notes -> Bell!Statuses]
                       /\ pending'[j].op = "read" => pending'[j].reply = "READ"
                       /\ pending'[j].op = "answer" => pending'[j].reply \in Bell!Statuses
      <4>1. CASE j = last
        BY <1>5, <2>3, <2>4, <4>1
      <4>2. CASE j \in DOMAIN pending
        BY <1>1, <2>2, <4>2 DEF NotesTypes, Answering
      <4> QED BY <2>2, <4>1, <4>2
    <3> QED BY <1>1, <1>5, <3>1 DEF NotesTypes, Bell!Statuses
  <2>6. \A j \in DOMAIN pending' : pending'[j].op # "list"
    BY <2>2, <2>3, <2>4
  <2>7. LoadingInv'
    BY <2>6 DEF LoadingInv
  <2>8. RowsInv'
    <3> SUFFICES ASSUME ~failures, NEW m \in Notes, m \notin touched, m \notin twice'
                 PROVE  RowAgrees(m)'
      BY <1>5, <2>2 DEF RowsInv
    <3>1. RowAgrees(m) /\ (m = n => Bell!About(n) = {})
      BY <1>1, <2>1 DEF RowsInv
    <3>2. ASSUME m = n, NEW j \in DOMAIN pending PROVE ~(Answering(j) /\ pending[j].arg.note = m)
      <4>1. j \notin Bell!About(n)
        BY <3>1, <3>2
      <4> QED BY <3>2, <4>1 DEF Bell!About, Answering
    <3>3. ASSUME NEW j \in DOMAIN pending', Answering(j)', pending'[j].arg.note = m,
                 NEW k \in DOMAIN pending', Answering(k)', pending'[k].arg.note = m
          PROVE  j = k
      BY <2>2, <2>3, <3>1, <3>2, <3>3 DEF RowAgrees, Answering
    <3>4. m = n => listed[m] = status[m]
      BY <2>4, <3>1, <3>2 DEF RowAgrees
    <3>5. ASSUME NEW j \in DOMAIN pending', Answering(j)', pending'[j].arg.note = m
          PROVE  status'[m] = IF pending'[j].stage = "done" THEN pending'[j].reply ELSE listed'[m]
      <4>1. CASE j = last
        BY <1>5, <2>3, <3>4, <3>5, <4>1
      <4>2. CASE j \in DOMAIN pending
        BY <1>5, <2>2, <3>1, <3>5, <4>2 DEF RowAgrees, Answering
      <4> QED BY <2>2, <4>1, <4>2
    <3>6. ASSUME \A j \in DOMAIN pending' :
                    pending'[j].op # "list" /\ ~(Answering(j)' /\ pending'[j].arg.note = m)
          PROVE  listed'[m] = status'[m]
      <4>1. ASSUME NEW j \in DOMAIN pending
            PROVE  pending[j].op # "list" /\ ~(Answering(j) /\ pending[j].arg.note = m)
        BY <2>2, <2>4, <3>6 DEF Answering
      <4> QED BY <1>5, <3>1, <4>1 DEF RowAgrees
    <3> QED BY <2>6, <3>3, <3>5, <3>6 DEF RowAgrees
  <2>9. CountInv'
    BY <2>2, <2>3 DEF CountInv
  <2> QED BY <2>2, <2>5, <2>7, <2>8, <2>9 DEF NotesInv
<1>6. CASE Bell!handleCloseModal
  <2>1. /\ selected # None /\ selected' = None
        /\ UNCHANGED <<status, listed, pendingCount, touched>>
    BY <1>6 DEF Bell!handleCloseModal
  <2>2. CASE Bell!AskAbout("read", [note |-> selected.note])
    BY <1>5, <2>1, <2>2
  <2>3. CASE UNCHANGED <<pending, inOrder, failures, twice>>
    BY <1>1, <1>2, <2>1, <2>3 DEF LoadingInv
  <2> QED BY <1>6, <2>2, <2>3 DEF Bell!handleCloseModal
<1>7. ASSUME NEW answer \in {"ACCEPTED", "REJECTED"}, Bell!Answer(answer) PROVE NotesInv'
  <2>1. answer \in Bell!Statuses
    BY DEF Bell!Statuses
  <2>2. /\ selected # None /\ selected' = selected
        /\ UNCHANGED <<status, listed, pendingCount, touched>>
        /\ Bell!AskAbout("answer", [note |-> selected.note, answer |-> answer])
    BY <1>7 DEF Bell!Answer
  <2> QED BY <1>5, <2>1, <2>2
<1> QED BY <1>3, <1>4, <1>6, <1>7

LEMMA NotesStep == NotesInv /\ Bell!NotesNext => NotesInv'
  BY NotesServes, NotesReceive, NotesActs DEF Bell!NotesNext, Bell!NotesServed, Bell!NotesArrive

LEMMA NotesRest == NotesInv /\ UNCHANGED <<requestVars, notes>> => NotesInv'
<1> SUFFICES ASSUME NotesInv, UNCHANGED <<requestVars, notes>> PROVE NotesInv'
  OBVIOUS
<1>1. UNCHANGED <<pending, inOrder, failures, status, listed, selected, pendingCount, touched, twice>>
  BY DEF requestVars, notes
<1>2. Queue' /\ NotesTypes' /\ LoadingInv'
  BY <1>1 DEF NotesInv, Queue, Failed, NotesTypes, LoadingInv, Answering, Bell!Statuses
<1>3. RowsInv'
  BY <1>1 DEF NotesInv, RowsInv, RowAgrees, Answering
<1>4. OpenCount' = OpenCount
  BY <1>1 DEF OpenCount, Bell!Open, Bell!Cardinality
<1>5. CountInv'
  BY <1>1, <1>4 DEF NotesInv, CountInv, Answering, Latest, NoneOf, Over
<1> QED BY <1>2, <1>3, <1>5 DEF NotesInv

LEMMA NotesPromises == NotesInv => Bell!NotesAgree /\ Bell!BellAgrees
<1>1. Bell!Quiet => DOMAIN pending = {}
  BY DEF Bell!Quiet
<1>2. NotesInv => Bell!NotesAgree
  BY <1>1 DEF NotesInv, RowsInv, RowAgrees, Bell!NotesAgree
<1>3. NotesInv => Bell!BellAgrees
  BY <1>1 DEF NotesInv, CountInv, OpenCount, Bell!BellAgrees
<1> QED BY <1>2, <1>3

-----------------------------------------------------------------------------
(* UsersPage                                                                *)

\* the requests that end in a new list
Listing(i) == pending[i].op \in {"act", "getUsers"}

\* One of them is under way at a time; until an action has been taken the list
\* is right, and a list that has been read is.
AccountsInv ==
    /\ \A i, j \in DOMAIN pending : Listing(i) /\ Listing(j) => i = j
    /\ \A i \in DOMAIN pending :
          Listing(i) => IF pending[i].op = "act" \/ pending[i].arg = "action"
                        THEN actionLoading = TRUE ELSE dialog = None
    /\ ~failures /\ ~elsewhere =>
          /\ \A i \in DOMAIN pending :
                /\ pending[i].op = "act" /\ ~Over(i) => users = account
                /\ pending[i].op = "getUsers" /\ Over(i) => pending[i].reply = account
          /\ (\A i \in DOMAIN pending : ~Listing(i)) => users = account

PanelInv ==
    inOrder /\ ~failures /\ selectedUserInfo # None =>
        \/ \E i \in DOMAIN pending : Latest(i, "ecosystems") /\ pending[i].arg = selectedUserInfo
        \/ NoneOf("ecosystems") /\ ecosystemsOf = selectedUserInfo

UsersInv == Queue /\ elsewhere \in BOOLEAN /\ AccountsInv /\ PanelInv

LEMMA UsersStart == Accounts!UsersInit => UsersInv
<1> SUFFICES ASSUME Accounts!UsersInit PROVE UsersInv
  OBVIOUS
<1> DEFINE first == <<Ask("getUsers", None)>>
<1>1. /\ Fresh(first) /\ DOMAIN first = {1}
      /\ first[1].op = "getUsers" /\ first[1].stage = "sent"
  BY OneSent
<1>2. RequestsInit(first)
  BY DEF Accounts!UsersInit, Accounts!RequestsInit, RequestsInit, Accounts!Ask, Ask
<1> HIDE DEF first
<1>3. Queue
  BY <1>1, <1>2, FirstQueue
<1>4. /\ DOMAIN pending = {1} /\ pending[1].op = "getUsers" /\ pending[1].stage = "sent"
      /\ pending[1].arg # "action" \/ pending[1].arg = "action"
  BY <1>1, <1>2 DEF RequestsInit
<1>5. pending[1].arg = None
  BY <1>2, OneSent DEF RequestsInit, first
<1>6. /\ dialog = None /\ selectedUserInfo = None /\ elsewhere = FALSE
  BY DEF Accounts!UsersInit
<1>7. AccountsInv
  BY <1>4, <1>5, <1>6, NullAssumption DEF AccountsInv, Listing, Over
<1>8. PanelInv
  BY <1>6 DEF PanelInv
<1> QED BY <1>3, <1>6, <1>7, <1>8 DEF UsersInv

\* What auth does with a request of the page.
LEMMA UsersServes ==
    ASSUME UsersInv, NEW i \in DOMAIN pending,
           Accounts!UsersServed(i) \/ Accounts!ActionServed(i)
    PROVE  UsersInv'
<1> USE DEF Accounts!panel, Accounts!usersVars, Accounts!Waiting, Accounts!Done, Accounts!Fails
<1>1. \A stage, reply : Accounts!Serve(i, stage, reply) => Serve(i, stage, reply)
  BY DEF Accounts!Serve, Serve, Accounts!Over, Over
<1>2. Queue /\ AccountsInv /\ PanelInv
  BY DEF UsersInv
<1>3. ASSUME NEW stage \in {"done", "failed"}, NEW reply, Serve(i, stage, reply),
             UNCHANGED <<users, actionLoading, dialog, selectedUserInfo, ecosystemsOf, elsewhere>>,
             pending[i].op = "act" \/ account' = account,
             stage = "done" /\ pending[i].op = "getUsers" => reply = account
      PROVE  UsersInv'
  <2>1. /\ Queue'
        /\ DOMAIN pending' = DOMAIN pending
        /\ pending'[i] = [op |-> pending[i].op, arg |-> pending[i].arg,
                          stage |-> stage, reply |-> reply]
        /\ \A j \in DOMAIN pending \ {i} : pending'[j] = pending[j]
        /\ inOrder' => inOrder
        /\ ~failures' => ~failures /\ stage # "failed"
    BY <1>2, <1>3, Serves
  <2>2. /\ pending'[i].stage = stage /\ pending'[i].reply = reply
        /\ \A j \in DOMAIN pending : /\ pending'[j].op = pending[j].op
                                     /\ pending'[j].arg = pending[j].arg
    BY <2>1
  <2>3. AccountsInv'
    <3>1. /\ \A j, k \in DOMAIN pending' : Listing(j)' /\ Listing(k)' => j = k
          /\ \A j \in DOMAIN pending' :
                Listing(j)' => IF pending'[j].op = "act" \/ pending'[j].arg = "action"
                               THEN actionLoading' = TRUE ELSE dialog' = None
      BY <1>2, <1>3, <2>1, <2>2 DEF AccountsInv, Listing
    <3>2. ASSUME ~failures', ~elsewhere
          PROVE  /\ \A j \in DOMAIN pending' :
                       /\ pending'[j].op = "act" /\ ~Over(j)' => users' = account'
                       /\ pending'[j].op = "getUsers" /\ Over(j)' => pending'[j].reply = account'
                 /\ (\A j \in DOMAIN pending' : ~Listing(j)') => users' = account'
      <4>1. ~failures /\ stage = "done"
        BY <1>3, <2>1, <3>2
      <4>2. CASE pending[i].op = "act"
        <5>1. \A j \in DOMAIN pending \ {i} : ~Listing(j)
          BY <1>2, <4>2 DEF AccountsInv, Listing
        <5>2. Over(i)' /\ Listing(i)'
          BY <2>2, <4>1, <4>2 DEF Over, Listing
        <5> QED BY <2>1, <2>2, <4>2, <5>1, <5>2 DEF Listing
      <4>3. CASE pending[i].op # "act"
        <5>1. account' = account /\ users' = users
          BY <1>3, <4>3
        <5>2. ASSUME NEW j \in DOMAIN pending'
              PROVE  /\ pending'[j].op = "act" /\ ~Over(j)' => users' = account'
                     /\ pending'[j].op = "getUsers" /\ Over(j)' => pending'[j].reply = account'
          <6>1. CASE j = i
            BY <1>3, <2>2, <4>1, <4>3, <5>1, <6>1
          <6>2. CASE j # i
            BY <1>2, <2>1, <3>2, <4>1, <5>1, <6>2 DEF AccountsInv, Over
          <6> QED BY <6>1, <6>2
        <5>3. (\A j \in DOMAIN pending' : ~Listing(j)') => users' = account'
          BY <1>2, <2>1, <2>2, <3>2, <4>1, <5>1 DEF AccountsInv, Listing
        <5> QED BY <5>2, <5>3
      <4> QED BY <4>2, <4>3
    <3> QED BY <1>3, <3>1, <3>2 DEF AccountsInv
  <2>4. PanelInv'
    BY <1>2, <1>3, <2>1, <2>2 DEF PanelInv, Latest, NoneOf
  <2> QED BY <1>3, <2>1, <2>3, <2>4 DEF UsersInv
<1>4. CASE Accounts!UsersServed(i)
  <2>1. \E stage \in {"done", "failed"} : \E reply :
            /\ Serve(i, stage, reply)
            /\ stage = "done" /\ pending[i].op = "getUsers" => reply = account
    BY <1>1, <1>4 DEF Accounts!UsersServed
  <2> QED BY <1>3, <1>4, <2>1 DEF Accounts!UsersServed
<1>5. CASE Accounts!ActionServed(i)
  <2>1. /\ pending[i].op = "act"
        /\ UNCHANGED <<users, actionLoading, dialog, selectedUserInfo, ecosystemsOf, elsewhere>>
        /\ \E stage \in {"done", "failed"} : Serve(i, stage, None)
    BY <1>1, <1>5 DEF Accounts!ActionServed
  <2> QED BY <1>3, <2>1
<1> QED BY <1>4, <1>5

\* An answer reaches the page or its panel.
LEMMA UsersReceive ==
    ASSUME UsersInv, NEW i \in DOMAIN pending,
           \/ Accounts!UsersArrive(i) \/ Accounts!ActionArrives(i) \/ Accounts!PanelArrives(i)
    PROVE  UsersInv'
<1> USE DEF Accounts!panel
<1> DEFINE asked(op, arg) == <<Ask(op, arg)>>
<1>1. Queue /\ AccountsInv /\ PanelInv
  BY DEF UsersInv
<1>2. \A more : Accounts!Receive(i, more) => Receive(i, more)
  BY DEF Accounts!Receive, Receive, Accounts!Over, Over, Accounts!Without, Without
<1>3. PICK more :
         /\ Receive(i, more)
         /\ \/ more = <<>>
            \/ more = asked("getUsers", "action") /\ pending[i].op = "act" /\ ~Failed(i)
            \/ more = asked("details", pending[i].arg) /\ pending[i].op = "ecosystems"
         /\ pending[i].op = "act" /\ ~Failed(i) => more = asked("getUsers", "action")
  BY <1>2 DEF Accounts!UsersArrive, Accounts!ActionArrives, Accounts!PanelArrives,
              Accounts!Ask, Ask, Accounts!Failed, Failed
<1>4. /\ Fresh(more)
      /\ \A m \in DOMAIN more :
            \/ /\ pending[i].op = "act" /\ more[m].op = "getUsers" /\ more[m].arg = "action"
               /\ more[m].stage = "sent" /\ DOMAIN more = {1}
            \/ more[m].op = "details"
  <2>1. CASE more = <<>>
    BY <2>1, NoneSent
  <2>2. ASSUME NEW op, NEW arg, more = asked(op, arg)
        PROVE  /\ Fresh(more) /\ DOMAIN more = {1} /\ more[1].op = op /\ more[1].arg = arg
               /\ more[1].stage = "sent"
    BY <2>2, OneSent
  <2> HIDE DEF asked
  <2> QED BY <1>3, <2>1, <2>2
<1> HIDE DEF asked
<1>5. /\ Queue'
      /\ inOrder' => inOrder /\ i = 1
      /\ failures' = failures
      /\ Over(i)
  BY <1>1, <1>3, <1>4, Receives DEF Receive
<1>6. /\ \A k \in DOMAIN pending \ {i} : \E j \in DOMAIN pending' : pending'[j] = pending[k]
      /\ \A j \in DOMAIN pending' :
            \/ \E m \in DOMAIN more : pending'[j] = more[m]
            \/ /\ j \in 1..(Len(pending) - 1)
               /\ Before(i, j) \in DOMAIN pending \ {i} /\ pending'[j] = pending[Before(i, j)]
      /\ \A j, k \in 1..(Len(pending) - 1) : Before(i, j) = Before(i, k) => j = k
  BY <1>1, <1>3, <1>4, Remains
<1>7. /\ UNCHANGED <<account, elsewhere, selectedUserInfo>>
      /\ IF pending[i].op = "getUsers" THEN users' = IF Failed(i) THEN None ELSE pending[i].reply
         ELSE users' = users
      /\ IF pending[i].op = "ecosystems" /\ ~Failed(i) THEN ecosystemsOf' = pending[i].arg
         ELSE ecosystemsOf' = ecosystemsOf
      /\ \/ UNCHANGED <<actionLoading, dialog>>
         \/ /\ dialog' = None /\ Listing(i)
            /\ pending[i].op = "act" => Failed(i)
      /\ pending[i].op \in {"act", "getUsers", "ecosystems", "details"}
  BY DEF Accounts!UsersArrive, Accounts!ActionArrives, Accounts!PanelArrives,
         Accounts!Failed, Failed, Listing
<1>8. ~Failed(i) => pending[i].stage = "done"
  BY <1>5 DEF Over, Failed
<1>9. AccountsInv'
  <2>1. CASE Listing(i)
    <3>1. \A j \in DOMAIN pending \ {i} : ~Listing(j)
      BY <1>1, <2>1 DEF AccountsInv
    <3>2. ASSUME NEW j \in DOMAIN pending', Listing(j)'
          PROVE  \E m \in DOMAIN more : pending'[j] = more[m]
      BY <1>6, <3>1, <3>2 DEF Listing
    <3>3. CASE pending[i].op = "act" /\ ~Failed(i)
      <4>1. /\ UNCHANGED <<actionLoading, dialog>>
            /\ actionLoading = TRUE
        BY <1>1, <1>7, <2>1, <3>3 DEF AccountsInv
      <4>2. PICK l : /\ l = Len(pending) /\ Len(pending) \in Nat
                     /\ DOMAIN pending' = 1..l /\ l \in DOMAIN pending'
                     /\ pending'[l] = Ask("getUsers", "action")
                     /\ \A j \in 1..(l - 1) :
                           Before(i, j) \in DOMAIN pending \ {i} /\ pending'[j] = pending[Before(i, j)]
        <5>1. Receive(i, <<Ask("getUsers", "action")>>)
          BY <1>3, <3>3 DEF asked
        <5>2. Len(pending) \in Nat /\ DOMAIN pending = 1..Len(pending)
          BY <1>1, QueuePlaces
        <5> QED BY <1>1, <5>1, <5>2, ReceivesOne
      <4>3. ASSUME NEW j \in DOMAIN pending', Listing(j)' PROVE j = l
        <5>1. j \notin 1..(l - 1)
          BY <3>1, <4>2, <4>3 DEF Listing
        <5> QED BY <4>2, <5>1
      <4>5. /\ pending'[l].op = "getUsers" /\ pending'[l].arg = "action"
            /\ pending'[l].stage = "sent"
        BY <4>2 DEF Ask
      <4>4. Listing(l)'
        BY <4>5 DEF Listing
      <4>6. \A j, k \in DOMAIN pending' : Listing(j)' /\ Listing(k)' => j = k
        BY <4>3
      <4>7. ASSUME NEW j \in DOMAIN pending'
            PROVE  /\ Listing(j)' => pending'[j].arg = "action" /\ actionLoading' = TRUE
                   /\ pending'[j].op # "act"
                   /\ pending'[j].op = "getUsers" => ~Over(j)'
        BY <4>1, <4>3, <4>5 DEF Listing, Over
      <4> QED BY <4>2, <4>4, <4>6, <4>7 DEF AccountsInv
    <3>4. CASE more = <<>>
      <4>1. \A j \in DOMAIN pending' : ~Listing(j)'
        BY <3>2, <3>4
      <4>2. ~failures' /\ ~elsewhere' => users' = account'
        <5> SUFFICES ASSUME ~failures, ~elsewhere PROVE users' = account
          BY <1>5, <1>7
        <5>1. ~Failed(i)
          BY <1>1 DEF Queue
        <5>2. pending[i].op = "getUsers"
          <6>1. asked("getUsers", "action") # <<>>
            BY DEF asked
          <6> QED BY <1>3, <2>1, <3>4, <5>1, <6>1 DEF Listing
        <5>3. pending[i].reply = account
          BY <1>1, <1>5, <5>2 DEF AccountsInv
        <5> QED BY <1>7, <5>1, <5>2, <5>3
      <4>3. \A j \in DOMAIN pending' : pending'[j].op # "act" /\ pending'[j].op # "getUsers"
        BY <4>1 DEF Listing
      <4> QED BY <4>1, <4>2, <4>3 DEF AccountsInv
    <3> QED BY <1>3, <2>1, <3>3, <3>4 DEF Listing
  <2>2. CASE ~Listing(i)
    <3>1. UNCHANGED <<account, elsewhere, users, actionLoading, dialog>>
      BY <1>7, <2>2 DEF Listing
    <3>2. ASSUME NEW j \in DOMAIN pending', Listing(j)'
          PROVE  /\ j \in 1..(Len(pending) - 1) /\ Before(i, j) \in DOMAIN pending
                 /\ pending'[j] = pending[Before(i, j)] /\ Listing(Before(i, j))
      BY <1>4, <1>6, <2>2, <3>2 DEF Listing
    <3>3. ASSUME NEW j \in DOMAIN pending', Listing(j)', NEW k \in DOMAIN pending', Listing(k)'
          PROVE  j = k
      BY <1>1, <1>6, <3>2, <3>3 DEF AccountsInv
    <3>4. (\A j \in DOMAIN pending' : ~Listing(j)') => \A k \in DOMAIN pending : ~Listing(k)
      BY <1>6, <2>2 DEF Listing
    <3>5. \A j \in DOMAIN pending' :
             Listing(j)' => IF pending'[j].op = "act" \/ pending'[j].arg = "action"
                            THEN actionLoading' = TRUE ELSE dialog' = None
      BY <1>1, <3>1, <3>2 DEF AccountsInv
    <3>6. ASSUME ~failures, ~elsewhere, NEW j \in DOMAIN pending'
          PROVE  /\ pending'[j].op = "act" /\ ~Over(j)' => users' = account'
                 /\ pending'[j].op = "getUsers" /\ Over(j)' => pending'[j].reply = account'
      BY <1>1, <3>1, <3>2, <3>6 DEF AccountsInv, Listing, Over
    <3>7. ~failures /\ ~elsewhere /\ (\A j \in DOMAIN pending' : ~Listing(j)') => users' = account'
      BY <1>1, <3>1, <3>4 DEF AccountsInv
    <3> QED BY <1>5, <3>1, <3>3, <3>5, <3>6, <3>7 DEF AccountsInv
  <2> QED BY <2>1, <2>2
<1>10. PanelInv'
  <2> SUFFICES ASSUME inOrder', ~failures', selectedUserInfo' # None PROVE PanelInv'
    BY DEF PanelInv
  <2>1. /\ inOrder /\ ~failures /\ i = 1 /\ ~Failed(i)
        /\ selectedUserInfo' = selectedUserInfo
    BY <1>1, <1>5, <1>7 DEF Queue
  <2>2. \A m \in DOMAIN more : more[m].op # "ecosystems"
    BY <1>4
  <2>3. ASSUME NEW k \in DOMAIN pending \ {i}, Latest(k, "ecosystems"),
               pending[k].arg = selectedUserInfo
        PROVE  PanelInv'
    <3>1. /\ k - 1 \in DOMAIN pending' /\ Latest(k - 1, "ecosystems")'
          /\ pending'[k - 1] = pending[k]
      BY <1>1, <1>3, <1>4, <2>1, <2>2, <2>3, LatestWhenReceived
    <3> QED BY <2>1, <2>3, <3>1 DEF PanelInv
  <2>4. CASE Latest(i, "ecosystems") /\ pending[i].arg = selectedUserInfo
    <3>1. NoneOf("ecosystems")'
      BY <1>1, <1>3, <1>4, <2>1, <2>2, <2>4, LatestWhenReceived
    <3> QED BY <1>7, <2>1, <2>4, <3>1 DEF PanelInv, Latest
  <2>5. CASE NoneOf("ecosystems") /\ ecosystemsOf = selectedUserInfo
    <3>1. NoneOf("ecosystems")'
      BY <1>1, <1>3, <1>4, <2>1, <2>2, <2>5, LatestWhenReceived
    <3> QED BY <1>7, <2>1, <2>5, <3>1 DEF PanelInv, NoneOf
  <2> QED BY <1>1, <2>1, <2>3, <2>4, <2>5 DEF PanelInv
<1> QED BY <1>5, <1>7, <1>9, <1>10 DEF UsersInv

\* The administrator uses the table, its dialogs and the panel; others write.
LEMMA UsersAct ==
    ASSUME UsersInv,
           \/ \E u \in People :
                 \/ Accounts!ByOthers(u) \/ Accounts!OpenPanel(u)
                 \/ \E action \in {"approve", "revoke"} : Accounts!OpenDialog(u, action, None)
                 \/ \E next \in UserRoles : Accounts!OpenDialog(u, "role", next)
           \/ Accounts!CancelDialog \/ Accounts!handleConfirmRoleChange
           \/ Accounts!Execute \/ Accounts!ClosePanel
    PROVE  UsersInv'
<1> USE DEF Accounts!panel, Accounts!requestVars
<1>1. Queue /\ AccountsInv /\ PanelInv /\ elsewhere \in BOOLEAN
  BY DEF UsersInv
<1>2. \A more : Accounts!Send(more) => Send(more)
  BY DEF Accounts!Send, Send
<1>3. ASSUME UNCHANGED <<pending, inOrder, failures, users, actionLoading, ecosystemsOf>>,
             \/ dialog' = dialog \/ dialog' = None
             \/ \A i \in DOMAIN pending : ~(pending[i].op = "getUsers" /\ pending[i].arg # "action"),
             UNCHANGED <<account, elsewhere>> \/ elsewhere' = TRUE,
             selectedUserInfo' = selectedUserInfo \/ selectedUserInfo' = None
      PROVE  UsersInv'
  <2>1. Queue'
    BY <1>1, <1>3 DEF Queue, Failed
  <2>2. \A i \in DOMAIN pending :
           Listing(i) => IF pending[i].op = "act" \/ pending[i].arg = "action"
                         THEN actionLoading = TRUE ELSE dialog' = None
    BY <1>1, <1>3 DEF AccountsInv, Listing
  <2>3. AccountsInv'
    BY <1>1, <1>3, <2>2 DEF AccountsInv, Listing, Over
  <2>4. PanelInv'
    BY <1>1, <1>3 DEF PanelInv, Latest, NoneOf
  <2> QED BY <1>1, <1>3, <2>1, <2>3, <2>4 DEF UsersInv
<1>4. ASSUME NEW u \in People, Accounts!ByOthers(u) PROVE UsersInv'
  <2>1. UNCHANGED <<pending, inOrder, failures, users, actionLoading, ecosystemsOf, dialog,
                    selectedUserInfo>> /\ elsewhere' = TRUE
    BY <1>4 DEF Accounts!ByOthers
  <2> QED BY <1>3, <2>1
<1>5. ASSUME NEW u, NEW action, NEW next, Accounts!OpenDialog(u, action, next) PROVE UsersInv'
  <2>1. \A i \in DOMAIN pending : pending[i].op # "getUsers"
    <3>1. ~Accounts!isLoading
      BY <1>5 DEF Accounts!OpenDialog, Accounts!Listed
    <3> QED BY <3>1 DEF Accounts!isLoading, Accounts!AskedFor
  <2>2. UNCHANGED <<pending, inOrder, failures, users, actionLoading, ecosystemsOf, account,
                    elsewhere, selectedUserInfo>>
    BY <1>5 DEF Accounts!OpenDialog
  <2> QED BY <1>3, <2>1, <2>2
<1>6. CASE Accounts!CancelDialog \/ Accounts!ClosePanel
  <2>1. /\ UNCHANGED <<pending, inOrder, failures, users, actionLoading, ecosystemsOf, account,
                       elsewhere>>
        /\ dialog' = dialog \/ dialog' = None
        /\ selectedUserInfo' = selectedUserInfo \/ selectedUserInfo' = None
    BY <1>6 DEF Accounts!CancelDialog, Accounts!ClosePanel
  <2> QED BY <1>3, <2>1
\* whoever has a dialog open does not wait for the first list
<1>7. dialog # None => \A i \in DOMAIN pending :
         Listing(i) => actionLoading = TRUE /\ (pending[i].op = "act" \/ pending[i].arg = "action")
  BY <1>1 DEF AccountsInv
<1>8. CASE Accounts!handleConfirmRoleChange
  <2>1. /\ UNCHANGED <<pending, inOrder, failures, users, actionLoading, ecosystemsOf, account,
                       elsewhere, selectedUserInfo>>
        /\ dialog # None
    BY <1>8 DEF Accounts!handleConfirmRoleChange, Accounts!Confirmable
  <2>2. \A i \in DOMAIN pending : ~(pending[i].op = "getUsers" /\ pending[i].arg # "action")
    BY <1>7, <2>1 DEF Listing
  <2> QED BY <1>3, <2>1, <2>2
<1>9. CASE Accounts!Execute
  <2>1. /\ dialog # None /\ ~actionLoading
        /\ UNCHANGED <<users, ecosystemsOf, account, elsewhere, selectedUserInfo>>
    BY <1>9 DEF Accounts!Execute, Accounts!Confirmable
  <2>2. CASE dialog' = None /\ UNCHANGED <<pending, inOrder, failures, actionLoading>>
    BY <1>3, <2>1, <2>2
  <2>3. ASSUME NEW arg, Send(<<Ask("act", arg)>>), actionLoading' = TRUE, dialog' = dialog
        PROVE  UsersInv'
    <3>1. PICK last :
        /\ Queue'
        /\ last \in DOMAIN pending' \ DOMAIN pending
        /\ pending'[last] = Ask("act", arg)
        /\ \A j \in DOMAIN pending : j \in DOMAIN pending' /\ pending'[j] = pending[j]
        /\ \A j \in DOMAIN pending' : j \in DOMAIN pending \/ j = last
        /\ inOrder' = inOrder /\ failures' = failures
      BY <1>1, <2>3, SentOne
    <3>2. /\ pending'[last].op = "act" /\ pending'[last].stage = "sent"
      BY <3>1 DEF Ask
    <3>3. /\ \A j \in DOMAIN pending : pending[j].op # "act" /\ pending[j].op # "getUsers"
          /\ ~failures /\ ~elsewhere => users = account
      <4>1. \A j \in DOMAIN pending : ~Listing(j)
        BY <1>7, <2>1
      <4> QED BY <1>1, <4>1 DEF AccountsInv, Listing
    <3>4. AccountsInv'
      <4>1. ASSUME NEW j \in DOMAIN pending', Listing(j)' PROVE j = last
        BY <3>1, <3>3, <4>1 DEF Listing
      <4>2. ASSUME NEW j \in DOMAIN pending'
            PROVE  /\ pending'[j].op = "act" /\ ~Over(j)' => j = last
                   /\ pending'[j].op # "getUsers"
        BY <3>1, <3>2, <3>3
      <4>3. Listing(last)'
        BY <3>2 DEF Listing
      <4>4. ~failures' /\ ~elsewhere' => users' = account'
        BY <2>1, <3>1, <3>3
      <4>5. \A j, k \in DOMAIN pending' : Listing(j)' /\ Listing(k)' => j = k
        BY <4>1
      <4>6. \A j \in DOMAIN pending' :
               Listing(j)' => IF pending'[j].op = "act" \/ pending'[j].arg = "action"
                              THEN actionLoading' = TRUE ELSE dialog' = None
        BY <2>3, <3>2, <4>1
      <4> QED BY <3>1, <4>2, <4>3, <4>4, <4>5, <4>6 DEF AccountsInv
    <3>5. PanelInv'
      <4> DEFINE more == <<Ask("act", arg)>>
      <4>1. /\ Fresh(more) /\ Send(more) /\ \A m \in DOMAIN more : more[m].op # "ecosystems"
        BY <2>3, OneSent
      <4> HIDE DEF more
      <4>2. /\ \A k \in DOMAIN pending : Latest(k, "ecosystems") =>
                 k \in DOMAIN pending' /\ Latest(k, "ecosystems")' /\ pending'[k] = pending[k]
            /\ NoneOf("ecosystems") => NoneOf("ecosystems")'
        BY <1>1, <4>1, LatestWhenSent
      <4> QED BY <1>1, <2>1, <3>1, <4>2 DEF PanelInv
    <3> QED BY <1>1, <2>1, <3>1, <3>4, <3>5 DEF UsersInv
  <2> QED BY <1>2, <1>9, <2>2, <2>3 DEF Accounts!Execute, Accounts!Ask, Ask
<1>10. ASSUME NEW u \in People, Accounts!OpenPanel(u) PROVE UsersInv'
  <2>1. /\ Send(<<Ask("ecosystems", u)>>) /\ selectedUserInfo' = u
        /\ UNCHANGED <<account, users, actionLoading, dialog, elsewhere>>
    BY <1>2, <1>10 DEF Accounts!OpenPanel, Accounts!ShowUserInfo, Accounts!Ask, Ask
  <2>2. PICK last :
        /\ Queue'
        /\ last \in DOMAIN pending' \ DOMAIN pending
        /\ pending'[last] = Ask("ecosystems", u)
        /\ \A j \in DOMAIN pending : j \in DOMAIN pending' /\ pending'[j] = pending[j]
        /\ \A j \in DOMAIN pending' : j \in DOMAIN pending \/ j = last
        /\ inOrder' = inOrder /\ failures' = failures
    BY <1>1, <2>1, SentOne
  <2>3. /\ pending'[last].op = "ecosystems" /\ pending'[last].stage = "sent"
        /\ \A j \in DOMAIN pending' : Listing(j)' => j \in DOMAIN pending
    BY <2>2 DEF Ask, Listing
  <2>4. AccountsInv'
    <3>1. ASSUME NEW j \in DOMAIN pending', Listing(j)'
          PROVE  /\ j \in DOMAIN pending /\ Listing(j) /\ pending'[j] = pending[j]
      BY <2>2, <2>3, <3>1 DEF Listing
    <3>2. \A j, k \in DOMAIN pending' : Listing(j)' /\ Listing(k)' => j = k
      BY <1>1, <3>1 DEF AccountsInv
    <3>3. \A j \in DOMAIN pending' :
             Listing(j)' => IF pending'[j].op = "act" \/ pending'[j].arg = "action"
                            THEN actionLoading' = TRUE ELSE dialog' = None
      BY <1>1, <2>1, <3>1 DEF AccountsInv
    <3>4. ASSUME ~failures, ~elsewhere, NEW j \in DOMAIN pending'
          PROVE  /\ pending'[j].op = "act" /\ ~Over(j)' => users' = account'
                 /\ pending'[j].op = "getUsers" /\ Over(j)' => pending'[j].reply = account'
      BY <1>1, <2>1, <3>1, <3>4 DEF AccountsInv, Listing, Over
    <3>5. ASSUME ~failures, ~elsewhere, \A j \in DOMAIN pending' : ~Listing(j)'
          PROVE  users' = account'
      <4>1. \A j \in DOMAIN pending : ~Listing(j)
        BY <2>2, <3>5 DEF Listing
      <4> QED BY <1>1, <2>1, <3>5, <4>1 DEF AccountsInv
    <3> QED BY <2>1, <2>2, <3>2, <3>3, <3>4, <3>5 DEF AccountsInv
  <2>5. PanelInv'
    <3>1. PICK k \in DOMAIN pending' : Latest(k, "ecosystems")' /\ pending'[k] = Ask("ecosystems", u)
      BY <1>1, <2>1, LatestAsked
    <3> QED BY <2>1, <3>1 DEF PanelInv, Ask
  <2> QED BY <1>1, <2>1, <2>2, <2>4, <2>5 DEF UsersInv
<1> QED BY <1>4, <1>5, <1>6, <1>8, <1>9, <1>10

LEMMA UsersStep == UsersInv /\ Accounts!UsersNext => UsersInv'
  BY UsersServes, UsersReceive, UsersAct DEF Accounts!UsersNext

LEMMA UsersRest ==
    UsersInv /\ UNCHANGED <<requestVars, people, actionLoading>> => UsersInv'
<1> SUFFICES ASSUME UsersInv, UNCHANGED <<requestVars, people, actionLoading>> PROVE UsersInv'
  OBVIOUS
<1>1. UNCHANGED <<pending, inOrder, failures, account, users, actionLoading, dialog,
                  selectedUserInfo, ecosystemsOf, elsewhere>>
  BY DEF requestVars, people
<1>2. Queue' /\ elsewhere' \in BOOLEAN
  BY <1>1 DEF UsersInv, Queue, Failed
<1>3. AccountsInv'
  BY <1>1 DEF UsersInv, AccountsInv, Listing, Over
<1>4. PanelInv'
  BY <1>1 DEF UsersInv, PanelInv, Latest, NoneOf
<1> QED BY <1>2, <1>3, <1>4 DEF UsersInv

LEMMA UsersPromises == UsersInv => Accounts!UsersAgree /\ Accounts!PanelIsTheirs
<1>1. Accounts!Quiet => DOMAIN pending = {}
  BY DEF Accounts!Quiet
<1> QED BY <1>1 DEF UsersInv, AccountsInv, PanelInv, Accounts!UsersAgree, Accounts!PanelIsTheirs

-----------------------------------------------------------------------------
(* AuditPage                                                                *)

Item == [event : Readings \cup Actions, stage : {"unread", "found", "checked"},
         record : {"none"} \cup Audit!Records, status : {"VERIFIED", "DISCREPANCY"},
         crossed : BOOLEAN]

\* what is known of an item when it has come to its stage
Right(item) ==
    /\ item \in Item
    /\ item.stage # "checked" => item.event \in Readings /\ item.status = "VERIFIED"
    /\ item.stage = "unread" => item.record = "none"
    /\ item.stage = "found" => /\ item.record \in {"genuine", "altered"}
                               /\ ~item.crossed => item.record = record[item.event]
    /\ item.stage = "checked" /\ ~item.crossed =>
          (item.status = "DISCREPANCY" <=> item.record = "altered")

AllRight(items) == items \in [DOMAIN items -> Item] /\ \A k \in DOMAIN items : Right(items[k])
AllChecked(items) == \A k \in DOMAIN items : items[k].stage = "checked"

VerdictsInv ==
    /\ AllRight(events) /\ AllChecked(events)
    /\ AllRight(cards) /\ AllChecked(cards)
    /\ \A i \in DOMAIN pending :
          /\ pending[i].stage \in {"checking", "done"} => AllRight(pending[i].reply)
          /\ pending[i].stage = "done" => AllChecked(pending[i].reply)

\* an item of e that says what there is, as far as it has come
Now(item, e) ==
    \/ item = Audit!Unchecked(e)
    \/ e \in Readings /\ record[e] # "missing" /\ item = [Audit!Unchecked(e) EXCEPT !.stage = "found", !.record = record[e]]
    \/ item = Audit!Verdict(e)

newest == Audit!Newest(chain)

UpToDate(i) ==
    /\ pending[i].stage = "checking" =>
          /\ DOMAIN pending[i].reply = DOMAIN newest
          /\ \A k \in DOMAIN newest : Now(pending[i].reply[k], newest[k])
    /\ pending[i].stage = "done" => pending[i].reply = Audit!Current(pending[i].arg)

\* The last timeline asked for has the filters shown; it, and the cards, are what
\* there is unless something has changed.
TimelineInv ==
    inOrder => \A i \in DOMAIN pending :
        Latest(i, "timeline") => pending[i].arg = filters /\ (~stale => UpToDate(i))

CardsInv ==
    \A i \in DOMAIN pending : pending[i].op = "cards" =>
        /\ pending[i].arg = "ALL" /\ \A j \in DOMAIN pending : pending[j].op = "cards" => i = j
        /\ ~moved => UpToDate(i)

ShownInv ==
    inOrder /\ ~failures =>
        /\ NoneOf("timeline") /\ ~stale => events = Audit!Current(filters)
        /\ NoneOf("cards") /\ ~moved => cards = Audit!Current("ALL")

AuditInv ==
    /\ Queue
    /\ chain \in Seq(Readings \cup Actions) /\ record \in [Readings -> Audit!Records]
    /\ VerdictsInv /\ TimelineInv /\ CardsInv /\ ShownInv

LEMMA NoEvents == AllRight(<<>>) /\ AllChecked(<<>>)
<1>1. <<>> = [k \in {} |-> k] /\ DOMAIN <<>> = {}
  OBVIOUS
<1> QED BY <1>1 DEF AllRight, AllChecked

LEMMA AuditStarts == Audit!AuditInit => AuditInv
<1> SUFFICES ASSUME Audit!AuditInit PROVE AuditInv
  OBVIOUS
<1> DEFINE first == <<Ask("timeline", "ALL"), Ask("cards", "ALL")>>
<1>1. /\ Fresh(first) /\ DOMAIN first = {1, 2}
      /\ first[1].op = "timeline" /\ first[1].stage = "sent" /\ first[1].arg = "ALL"
      /\ first[2].op = "cards" /\ first[2].stage = "sent" /\ first[2].arg = "ALL"
  BY TwoSent
<1>2. RequestsInit(first)
  BY DEF Audit!AuditInit, Audit!RequestsInit, RequestsInit, Audit!Ask, Ask
<1> HIDE DEF first
<1>3. Queue
  BY <1>1, <1>2, FirstQueue
<1>4. /\ DOMAIN pending = {1, 2}
      /\ pending[1].op = "timeline" /\ pending[1].stage = "sent" /\ pending[1].arg = "ALL"
      /\ pending[2].op = "cards" /\ pending[2].stage = "sent" /\ pending[2].arg = "ALL"
  BY <1>1, <1>2 DEF RequestsInit
<1>5. /\ chain \in Seq(Readings \cup Actions) /\ record \in [Readings -> Audit!Records]
      /\ events = <<>> /\ filters = "ALL" /\ cards = <<>>
  <2>1. /\ chain = <<>> \/ \E e \in Readings \cup Actions : chain = <<e>>
        /\ record = [r \in Readings |-> "genuine"]
        /\ events = <<>> /\ filters = "ALL" /\ cards = <<>>
    BY DEF Audit!AuditInit
  <2>2. ASSUME NEW e \in Readings \cup Actions PROVE <<e>> \in Seq(Readings \cup Actions)
    OBVIOUS
  <2>3. <<>> \in Seq(Readings \cup Actions)
    OBVIOUS
  <2>4. chain \in Seq(Readings \cup Actions)
    BY <2>1, <2>2, <2>3
  <2> QED BY <2>1, <2>4 DEF Audit!Records
<1>7. VerdictsInv
  BY <1>4, <1>5, NoEvents DEF VerdictsInv
<1>8. TimelineInv /\ CardsInv
  BY <1>4, <1>5 DEF TimelineInv, CardsInv, UpToDate, Latest
<1>9. ShownInv
  BY <1>4 DEF ShownInv, NoneOf
<1> QED BY <1>3, <1>5, <1>7, <1>8, <1>9 DEF AuditInv

\* What FireFly is asked for is anchored, each event of it.
LEMMA NewestAnchored ==
    ASSUME AuditInv PROVE \A k \in DOMAIN newest : newest[k] \in Readings \cup Actions
<1> DEFINE S == Readings \cup Actions
           n == IF Len(chain) < Limit THEN Len(chain) ELSE Limit
<1>1. chain \in Seq(S) /\ Limit \in Nat /\ Len(chain) \in Nat /\ DOMAIN chain = 1..Len(chain)
  BY EventsAssumption, LenProperties DEF AuditInv
<1>2. n \in Nat /\ n <= Len(chain)
  BY <1>1
<1>3. newest = SubSeq(chain, 1, n)
  BY DEF newest, Audit!Newest
<1> HIDE DEF n
<1>4. \A j \in 1..n : chain[j] \in S
  BY <1>1, <1>2
<1>5. newest \in Seq(S)
  BY <1>1, <1>2, <1>3, <1>4, SubSeqProperties
<1> QED BY <1>5

\* What has been judged is the verdict.
LEMMA Judged ==
    ASSUME AuditInv, NEW k \in DOMAIN newest, NEW item, Now(item, newest[k]), item.stage = "checked"
    PROVE  item = Audit!Verdict(newest[k])
<1>1. PICK e \in Readings \cup Actions : e = newest[k]
  BY NewestAnchored
<1>2. CASE item = Audit!Unchecked(e)
  <2>1. e \notin Readings /\ e \in Actions
    BY <1>2 DEF Audit!Unchecked
  <2>2. item = Audit!Verdict(e)
    BY <1>2, <2>1 DEF Audit!Unchecked, Audit!Verdict
  <2> QED BY <1>1, <2>2
<1>3. CASE item = [Audit!Unchecked(e) EXCEPT !.stage = "found", !.record = record[e]]
  BY <1>3 DEF Audit!Unchecked
<1> QED BY <1>1, <1>2, <1>3 DEF Now

\* Nothing that the audit reads has changed.
LEMMA SameEvents ==
    ASSUME UNCHANGED <<chain, record>>
    PROVE  /\ newest' = newest
           /\ \A items : AllRight(items)' <=> AllRight(items)
           /\ \A items : AllChecked(items)' <=> AllChecked(items)
           /\ \A item, e : Now(item, e)' <=> Now(item, e)
           /\ \A name : Audit!Current(name)' = Audit!Current(name)
<1>1. newest' = newest
  BY DEF newest, Audit!Newest
<1>2. \A item : Right(item)' <=> Right(item)
  BY DEF Right, Item, Audit!Records
<1>3. /\ \A items : AllRight(items)' <=> AllRight(items)
      /\ \A items : AllChecked(items)' <=> AllChecked(items)
  BY <1>2 DEF AllRight, AllChecked, Item, Audit!Records
<1>4. \A e : Audit!Verdict(e)' = Audit!Verdict(e)
  BY DEF Audit!Verdict, Audit!Unchecked
<1>5. \A item, e : Now(item, e)' <=> Now(item, e)
  BY <1>4 DEF Now, Audit!Unchecked
<1>6. \A name : Audit!Current(name)' = Audit!Current(name)
  BY <1>4 DEF Audit!Current, Audit!Newest, Audit!Matching, Audit!Name
<1> QED BY <1>1, <1>3, <1>5, <1>6

\* An answer of the audit goes a step further.
LEMMA AuditTurns ==
    ASSUME AuditInv, NEW i \in DOMAIN pending, NEW stage, NEW reply,
           Queue', DOMAIN pending' = DOMAIN pending,
           pending'[i] = [op |-> pending[i].op, arg |-> pending[i].arg,
                          stage |-> stage, reply |-> reply],
           \A j \in DOMAIN pending \ {i} : pending'[j] = pending[j],
           inOrder' => inOrder, ~failures' => ~failures,
           UNCHANGED timeline,
           stage \in {"checking", "done"} => AllRight(reply),
           stage = "done" => AllChecked(reply),
           UpToDate(i) =>
               /\ stage = "checking" =>
                     /\ DOMAIN reply = DOMAIN newest
                     /\ \A k \in DOMAIN newest : Now(reply[k], newest[k])
               /\ stage = "done" => reply = Audit!Current(pending[i].arg)
    PROVE  AuditInv'
<1>1. /\ pending'[i].op = pending[i].op /\ pending'[i].arg = pending[i].arg
      /\ pending'[i].stage = stage /\ pending'[i].reply = reply
  OBVIOUS
<1>2. /\ UNCHANGED <<chain, record, events, filters, cards, stale, moved>>
      /\ VerdictsInv /\ TimelineInv /\ CardsInv /\ ShownInv
  BY DEF timeline, AuditInv
<1>3. /\ newest' = newest
      /\ \A items : AllRight(items)' <=> AllRight(items)
      /\ \A items : AllChecked(items)' <=> AllChecked(items)
      /\ \A item, e : Now(item, e)' <=> Now(item, e)
      /\ \A name : Audit!Current(name)' = Audit!Current(name)
  BY <1>2, SameEvents
<1>4. chain' \in Seq(Readings \cup Actions) /\ record' \in [Readings -> Audit!Records]
  BY <1>2 DEF AuditInv
<1>5. VerdictsInv'
  <2>1. AllRight(events)' /\ AllChecked(events)' /\ AllRight(cards)' /\ AllChecked(cards)'
    BY <1>2, <1>3 DEF VerdictsInv, AllRight, AllChecked
  <2>2. ASSUME NEW j \in DOMAIN pending'
        PROVE  /\ pending'[j].stage \in {"checking", "done"} => AllRight(pending'[j].reply)
               /\ pending'[j].stage = "done" => AllChecked(pending'[j].reply)
    BY <1>1, <1>2 DEF VerdictsInv
  <2>3. ASSUME NEW j \in DOMAIN pending'
        PROVE  /\ pending'[j].stage \in {"checking", "done"} => AllRight(pending[j].reply)'
               /\ pending'[j].stage = "done" => AllChecked(pending[j].reply)'
    BY <1>3, <2>2 DEF AllRight, AllChecked
  <2> QED BY <2>1, <2>3 DEF VerdictsInv
<1>6. ASSUME NEW j \in DOMAIN pending, UpToDate(j) PROVE UpToDate(j)'
  BY <1>1, <1>3, <1>6 DEF UpToDate
<1>7. TimelineInv'
  BY <1>1, <1>2, <1>6 DEF TimelineInv, Latest
<1>8. CardsInv'
  BY <1>1, <1>2, <1>6 DEF CardsInv
<1>9. ShownInv'
  BY <1>1, <1>2, <1>3 DEF ShownInv, NoneOf
<1> QED BY <1>4, <1>5, <1>7, <1>8, <1>9 DEF AuditInv

\* An item of an answer comes to its next stage.
LEMMA ItemTurns ==
    ASSUME AuditInv, NEW i \in DOMAIN pending, pending[i].stage = "checking",
           NEW k \in DOMAIN pending[i].reply, NEW item, Right(item),
           \A e \in Readings \cup Actions : Now(pending[i].reply[k], e) => Now(item, e),
           Audit!WithItem(i, k, item)
    PROVE  AuditInv'
<1> DEFINE items == [pending[i].reply EXCEPT ![k] = item]
<1>1. AllRight(pending[i].reply)
  BY DEF AuditInv, VerdictsInv
<1>2. /\ DOMAIN items = DOMAIN pending[i].reply
      /\ items[k] = item
      /\ \A m \in DOMAIN items \ {k} : items[m] = pending[i].reply[m]
  OBVIOUS
<1>3. AllRight(items)
  <2>1. items \in [DOMAIN items -> Item]
    BY <1>1 DEF AllRight, Right
  <2> QED BY <1>1, <1>2, <2>1 DEF AllRight
<1>4. UNCHANGED timeline /\ UNCHANGED <<inOrder, failures>>
  BY DEF Audit!WithItem, Audit!auditVars, timeline
<1>5. pending' = [pending EXCEPT ![i].reply = items]
  BY DEF Audit!WithItem
<1>6. ASSUME UpToDate(i)
      PROVE  /\ DOMAIN items = DOMAIN newest
             /\ \A m \in DOMAIN newest : Now(items[m], newest[m])
  BY <1>2, <1>6, NewestAnchored DEF UpToDate
<1> HIDE DEF items
<1>7. Advance(i, "checking", items)
  BY <1>4, <1>5 DEF Advance
<1>8. /\ Queue'
      /\ DOMAIN pending' = DOMAIN pending
      /\ pending'[i] = [op |-> pending[i].op, arg |-> pending[i].arg,
                        stage |-> "checking", reply |-> items]
      /\ \A j \in DOMAIN pending \ {i} : pending'[j] = pending[j]
  BY <1>7, Advances DEF AuditInv
<1> QED BY <1>3, <1>4, <1>6, <1>8, AuditTurns

\* What the audit service does with a request.
LEMMA AuditServes ==
    ASSUME AuditInv, NEW i \in DOMAIN pending,
           \/ Audit!ReadEvents(i) \/ Audit!FindRecord(i) \/ Audit!Verify(i)
           \/ Audit!ReplyTimeline(i) \/ Audit!TimelineFails(i)
    PROVE  AuditInv'
<1>1. \A stage, reply : Audit!Serve(i, stage, reply) => Serve(i, stage, reply)
  BY DEF Audit!Serve, Serve, Audit!Over, Over
<1>2. record \in [Readings -> Audit!Records] /\ VerdictsInv /\ Queue
  BY DEF AuditInv
<1>3. CASE Audit!ReadEvents(i)
  <2> DEFINE reply == [k \in DOMAIN newest |-> Audit!Unchecked(newest[k])]
  <2>1. pending[i].stage = "sent" /\ Advance(i, "checking", reply) /\ UNCHANGED timeline
    BY <1>3 DEF Audit!ReadEvents, Advance, newest, Audit!auditVars, timeline
  <2>2. ASSUME NEW e \in Readings \cup Actions
        PROVE  Right(Audit!Unchecked(e)) /\ Now(Audit!Unchecked(e), e)
    BY DEF Right, Item, Now, Audit!Unchecked
  <2>3. AllRight(reply)
    <3>1. \A k \in DOMAIN newest : Right(reply[k])
      BY <2>2, NewestAnchored
    <3> QED BY <3>1 DEF AllRight, Right
  <2>4. \A k \in DOMAIN newest : Now(reply[k], newest[k])
    BY <2>2, NewestAnchored
  <2>5. DOMAIN reply = DOMAIN newest
    OBVIOUS
  <2> HIDE DEF reply
  <2>6. /\ Queue'
        /\ DOMAIN pending' = DOMAIN pending
        /\ pending'[i] = [op |-> pending[i].op, arg |-> pending[i].arg,
                          stage |-> "checking", reply |-> reply]
        /\ \A j \in DOMAIN pending \ {i} : pending'[j] = pending[j]
    BY <1>2, <2>1, Advances
  <2>7. UNCHANGED <<inOrder, failures>>
    BY <2>1 DEF Advance
  <2> QED BY <2>1, <2>3, <2>4, <2>5, <2>6, <2>7, AuditTurns
<1>4. CASE Audit!FindRecord(i)
  <2>1. PICK k \in DOMAIN pending[i].reply :
           /\ pending[i].reply[k].stage = "unread"
           /\ Audit!WithItem(i, k, IF record[pending[i].reply[k].event] = "missing"
                 THEN [pending[i].reply[k] EXCEPT !.stage = "checked"]
                 ELSE [pending[i].reply[k] EXCEPT
                         !.stage = "found", !.record = record[pending[i].reply[k].event]])
    BY <1>4 DEF Audit!FindRecord
  <2> DEFINE item == pending[i].reply[k]
             found == record[item.event]
             next == IF found = "missing" THEN [item EXCEPT !.stage = "checked"]
                     ELSE [item EXCEPT !.stage = "found", !.record = found]
  <2>2. Right(item) /\ item.stage = "unread" /\ pending[i].stage = "checking"
    BY <1>2, <1>4, <2>1 DEF VerdictsInv, AllRight, Audit!FindRecord
  <2>3. /\ item \in Item /\ item.event \in Readings /\ item.record = "none"
        /\ item.status = "VERIFIED"
    BY <2>2 DEF Right
  <2>4. found \in Audit!Records
    BY <1>2, <2>3
  <2>5. Right(next)
    BY <2>2, <2>3, <2>4 DEF Right, Item, Audit!Records
  <2>6. ASSUME NEW e \in Readings \cup Actions, Now(item, e) PROVE Now(next, e)
    <3>1. item = Audit!Unchecked(e) /\ e \in Readings /\ item.event = e
      <4>1. CASE item = Audit!Unchecked(e)
        BY <2>2, <4>1 DEF Audit!Unchecked
      <4>2. CASE item = [Audit!Unchecked(e) EXCEPT !.stage = "found", !.record = record[e]]
        BY <2>2, <4>2 DEF Audit!Unchecked
      <4>3. CASE item = Audit!Verdict(e)
        BY <2>2, <4>3 DEF Audit!Verdict, Audit!Unchecked
      <4> QED BY <2>6, <4>1, <4>2, <4>3 DEF Now
    <3>2. CASE found = "missing"
      BY <3>1, <3>2 DEF Now, Audit!Verdict, Audit!Unchecked
    <3>3. CASE found # "missing"
      BY <3>1, <3>3 DEF Now
    <3> QED BY <3>2, <3>3
  <2>7. Audit!WithItem(i, k, next)
    BY <2>1
  <2> HIDE DEF next
  <2>8. \A e \in Readings \cup Actions : Now(pending[i].reply[k], e) => Now(next, e)
    BY <2>6
  <2> QED BY <2>2, <2>5, <2>7, <2>8, ItemTurns
<1>5. CASE Audit!Verify(i)
  <2>1. PICK k \in DOMAIN pending[i].reply :
           /\ pending[i].reply[k].stage = "found"
           /\ Audit!WithItem(i, k, [pending[i].reply[k] EXCEPT
                 !.stage = "checked",
                 !.status = IF record[pending[i].reply[k].event] = "genuine"
                            THEN "VERIFIED" ELSE "DISCREPANCY"])
    BY <1>5 DEF Audit!Verify, Audit!verifyIntegrity
  <2> DEFINE item == pending[i].reply[k]
             next == [item EXCEPT !.stage = "checked",
                        !.status = IF record[item.event] = "genuine"
                                   THEN "VERIFIED" ELSE "DISCREPANCY"]
  <2>2. Right(item) /\ item.stage = "found" /\ pending[i].stage = "checking"
    BY <1>2, <1>5, <2>1 DEF VerdictsInv, AllRight, Audit!Verify
  <2>3. /\ item \in Item /\ item.event \in Readings /\ item.record \in {"genuine", "altered"}
        /\ ~item.crossed => item.record = record[item.event]
    BY <2>2 DEF Right
  <2>4. Right(next)
    BY <2>2, <2>3 DEF Right, Item
  <2>5. ASSUME NEW e \in Readings \cup Actions, Now(item, e) PROVE Now(next, e)
    <3>1. /\ e \in Readings /\ record[e] # "missing"
          /\ item = [Audit!Unchecked(e) EXCEPT !.stage = "found", !.record = record[e]]
      BY <2>2, <2>5 DEF Now, Audit!Unchecked, Audit!Verdict
    <3>2. e \notin Actions
      BY <3>1, EventsAssumption
    <3>3. item.event = e /\ item.record = record[e] /\ item.crossed = FALSE
      BY <3>1 DEF Audit!Unchecked
    <3>4. /\ next \in Item
          /\ next.event = e /\ next.stage = "checked" /\ next.record = record[e]
          /\ next.crossed = FALSE
          /\ next.status = IF record[e] = "genuine" THEN "VERIFIED" ELSE "DISCREPANCY"
      BY <2>3, <2>4, <3>3 DEF Item, Right
    <3> HIDE DEF next
    <3>5. next = Audit!Verdict(e)
      BY <3>1, <3>2, <3>4 DEF Audit!Verdict, Item
    <3> QED BY <3>5 DEF Now
  <2>6. Audit!WithItem(i, k, next)
    BY <2>1
  <2> HIDE DEF next
  <2>7. \A e \in Readings \cup Actions : Now(pending[i].reply[k], e) => Now(next, e)
    BY <2>5
  <2> QED BY <2>2, <2>4, <2>6, <2>7, ItemTurns
<1>6. CASE Audit!ReplyTimeline(i)
  <2> DEFINE items == pending[i].reply
             reply == Audit!Matching(items, pending[i].arg)
  <2>1. /\ pending[i].stage = "checking" /\ AllChecked(items) /\ UNCHANGED timeline
        /\ Serve(i, "done", reply)
    BY <1>1, <1>6 DEF Audit!ReplyTimeline, Audit!Done, AllChecked, Audit!auditVars, timeline
  <2>2. AllRight(items)
    BY <1>2, <2>1 DEF VerdictsInv
  <2>3. AllRight(reply) /\ AllChecked(reply)
    <3>1. DOMAIN reply \subseteq DOMAIN items /\ \A k \in DOMAIN reply : reply[k] = items[k]
      BY DEF Audit!Matching
    <3>2. reply \in [DOMAIN reply -> Item]
      BY <2>2, <3>1 DEF AllRight, Audit!Matching
    <3> QED BY <2>1, <2>2, <3>1, <3>2 DEF AllRight, AllChecked
  <2>4. ASSUME UpToDate(i) PROVE reply = Audit!Current(pending[i].arg)
    <3> DEFINE verdicts == [k \in DOMAIN newest |-> Audit!Verdict(newest[k])]
    <3>1. /\ DOMAIN items = DOMAIN newest
          /\ \A k \in DOMAIN newest : Now(items[k], newest[k]) /\ items[k].stage = "checked"
      BY <2>1, <2>4 DEF UpToDate, AllChecked
    <3>2. \A k \in DOMAIN newest : items[k] = Audit!Verdict(newest[k])
      BY <3>1, Judged
    <3>3. items = verdicts
      BY <2>2, <3>1, <3>2 DEF AllRight
    <3>4. Audit!Current(pending[i].arg) = Audit!Matching(verdicts, pending[i].arg)
      BY DEF Audit!Current, newest
    <3> HIDE DEF verdicts
    <3> QED BY <3>3, <3>4
  <2> HIDE DEF reply
  <2>5. /\ Queue'
        /\ DOMAIN pending' = DOMAIN pending
        /\ pending'[i] = [op |-> pending[i].op, arg |-> pending[i].arg,
                          stage |-> "done", reply |-> reply]
        /\ \A j \in DOMAIN pending \ {i} : pending'[j] = pending[j]
        /\ inOrder' => inOrder
        /\ ~failures' => ~failures
    BY <1>2, <2>1, Serves
  <2> QED BY <2>1, <2>3, <2>4, <2>5, AuditTurns
<1>7. CASE Audit!TimelineFails(i)
  <2>1. Serve(i, "failed", None) /\ UNCHANGED timeline
    BY <1>1, <1>7 DEF Audit!TimelineFails, Audit!Fails, Audit!auditVars, timeline
  <2>2. /\ Queue'
        /\ DOMAIN pending' = DOMAIN pending
        /\ pending'[i] = [op |-> pending[i].op, arg |-> pending[i].arg,
                          stage |-> "failed", reply |-> None]
        /\ \A j \in DOMAIN pending \ {i} : pending'[j] = pending[j]
        /\ inOrder' => inOrder
        /\ ~failures' => ~failures
    BY <1>2, <2>1, Serves
  <2> QED BY <2>1, <2>2, AuditTurns
<1> QED BY <1>3, <1>4, <1>5, <1>6, <1>7

\* Something is anchored.
LEMMA AuditAnchored ==
    ASSUME AuditInv, NEW e \in Readings \cup Actions, Audit!Anchored(e)
    PROVE  AuditInv'
<1>1. /\ chain' = <<e>> \o chain /\ stale' = TRUE /\ moved' = TRUE
      /\ UNCHANGED <<pending, inOrder, failures, record, events, filters, cards>>
  BY DEF Audit!Anchored
<1>2. chain' \in Seq(Readings \cup Actions)
  <2>1. <<e>> \in Seq(Readings \cup Actions) /\ chain \in Seq(Readings \cup Actions)
    BY DEF AuditInv
  <2> QED BY <1>1, <2>1, ConcatProperties
<1>3. Queue' /\ record' \in [Readings -> Audit!Records]
  BY <1>1 DEF AuditInv, Queue, Failed
<1>4. VerdictsInv'
  BY <1>1 DEF AuditInv, VerdictsInv, AllRight, AllChecked, Right, Item, Audit!Records
<1>5. TimelineInv' /\ CardsInv' /\ ShownInv'
  BY <1>1 DEF AuditInv, TimelineInv, CardsInv, ShownInv, Latest, NoneOf
<1> QED BY <1>2, <1>3, <1>4, <1>5 DEF AuditInv

\* A document is written: what the audit has found of it is crossed.
LEMMA AuditTampered ==
    ASSUME AuditInv, NEW r \in Readings, Audit!Tamper(r)
    PROVE  AuditInv'
<1>1. PICK now \in Audit!Records : record' = [record EXCEPT ![r] = now]
  BY DEF Audit!Tamper
<1> DEFINE Crossed(items) == [k \in DOMAIN items |->
                                IF items[k].event = r /\ items[k].stage = "found"
                                THEN [items[k] EXCEPT !.crossed = TRUE] ELSE items[k]]
           Turned(request) == IF request.stage # "checking" THEN request
                              ELSE [request EXCEPT !.reply = Crossed(request.reply)]
<1>2. /\ pending' = [i \in DOMAIN pending |-> Turned(pending[i])]
      /\ stale' = TRUE /\ moved' = TRUE
      /\ UNCHANGED <<inOrder, failures, chain, events, filters, cards>>
  BY DEF Audit!Tamper
<1>3. IsRequests(pending) /\ VerdictsInv /\ record \in [Readings -> Audit!Records]
  BY DEF AuditInv, Queue
<1>4. DOMAIN pending' = DOMAIN pending
  BY <1>2
<1>5. ASSUME NEW i \in DOMAIN pending
      PROVE  /\ Entry(pending'[i])
             /\ pending'[i].op = pending[i].op /\ pending'[i].arg = pending[i].arg
             /\ pending'[i].stage = pending[i].stage
             /\ pending'[i].reply = IF pending[i].stage = "checking"
                                    THEN Crossed(pending[i].reply) ELSE pending[i].reply
  <2>1. Entry(pending[i]) /\ pending'[i] = Turned(pending[i])
    BY <1>2, <1>3 DEF IsRequests
  <2> HIDE DEF Crossed
  <2>2. CASE pending[i].stage # "checking"
    BY <2>1, <2>2
  <2>3. CASE pending[i].stage = "checking"
    <3>1. pending'[i] = [pending[i] EXCEPT !.reply = Crossed(pending[i].reply)]
      BY <2>1, <2>3
    <3>2. pending'[i] = [op |-> pending[i].op, arg |-> pending[i].arg,
                         stage |-> "checking", reply |-> Crossed(pending[i].reply)]
      BY <2>1, <2>3, <3>1 DEF Entry
    <3> QED BY <2>3, <3>2 DEF Entry
  <2> QED BY <2>2, <2>3
<1>6. IsRequests(pending')
  <2> DEFINE S == {pending'[i] : i \in DOMAIN pending}
  <2>1. Len(pending) \in Nat /\ DOMAIN pending = 1..Len(pending)
    BY <1>3, Places
  <2>2. pending' \in [1..Len(pending) -> S]
    BY <1>2, <2>1
  <2>3. pending' \in Seq(S)
    BY <2>1, <2>2, IsASeq
  <2>4. \A j \in DOMAIN pending' : Entry(pending'[j])
    BY <1>4, <1>5
  <2> HIDE DEF S
  <2> QED BY <2>3, <2>4, Gathered
<1>7. Queue'
  BY <1>2, <1>4, <1>5, <1>6 DEF AuditInv, Queue, Failed
<1>8. record' \in [Readings -> Audit!Records] /\ chain' \in Seq(Readings \cup Actions)
  BY <1>1, <1>2, <1>3 DEF AuditInv
<1>9. ASSUME NEW item, Right(item), item.stage # "found" \/ item.event # r
      PROVE  Right(item)'
  BY <1>1, <1>3, <1>9 DEF Right, Item, Audit!Records
<1>10. ASSUME NEW item, Right(item), item.stage = "found" PROVE Right([item EXCEPT !.crossed = TRUE])'
  <2> DEFINE next == [item EXCEPT !.crossed = TRUE]
  <2>1. item \in Item /\ item.event \in Readings
    BY <1>10 DEF Right
  <2>2. /\ next \in Item /\ next.event = item.event /\ next.stage = "found"
        /\ next.record = item.record /\ next.status = item.status /\ next.crossed = TRUE
    BY <1>10, <2>1 DEF Item
  <2> HIDE DEF next
  <2>3. Right(next)'
    BY <1>10, <2>2 DEF Right, Item, Audit!Records
  <2> QED BY <2>3 DEF next
<1>11. ASSUME NEW items, AllRight(items) PROVE AllRight(Crossed(items))'
  <2> DEFINE next == Crossed(items)
  <2>1. DOMAIN next = DOMAIN items /\ next = [k \in DOMAIN items |-> next[k]]
    OBVIOUS
  <2>2. ASSUME NEW k \in DOMAIN items PROVE Right(next[k])'
    <3>1. Right(items[k])
      BY <1>11 DEF AllRight
    <3>2. CASE items[k].event = r /\ items[k].stage = "found"
      BY <1>10, <3>1, <3>2
    <3>3. CASE ~(items[k].event = r /\ items[k].stage = "found")
      BY <1>9, <3>1, <3>3
    <3> QED BY <3>2, <3>3
  <2> HIDE DEF next
  <2>3. next \in [DOMAIN next -> Item']
    BY <2>1, <2>2 DEF Right
  <2> QED BY <2>1, <2>2, <2>3 DEF AllRight, next
<1>12. ASSUME NEW items, AllRight(items), AllChecked(items) PROVE AllRight(items)'
  BY <1>9, <1>12 DEF AllRight, AllChecked, Item, Audit!Records
<1>13. VerdictsInv'
  <2>1. AllRight(events)' /\ AllChecked(events)' /\ AllRight(cards)' /\ AllChecked(cards)'
    BY <1>2, <1>3, <1>12 DEF VerdictsInv, AllRight, AllChecked
  <2>2. ASSUME NEW i \in DOMAIN pending, NEW items, items = pending[i].reply,
               NEW later, later = pending'[i].reply
        PROVE  /\ pending'[i].stage \in {"checking", "done"} => AllRight(later)'
               /\ pending'[i].stage = "done" => AllChecked(later)'
    <3>1. CASE pending[i].stage = "checking"
      <4>1. AllRight(items) /\ later = Crossed(items) /\ pending'[i].stage = "checking"
        BY <1>3, <1>5, <2>2, <3>1 DEF VerdictsInv
      <4> QED BY <1>11, <4>1
    <3>2. CASE pending[i].stage = "done"
      <4>1. AllRight(items) /\ AllChecked(items) /\ later = items
        BY <1>3, <1>5, <2>2, <3>2 DEF VerdictsInv
      <4> QED BY <1>12, <4>1 DEF AllChecked
    <3>3. CASE pending[i].stage \notin {"checking", "done"}
      BY <1>5, <3>3
    <3> QED BY <3>1, <3>2, <3>3
  <2> QED BY <1>4, <2>1, <2>2 DEF VerdictsInv, AllRight, AllChecked
<1>14. TimelineInv' /\ CardsInv' /\ ShownInv'
  BY <1>2, <1>4, <1>5 DEF AuditInv, TimelineInv, CardsInv, ShownInv, Latest, NoneOf
<1> QED BY <1>7, <1>8, <1>13, <1>14 DEF AuditInv

\* The page asks for the timeline under its filters.
LEMMA AuditFetches ==
    ASSUME AuditInv, Send(<<Ask("timeline", filters')>>), stale' = FALSE,
           UNCHANGED <<chain, record, events, cards, moved>>
    PROVE  AuditInv'
<1>1. PICK last : /\ Queue' /\ last \in DOMAIN pending' \ DOMAIN pending
                  /\ pending'[last] = Ask("timeline", filters')
                  /\ \A j \in DOMAIN pending : j \in DOMAIN pending' /\ pending'[j] = pending[j]
                  /\ \A j \in DOMAIN pending' : j \in DOMAIN pending \/ j = last
                  /\ inOrder' = inOrder /\ failures' = failures
  BY SentOne DEF AuditInv
<1>2. /\ pending'[last].op = "timeline" /\ pending'[last].arg = filters'
      /\ pending'[last].stage = "sent"
  BY <1>1 DEF Ask
<1>3. PICK k \in DOMAIN pending' : Latest(k, "timeline")' /\ pending'[k] = Ask("timeline", filters')
  BY LatestAsked DEF AuditInv
<1>4. /\ VerdictsInv /\ CardsInv /\ ShownInv
      /\ chain' \in Seq(Readings \cup Actions) /\ record' \in [Readings -> Audit!Records]
  BY DEF AuditInv
<1>5. /\ newest' = newest
      /\ \A items : AllRight(items)' <=> AllRight(items)
      /\ \A items : AllChecked(items)' <=> AllChecked(items)
      /\ \A item, e : Now(item, e)' <=> Now(item, e)
      /\ \A name : Audit!Current(name)' = Audit!Current(name)
  BY SameEvents
<1>6. VerdictsInv'
  <2>1. AllRight(events)' /\ AllChecked(events)' /\ AllRight(cards)' /\ AllChecked(cards)'
    BY <1>4, <1>5 DEF VerdictsInv, AllRight, AllChecked
  <2>2. ASSUME NEW j \in DOMAIN pending'
        PROVE  /\ pending'[j].stage \in {"checking", "done"} => AllRight(pending'[j].reply)
               /\ pending'[j].stage = "done" => AllChecked(pending'[j].reply)
    BY <1>1, <1>2, <1>4 DEF VerdictsInv
  <2>3. ASSUME NEW j \in DOMAIN pending'
        PROVE  /\ pending'[j].stage \in {"checking", "done"} => AllRight(pending[j].reply)'
               /\ pending'[j].stage = "done" => AllChecked(pending[j].reply)'
    BY <1>5, <2>2 DEF AllRight, AllChecked
  <2> QED BY <2>1, <2>3 DEF VerdictsInv
<1>7. TimelineInv'
  <2> SUFFICES ASSUME NEW j \in DOMAIN pending', Latest(j, "timeline")'
               PROVE  pending'[j].arg = filters' /\ UpToDate(j)'
    BY DEF TimelineInv
  <2>1. j = k
    <3>1. j \in Nat /\ k \in Nat
      BY <1>1, Places DEF Queue
    <3>2. ~(j > k) /\ ~(k > j)
      BY <1>2, <1>3 DEF Latest, Ask
    <3> QED BY <3>1, <3>2
  <2> QED BY <1>3, <2>1 DEF UpToDate, Ask
<1>8. CardsInv'
  <2>1. ASSUME NEW j \in DOMAIN pending', pending'[j].op = "cards"
        PROVE  j \in DOMAIN pending /\ pending'[j] = pending[j]
    BY <1>1, <1>2, <2>1
  <2>2. ASSUME NEW j \in DOMAIN pending, UpToDate(j) PROVE UpToDate(j)'
    BY <1>1, <1>5, <2>2 DEF UpToDate
  <2> QED BY <1>4, <2>1, <2>2 DEF CardsInv
<1>9. ShownInv'
  <2>1. ~NoneOf("timeline")'
    BY <1>1, <1>2 DEF NoneOf
  <2>2. NoneOf("cards")' => NoneOf("cards")
    BY <1>1 DEF NoneOf
  <2> QED BY <1>1, <1>4, <1>5, <2>1, <2>2 DEF ShownInv
<1> QED BY <1>1, <1>4, <1>6, <1>7, <1>8, <1>9 DEF AuditInv

\* A timeline reaches the page.
LEMMA AuditReceives ==
    ASSUME AuditInv, NEW i \in DOMAIN pending, Audit!TimelineArrives(i) \/ Audit!CardsArrive(i)
    PROVE  AuditInv'
<1> DEFINE items == IF Failed(i) THEN <<>> ELSE pending[i].reply
<1>1. /\ Receive(i, <<>>) /\ UNCHANGED <<chain, record, filters, stale, moved>>
      /\ \/ pending[i].op = "timeline" /\ events' = items /\ cards' = cards
         \/ pending[i].op = "cards" /\ cards' = items /\ events' = events
  <2>1. Audit!Receive(i, <<>>) => Receive(i, <<>>)
    BY DEF Audit!Receive, Receive, Audit!Over, Over, Audit!Without, Without
  <2> QED BY <2>1 DEF Audit!TimelineArrives, Audit!CardsArrive, Audit!Timeline,
                      Audit!Failed, Failed
<1>2. /\ Queue /\ VerdictsInv /\ TimelineInv /\ CardsInv /\ ShownInv
      /\ chain' \in Seq(Readings \cup Actions) /\ record' \in [Readings -> Audit!Records]
  BY <1>1 DEF AuditInv
<1>3. /\ Queue'
      /\ DOMAIN pending' = 1..(Len(pending) - 1)
      /\ \A j \in DOMAIN pending' :
            Before(i, j) \in DOMAIN pending \ {i} /\ pending'[j] = pending[Before(i, j)]
      /\ inOrder' => inOrder /\ i = 1
      /\ failures' = failures
  BY <1>1, <1>2, ReceivesNothing
<1>4. /\ \A k \in DOMAIN pending \ {i} : \E j \in DOMAIN pending' : pending'[j] = pending[k]
      /\ \A j, k \in DOMAIN pending' : Before(i, j) = Before(i, k) => j = k
      /\ i = 1 => \A k \in DOMAIN pending \ {i} : k - 1 \in DOMAIN pending'
                                                 /\ pending'[k - 1] = pending[k]
  <2>1. PICK more : more = <<>>
    OBVIOUS
  <2>2. Fresh(more) /\ Receive(i, more)
    BY <1>1, <2>1, NoneSent
  <2>3. /\ \A k \in DOMAIN pending \ {i} : \E j \in DOMAIN pending' : pending'[j] = pending[k]
        /\ \A j, k \in 1..(Len(pending) - 1) : Before(i, j) = Before(i, k) => j = k
        /\ i = 1 => \A k \in DOMAIN pending \ {i} : k - 1 \in DOMAIN pending'
                                                   /\ pending'[k - 1] = pending[k]
    BY <1>2, <2>2, Remains
  <2> QED BY <1>3, <2>3
<1>5. /\ newest' = newest
      /\ \A all : AllRight(all)' <=> AllRight(all)
      /\ \A all : AllChecked(all)' <=> AllChecked(all)
      /\ \A item, e : Now(item, e)' <=> Now(item, e)
      /\ \A name : Audit!Current(name)' = Audit!Current(name)
  BY <1>1, SameEvents
<1>6. ~Failed(i) => pending[i].stage = "done"
  BY <1>1 DEF Receive, Over, Failed
<1>7. AllRight(items) /\ AllChecked(items)
  BY <1>2, <1>6, NoEvents DEF VerdictsInv
<1> HIDE DEF items
<1>8. VerdictsInv'
  <2>1. AllRight(events)' /\ AllChecked(events)' /\ AllRight(cards)' /\ AllChecked(cards)'
    BY <1>1, <1>2, <1>5, <1>7 DEF VerdictsInv, AllRight, AllChecked
  <2>2. ASSUME NEW j \in DOMAIN pending'
        PROVE  /\ pending'[j].stage \in {"checking", "done"} => AllRight(pending'[j].reply)
               /\ pending'[j].stage = "done" => AllChecked(pending'[j].reply)
    BY <1>2, <1>3 DEF VerdictsInv
  <2>3. ASSUME NEW j \in DOMAIN pending'
        PROVE  /\ pending'[j].stage \in {"checking", "done"} => AllRight(pending[j].reply)'
               /\ pending'[j].stage = "done" => AllChecked(pending[j].reply)'
    BY <1>5, <2>2 DEF AllRight, AllChecked
  <2> QED BY <2>1, <2>3 DEF VerdictsInv
<1>9. ASSUME NEW j \in DOMAIN pending', NEW k \in DOMAIN pending, pending'[j] = pending[k],
             UpToDate(k)
      PROVE  UpToDate(j)'
  BY <1>5, <1>9 DEF UpToDate
<1>10. TimelineInv'
  <2> SUFFICES ASSUME inOrder', NEW j \in DOMAIN pending', Latest(j, "timeline")'
               PROVE  pending'[j].arg = filters' /\ (~stale' => UpToDate(j)')
    BY DEF TimelineInv
  <2>1. i = 1 /\ inOrder /\ Before(i, j) = j + 1 /\ j \in Nat /\ DOMAIN pending = 1..Len(pending)
        /\ j + 1 \in DOMAIN pending /\ pending'[j] = pending[j + 1]
    BY <1>2, <1>3, QueuePlaces DEF Before
  <2>2. ASSUME NEW k \in DOMAIN pending, k > j + 1 PROVE pending[k].op # "timeline"
    <3>1. k - 1 \in DOMAIN pending' /\ pending'[k - 1] = pending[k] /\ k - 1 > j
      BY <1>2, <1>4, <2>1, <2>2, QueuePlaces
    <3> QED BY <3>1 DEF Latest
  <2>3. Latest(j + 1, "timeline")
    BY <2>1, <2>2 DEF Latest
  <2> QED BY <1>1, <1>2, <1>9, <2>1, <2>3 DEF TimelineInv
<1>11. CardsInv'
  <2> SUFFICES ASSUME NEW j \in DOMAIN pending', pending'[j].op = "cards"
               PROVE  /\ pending'[j].arg = "ALL"
                      /\ \A k \in DOMAIN pending' : pending'[k].op = "cards" => j = k
                      /\ ~moved' => UpToDate(j)'
    BY DEF CardsInv
  <2>1. Before(i, j) \in DOMAIN pending /\ pending'[j] = pending[Before(i, j)]
    BY <1>3
  <2>2. ASSUME NEW k \in DOMAIN pending', pending'[k].op = "cards" PROVE j = k
    BY <1>2, <1>3, <1>4, <2>1, <2>2 DEF CardsInv
  <2> QED BY <1>1, <1>2, <1>9, <2>1, <2>2 DEF CardsInv
<1>12. ShownInv'
  <2> SUFFICES ASSUME inOrder', ~failures'
               PROVE  /\ NoneOf("timeline")' /\ ~stale' => events' = Audit!Current(filters)'
                      /\ NoneOf("cards")' /\ ~moved' => cards' = Audit!Current("ALL")'
    BY DEF ShownInv
  <2>1. inOrder /\ ~failures /\ i = 1 /\ items = pending[i].reply /\ pending[i].stage = "done"
    BY <1>2, <1>3, <1>6 DEF items, Queue
  <2>2. ASSUME NEW op, NoneOf(op)', NEW k \in DOMAIN pending, pending[k].op = op PROVE k = i
    BY <1>4, <2>2 DEF NoneOf
  <2>3. ASSUME NoneOf("timeline")', ~stale' PROVE events' = Audit!Current(filters)'
    <3>1. CASE pending[i].op = "timeline"
      <4>1. Latest(i, "timeline")
        BY <1>2, <2>1, <2>2, <2>3, <3>1, QueuePlaces DEF Latest
      <4>2. pending[i].arg = filters /\ pending[i].reply = Audit!Current(pending[i].arg)
        BY <1>1, <1>2, <2>1, <2>3, <4>1 DEF TimelineInv, UpToDate
      <4> QED BY <1>1, <1>5, <2>1, <3>1, <4>2
    <3>2. CASE pending[i].op = "cards"
      <4>1. NoneOf("timeline")
        BY <2>2, <2>3, <3>2 DEF NoneOf
      <4> QED BY <1>1, <1>2, <1>5, <2>1, <2>3, <3>2, <4>1 DEF ShownInv
    <3> QED BY <1>1, <3>1, <3>2
  <2>4. ASSUME NoneOf("cards")', ~moved' PROVE cards' = Audit!Current("ALL")'
    <3>1. CASE pending[i].op = "cards"
      <4>1. pending[i].reply = Audit!Current("ALL")
        BY <1>1, <1>2, <2>1, <2>4, <3>1 DEF CardsInv, UpToDate
      <4> QED BY <1>1, <1>5, <2>1, <3>1, <4>1
    <3>2. CASE pending[i].op = "timeline"
      <4>1. NoneOf("cards")
        BY <2>2, <2>4, <3>2 DEF NoneOf
      <4> QED BY <1>1, <1>2, <1>5, <2>1, <2>4, <3>2, <4>1 DEF ShownInv
    <3> QED BY <1>1, <3>1, <3>2
  <2> QED BY <2>3, <2>4
<1> QED BY <1>2, <1>3, <1>8, <1>10, <1>11, <1>12 DEF AuditInv

LEMMA AuditStep == AuditInv /\ Audit!AuditNext => AuditInv'
<1> SUFFICES ASSUME AuditInv, Audit!AuditNext PROVE AuditInv'
  OBVIOUS
<1>1. ASSUME NEW name, Audit!Fetch(name), filters' = name,
             UNCHANGED <<chain, record, events, cards, moved>>
      PROVE  AuditInv'
  <2>1. Send(<<Ask("timeline", filters')>>) /\ stale' = FALSE
    BY <1>1 DEF Audit!Fetch, Audit!Send, Send, Audit!Ask, Ask
  <2> QED BY <1>1, <2>1, AuditFetches
<1>2. CASE Audit!AuditServed
  BY <1>2, AuditServes DEF Audit!AuditServed
<1>3. CASE \E i \in DOMAIN pending : Audit!TimelineArrives(i) \/ Audit!CardsArrive(i)
  BY <1>3, AuditReceives
<1>4. CASE \E e \in Readings \cup Actions : Audit!Anchored(e)
  BY <1>4, AuditAnchored
<1>5. CASE \E r \in Readings : Audit!Tamper(r)
  BY <1>5, AuditTampered
<1>6. CASE Audit!handleFilterChange
  BY <1>1, <1>6 DEF Audit!handleFilterChange, Audit!AfterFilterChange
<1>7. CASE Audit!handleClearFilters
  BY <1>1, <1>7 DEF Audit!handleClearFilters, Audit!AfterFilterChange
<1>8. CASE Audit!Synchronise
  BY <1>1, <1>8 DEF Audit!Synchronise
<1> QED BY <1>2, <1>3, <1>4, <1>5, <1>6, <1>7, <1>8 DEF Audit!AuditNext

LEMMA AuditRests == AuditInv /\ UNCHANGED <<requestVars, timeline>> => AuditInv'
<1> SUFFICES ASSUME AuditInv, UNCHANGED <<requestVars, timeline>> PROVE AuditInv'
  OBVIOUS
<1>1. UNCHANGED <<pending, inOrder, failures, chain, record, events, filters, cards, stale, moved>>
  BY DEF requestVars, timeline
<1>2. Queue' /\ chain' \in Seq(Readings \cup Actions) /\ record' \in [Readings -> Audit!Records]
  BY <1>1 DEF AuditInv, Queue, Failed, Audit!Records
<1>3. /\ newest' = newest
      /\ \A items : AllRight(items)' <=> AllRight(items)
      /\ \A items : AllChecked(items)' <=> AllChecked(items)
      /\ \A item, e : Now(item, e)' <=> Now(item, e)
      /\ \A name : Audit!Current(name)' = Audit!Current(name)
  BY <1>1, SameEvents
<1>4. VerdictsInv'
  BY <1>1, <1>3 DEF AuditInv, VerdictsInv, AllRight, AllChecked
<1>5. ASSUME NEW j \in DOMAIN pending, UpToDate(j) PROVE UpToDate(j)'
  BY <1>1, <1>3, <1>5 DEF UpToDate
<1>6. TimelineInv' /\ CardsInv'
  BY <1>1, <1>5 DEF AuditInv, TimelineInv, CardsInv, Latest
<1>7. ShownInv'
  BY <1>1, <1>3 DEF AuditInv, ShownInv, NoneOf
<1> QED BY <1>2, <1>4, <1>6, <1>7 DEF AuditInv

LEMMA AuditPromises == AuditInv => Audit!VerdictsAreRight /\ Audit!TimelineAgrees
<1>1. ASSUME NEW item, Right(item), item.stage = "checked"
      PROVE  ~item.crossed => (item.status = "DISCREPANCY" <=> item.record = "altered")
  BY <1>1 DEF Right
<1>2. AuditInv => Audit!VerdictsAreRight
  BY <1>1 DEF AuditInv, VerdictsInv, AllRight, AllChecked, Audit!VerdictsAreRight
<1>3. Audit!Quiet => DOMAIN pending = {}
  BY DEF Audit!Quiet
<1>4. AuditInv => Audit!TimelineAgrees
  BY <1>3 DEF AuditInv, ShownInv, NoneOf, Audit!TimelineAgrees
<1> QED BY <1>2, <1>4

-----------------------------------------------------------------------------
(* EcosystemsPage                                                           *)

Exists == Ecosystems!Existing
Known == Exists \cup {Lent}
Roles == Ecosystems!AccessRoles
Rows == [Owned -> {None} \cup [Guests -> Ecosystems!Accesses]]

\* the ecosystems of a list
Of(list) == {v.eco : v \in list}

Guested(arg) == arg.eco \in Exists /\ arg.guest \in Guests

\* Whatever the page names exists, since it was in a list once.
NamesInv ==
    /\ access \in Rows /\ lentToMe \in BOOLEAN /\ overlapped \in BOOLEAN
    /\ activeTab \in {"my-ecosystems", "shared-with-me"}
    /\ Of(mine) \subseteq Known /\ Of(shared) \subseteq Known /\ Of(visibleEcosystems) \subseteq Known
    /\ shareModal # None => shareModal \in Exists
    /\ confirm # None => Guested(confirm) /\ confirm.action \in {"revoke"} \cup Roles

RequestInv(r) ==
    /\ r.op \in {"share", "revoke", "role"} => Guested(r.arg)
    /\ r.op = "role" => r.arg.action \in Roles
    /\ r.op = "create" => r.arg.eco \in Owned
    /\ r.op \in {"mine", "shared"} /\ r.stage = "done" => Of(r.reply) \subseteq Known
    /\ r.stage \in {"sent", "done", "failed"}

RequestsInv == \A i \in DOMAIN pending : RequestInv(pending[i])

EcosystemsTypes == Queue /\ NamesInv /\ RequestsInv

LEMMA AccessChanges ==
    ASSUME access \in Rows, NEW e \in Exists, NEW g \in Guests, NEW r \in Ecosystems!Accesses,
           access' = [access EXCEPT ![e][g] = r]
    PROVE  /\ access' \in Rows /\ Exists' = Exists
           /\ \A o \in Owned \ {e} : access'[o] = access[o]
           /\ (access[e][g] \in Roles <=> r \in Roles) /\ lentToMe' = lentToMe =>
                 Ecosystems!MyEcosystems' = Ecosystems!MyEcosystems
<1>1. e \in Owned /\ access[e] # None /\ access[e] \in [Guests -> Ecosystems!Accesses]
  BY DEF Exists, Ecosystems!Existing, Rows
<1>2. /\ access'[e] = [access[e] EXCEPT ![g] = r]
      /\ \A o \in Owned \ {e} : access'[o] = access[o]
      /\ DOMAIN access' = Owned /\ access' = [o \in Owned |-> access'[o]]
  BY <1>1 DEF Rows
<1>3. access'[e] \in [Guests -> Ecosystems!Accesses] /\ access'[e] # None
  BY <1>1, <1>2, EcosystemsAssumption
<1>4. access' \in [Owned -> {None} \cup [Guests -> Ecosystems!Accesses]]
  BY <1>2, <1>3 DEF Rows
<1>5. access' \in Rows
  BY <1>4 DEF Rows, Ecosystems!Accesses, Ecosystems!AccessRoles
<1>6. Exists' = Exists
  BY <1>1, <1>2, <1>3 DEF Exists, Ecosystems!Existing
<1>7. ASSUME access[e][g] \in Roles <=> r \in Roles, lentToMe' = lentToMe
      PROVE  Ecosystems!MyEcosystems' = Ecosystems!MyEcosystems
  <2>1. ASSUME NEW o \in Exists PROVE Ecosystems!SharedBy(o)' = Ecosystems!SharedBy(o)
    <3>1. CASE o # e
      BY <1>2, <2>1, <3>1 DEF Ecosystems!SharedBy, Exists, Ecosystems!Existing
    <3>2. CASE o = e
      <4>1. /\ access'[e][g] = r
            /\ \A h \in Guests \ {g} : access'[e][h] = access[e][h]
        BY <1>1, <1>2
      <4>2. ASSUME NEW h \in Guests PROVE access'[e][h] \in Roles <=> access[e][h] \in Roles
        BY <1>7, <4>1
      <4>3. Ecosystems!SharedBy(e)' <=> Ecosystems!SharedBy(e)
        BY <4>2 DEF Ecosystems!SharedBy, Roles
      <4> QED BY <3>2, <4>3 DEF Ecosystems!SharedBy
    <3> QED BY <3>1, <3>2
  <2> DEFINE rows == {[eco |-> o, isShared |-> Ecosystems!SharedBy(o)] : o \in Exists}
  <2>2. rows' = rows
    <3>1. \A o \in Exists : [eco |-> o, isShared |-> Ecosystems!SharedBy(o)]'
                            = [eco |-> o, isShared |-> Ecosystems!SharedBy(o)]
      BY <2>1
    <3>2. ASSUME NEW v \in rows' PROVE v \in rows
      BY <1>6, <3>1, Zenon
    <3>3. ASSUME NEW v \in rows PROVE v \in rows'
      BY <1>6, <3>1, Zenon
    <3> QED BY <3>2, <3>3
  <2>3. Ecosystems!MyEcosystems =
            rows \cup (IF lentToMe THEN {[eco |-> Lent, isShared |-> TRUE]} ELSE {})
    BY Zenon DEF Ecosystems!MyEcosystems, Exists
  <2>4. Ecosystems!MyEcosystems' =
            rows' \cup (IF lentToMe' THEN {[eco |-> Lent, isShared |-> TRUE]} ELSE {})
    BY Zenon DEF Ecosystems!MyEcosystems, Exists
  <2> HIDE DEF rows
  <2> QED BY <1>7, <2>2, <2>3, <2>4
<1> QED BY <1>2, <1>5, <1>6, <1>7

LEMMA ListsKnown ==
    Of(Ecosystems!MyEcosystems) \subseteq Known /\ Of(Ecosystems!SharedWithMe) \subseteq Known
  BY DEF Of, Known, Exists, Ecosystems!MyEcosystems, Ecosystems!SharedWithMe

\* A request is served: what may have changed.
Turn(i, stage, reply) ==
    /\ pending[i].stage = "sent" /\ stage \in {"done", "failed"}
    /\ Serve(i, stage, reply)
    /\ UNCHANGED <<activeTab, mine, shared, visibleEcosystems, shareModal, sharedUsers, confirm,
                   overlapped, others>>
    /\ access' \in Rows /\ lentToMe' \in BOOLEAN /\ Exists \subseteq Exists'
    /\ pending[i].op \notin {"revoke", "create", "leave"} =>
          Ecosystems!MyEcosystems' = Ecosystems!MyEcosystems
    /\ pending[i].op # "leave" => lentToMe' = lentToMe
    /\ pending[i].op = "leave" /\ stage = "done" =>
          pending[i].arg.eco = Lent /\ access' = access /\ lentToMe' = FALSE
    /\ stage = "done" =>
          /\ pending[i].op = "mine" => reply = Ecosystems!MyEcosystems
          /\ pending[i].op = "shared" => reply = Ecosystems!SharedWithMe
          /\ pending[i].op = "users" => reply = access[pending[i].arg.eco]
    /\ pending[i].op \in {"share", "revoke", "role"} \/ \A e \in Exists : access'[e] = access[e]

LEMMA EcosystemsTurns ==
    ASSUME EcosystemsTypes, NEW i \in DOMAIN pending, Ecosystems!EcosystemsServed(i)
    PROVE  \E stage, reply : Turn(i, stage, reply)
<1> DEFINE arg == pending[i].arg
<1> USE DEF Ecosystems!lists, Ecosystems!sharing, Ecosystems!disabled
<1>1. \A stage, reply : Ecosystems!Serve(i, stage, reply) => Serve(i, stage, reply)
  BY DEF Ecosystems!Serve, Serve, Ecosystems!Over, Over
<1>2. /\ access \in Rows /\ lentToMe \in BOOLEAN
      /\ pending[i].op \in {"share", "revoke", "role"} => arg.eco \in Exists /\ arg.guest \in Guests
      /\ pending[i].op = "role" => arg.action \in Roles
      /\ pending[i].op = "create" => arg.eco \in Owned
  BY DEF EcosystemsTypes, NamesInv, RequestsInv, RequestInv, Guested
<1>3. UNCHANGED <<activeTab, mine, shared, visibleEcosystems, shareModal, sharedUsers, confirm,
                  overlapped, others>>
  BY DEF Ecosystems!EcosystemsServed
<1>4. ASSUME UNCHANGED <<access, lentToMe>>
      PROVE  /\ access' \in Rows /\ lentToMe' \in BOOLEAN /\ Exists' = Exists
             /\ Ecosystems!MyEcosystems' = Ecosystems!MyEcosystems
             /\ \A e \in Exists : access'[e] = access[e]
  BY <1>2, <1>4 DEF Rows, Exists, Ecosystems!Existing, Ecosystems!MyEcosystems,
                    Ecosystems!SharedBy, Ecosystems!Accesses, Ecosystems!AccessRoles
<1>5. CASE Ecosystems!EcosystemsWrite(i)
  <2>1. PICK stage, reply : Serve(i, stage, reply) /\ stage \in {"done", "failed"}
    BY <1>1, <1>5 DEF Ecosystems!EcosystemsWrite, Ecosystems!Done, Ecosystems!Fails
  <2>2. lentToMe' = lentToMe /\ pending[i].stage = "sent"
    BY <1>5 DEF Ecosystems!EcosystemsWrite, Ecosystems!Waiting
  <2>3. CASE pending[i].op = "share" /\ Ecosystems!Grant(arg.eco, arg.guest)
    <3>1. /\ access' \in Rows /\ Exists' = Exists
          /\ Ecosystems!MyEcosystems' = Ecosystems!MyEcosystems
      <4>1. "PENDING" \in Ecosystems!Accesses /\ "PENDING" \notin Roles /\ "none" \notin Roles
        BY DEF Ecosystems!Accesses, Ecosystems!AccessRoles, Roles
      <4>2. access[arg.eco][arg.guest] = "none"
            /\ access' = [access EXCEPT ![arg.eco][arg.guest] = "PENDING"]
        BY <2>3 DEF Ecosystems!Grant
      <4>3. access[arg.eco][arg.guest] \in Roles <=> "PENDING" \in Roles
        BY <4>1, <4>2
      <4>4. access \in Rows /\ arg.eco \in Exists /\ arg.guest \in Guests
        BY <1>2, <2>3
      <4> QED BY <2>2, <4>1, <4>2, <4>3, <4>4, AccessChanges
    <3>2. Turn(i, stage, reply)
      BY <1>2, <1>3, <2>1, <2>2, <2>3, <3>1 DEF Turn
    <3> QED BY <3>2
  <2>4. CASE pending[i].op = "revoke" /\ Ecosystems!Revoke(arg.eco, arg.guest)
    <3>1. access' \in Rows /\ Exists' = Exists
      <4>1. "none" \in Ecosystems!Accesses
        BY DEF Ecosystems!Accesses
      <4>2. access' = [access EXCEPT ![arg.eco][arg.guest] = "none"]
        BY <2>4 DEF Ecosystems!Revoke
      <4> QED BY <1>2, <2>2, <2>4, <4>1, <4>2, AccessChanges
    <3>2. Turn(i, stage, reply)
      BY <1>2, <1>3, <2>1, <2>2, <2>4, <3>1 DEF Turn
    <3> QED BY <3>2
  <2>5. CASE pending[i].op = "role" /\ Ecosystems!SetAccessRole(arg.eco, arg.guest, arg.action)
    <3>1. /\ access' \in Rows /\ Exists' = Exists
          /\ Ecosystems!MyEcosystems' = Ecosystems!MyEcosystems
      <4>1. arg.action \in Ecosystems!Accesses
        BY <1>2, <2>5 DEF Ecosystems!Accesses, Roles
      <4>2. access[arg.eco][arg.guest] \in Roles
            /\ access' = [access EXCEPT ![arg.eco][arg.guest] = arg.action]
        BY <2>5 DEF Ecosystems!SetAccessRole, Roles
      <4> QED BY <1>2, <2>2, <2>5, <4>1, <4>2, AccessChanges
    <3>2. Turn(i, stage, reply)
      BY <1>2, <1>3, <2>1, <2>2, <2>5, <3>1 DEF Turn
    <3> QED BY <3>2
  <2>6. CASE pending[i].op = "create" /\ Ecosystems!Create(arg.eco)
    <3>1. /\ access[arg.eco] = None /\ arg.eco \in Owned
          /\ access' = [access EXCEPT ![arg.eco] = [g \in Guests |-> "none"]]
      BY <1>2, <2>6 DEF Ecosystems!Create
    <3>2. [g \in Guests |-> "none"] \in [Guests -> Ecosystems!Accesses]
      BY DEF Ecosystems!Accesses
    <3>3. /\ access' \in [Owned -> {None} \cup [Guests -> Ecosystems!Accesses]]
          /\ \A e \in Owned : access[e] # None => access'[e] = access[e]
      BY <1>2, <3>1, <3>2 DEF Rows
    <3>4. access' \in Rows
      BY <3>3 DEF Rows, Ecosystems!Accesses, Ecosystems!AccessRoles
    <3>5. Exists \subseteq Exists' /\ \A e \in Exists : access'[e] = access[e]
      BY <3>3 DEF Exists, Ecosystems!Existing
    <3>6. Turn(i, stage, reply)
      BY <1>2, <1>3, <2>1, <2>2, <2>6, <3>4, <3>5 DEF Turn
    <3> QED BY <3>6
  <2> QED BY <1>5, <2>3, <2>4, <2>5, <2>6 DEF Ecosystems!EcosystemsWrite, Ecosystems!Waiting
<1>6. CASE Ecosystems!Leave(i)
  <2>1. PICK stage, reply : Serve(i, stage, reply) /\ stage \in {"done", "failed"}
    BY <1>1, <1>6 DEF Ecosystems!Leave, Ecosystems!Done, Ecosystems!Fails
  <2>2. /\ pending[i].op = "leave" /\ pending[i].stage = "sent" /\ arg.eco = Lent
        /\ lentToMe' = FALSE /\ access' = access
    BY <1>6 DEF Ecosystems!Leave, Ecosystems!Waiting
  <2>3. access' \in Rows /\ Exists' = Exists /\ \A e \in Exists : access'[e] = access[e]
    BY <1>2, <2>2 DEF Rows, Exists, Ecosystems!Existing, Ecosystems!Accesses, Ecosystems!AccessRoles
  <2>4. Turn(i, stage, reply)
    BY <1>3, <2>1, <2>2, <2>3 DEF Turn
  <2> QED BY <2>4
<1>7. CASE Ecosystems!EcosystemsRead(i)
  <2>1. UNCHANGED <<access, lentToMe>> /\ pending[i].stage = "sent"
    BY <1>7 DEF Ecosystems!EcosystemsRead, Ecosystems!rowsOfService, Ecosystems!Waiting
  <2>2. ASSUME NEW stage, NEW reply, Serve(i, stage, reply), stage \in {"done", "failed"},
               stage = "done" =>
                  /\ pending[i].op # "leave"
                  /\ pending[i].op = "mine" => reply = Ecosystems!MyEcosystems
                  /\ pending[i].op = "shared" => reply = Ecosystems!SharedWithMe
                  /\ pending[i].op = "users" => reply = access[arg.eco]
        PROVE  Turn(i, stage, reply)
    BY <1>3, <1>4, <2>1, <2>2 DEF Turn
  <2>3. \/ Serve(i, "failed", None)
        \/ pending[i].op = "mine" /\ Serve(i, "done", Ecosystems!MyEcosystems)
        \/ pending[i].op = "shared" /\ Serve(i, "done", Ecosystems!SharedWithMe)
        \/ pending[i].op = "users" /\ Serve(i, "done", access[arg.eco])
    BY <1>1, <1>7 DEF Ecosystems!EcosystemsRead, Ecosystems!Done, Ecosystems!Fails,
                      Ecosystems!Waiting
  <2>4. CASE Serve(i, "failed", None)
    BY <2>2, <2>4
  <2>5. CASE pending[i].op = "mine" /\ Serve(i, "done", Ecosystems!MyEcosystems)
    BY <2>2, <2>5
  <2>6. CASE pending[i].op = "shared" /\ Serve(i, "done", Ecosystems!SharedWithMe)
    BY <2>2, <2>6
  <2>7. CASE pending[i].op = "users" /\ Serve(i, "done", access[arg.eco])
    BY <2>2, <2>7
  <2> QED BY <2>3, <2>4, <2>5, <2>6, <2>7
<1> QED BY <1>5, <1>6, <1>7 DEF Ecosystems!EcosystemsServed

LEMMA TypesServed ==
    ASSUME EcosystemsTypes, NEW i \in DOMAIN pending, NEW stage, NEW reply, Turn(i, stage, reply)
    PROVE  EcosystemsTypes'
<1>1. /\ Queue'
      /\ DOMAIN pending' = DOMAIN pending
      /\ pending'[i] = [op |-> pending[i].op, arg |-> pending[i].arg,
                        stage |-> stage, reply |-> reply]
      /\ \A j \in DOMAIN pending \ {i} : pending'[j] = pending[j]
  BY Serves DEF Turn, EcosystemsTypes
<1>2. /\ pending'[i].op = pending[i].op /\ pending'[i].arg = pending[i].arg
      /\ pending'[i].stage = stage /\ pending'[i].reply = reply
  BY <1>1
<1>3. Exists \subseteq Exists' /\ Known \subseteq Known'
  BY DEF Turn, Known
<1>4. \A arg : Guested(arg) => Guested(arg)'
  BY <1>3 DEF Guested
<1>5. NamesInv'
  BY <1>3, <1>4 DEF EcosystemsTypes, NamesInv, Turn, Of, Roles, Ecosystems!AccessRoles
<1>6. ASSUME NEW j \in DOMAIN pending' PROVE RequestInv(pending[j])'
  <2>1. CASE j = i
    <3>1. RequestInv(pending[i])
      BY DEF EcosystemsTypes, RequestsInv
    <3> QED BY <1>2, <1>3, <1>4, <2>1, <3>1, ListsKnown DEF RequestInv, Turn, Guested
  <2>2. CASE j # i
    <3>1. pending'[j] = pending[j] /\ RequestInv(pending[j])
      BY <1>1, <1>6, <2>2 DEF EcosystemsTypes, RequestsInv
    <3> QED BY <1>3, <1>4, <3>1 DEF RequestInv, Guested, Roles, Ecosystems!AccessRoles, Of
  <2> QED BY <2>1, <2>2
<1>7. RequestsInv'
  BY <1>6 DEF RequestsInv
<1> QED BY <1>1, <1>5, <1>7 DEF EcosystemsTypes

\* What the page sends is well formed; what is left of the requests stays so.
LEMMA TypesSent ==
    ASSUME EcosystemsTypes, NEW op, NEW arg, Send(<<Ask(op, arg)>>), RequestInv(Ask(op, arg)),
           UNCHANGED <<access, lentToMe>>, NamesInv'
    PROVE  EcosystemsTypes'
<1>1. PICK last : /\ Queue' /\ last \in DOMAIN pending' \ DOMAIN pending
                  /\ pending'[last] = Ask(op, arg)
                  /\ \A j \in DOMAIN pending : j \in DOMAIN pending' /\ pending'[j] = pending[j]
                  /\ \A j \in DOMAIN pending' : j \in DOMAIN pending \/ j = last
  BY SentOne DEF EcosystemsTypes
<1>2. Exists' = Exists
  BY DEF Exists, Ecosystems!Existing
<1>3. ASSUME NEW j \in DOMAIN pending' PROVE RequestInv(pending[j])'
  <2>1. RequestInv(pending'[j])
    BY <1>1 DEF EcosystemsTypes, RequestsInv
  <2> QED BY <1>2, <2>1 DEF RequestInv, Guested, Roles, Ecosystems!AccessRoles, Of, Known
<1> QED BY <1>1, <1>3 DEF EcosystemsTypes, RequestsInv

LEMMA TypesReceived ==
    ASSUME EcosystemsTypes, NEW i \in DOMAIN pending, NEW more, Fresh(more), Receive(i, more),
           \A m \in DOMAIN more : RequestInv(more[m]),
           UNCHANGED <<access, lentToMe>>, NamesInv'
    PROVE  EcosystemsTypes'
<1>1. /\ Queue'
      /\ \A j \in DOMAIN pending' :
            \/ \E m \in DOMAIN more : pending'[j] = more[m]
            \/ Before(i, j) \in DOMAIN pending /\ pending'[j] = pending[Before(i, j)]
  BY Receives, Remains DEF EcosystemsTypes
<1>2. Exists' = Exists
  BY DEF Exists, Ecosystems!Existing
<1>3. ASSUME NEW j \in DOMAIN pending' PROVE RequestInv(pending[j])'
  <2>1. RequestInv(pending'[j])
    BY <1>1 DEF EcosystemsTypes, RequestsInv
  <2> QED BY <1>2, <2>1 DEF RequestInv, Guested, Roles, Ecosystems!AccessRoles, Of, Known
<1> QED BY <1>1, <1>3 DEF EcosystemsTypes, RequestsInv

LEMMA TypesKept ==
    ASSUME EcosystemsTypes, UNCHANGED <<pending, inOrder, failures>>, Exists \subseteq Exists', NamesInv'
    PROVE  EcosystemsTypes'
<1>1. Queue'
  BY DEF EcosystemsTypes, Queue, Failed
<1>2. ASSUME NEW j \in DOMAIN pending' PROVE RequestInv(pending[j])'
  BY DEF EcosystemsTypes, RequestsInv, RequestInv, Guested, Roles, Ecosystems!AccessRoles, Of, Known
<1> QED BY <1>1, <1>2 DEF EcosystemsTypes, RequestsInv

\* In order, what has been served was sent before what has not.
Ordered == inOrder =>
    \A i, j \in DOMAIN pending : j < i /\ pending[i].stage # "sent" => Over(j)

\* A list on its way was asked for when nothing was being left, or after.
LeavesFirst == ~overlapped =>
    \A i, j \in DOMAIN pending : pending[i].op = "leave" /\ pending[j].op = "mine" => i < j

Leaving == \E i \in DOMAIN pending : pending[i].op = "leave" /\ pending[i].stage = "sent"

\* One's own ecosystem cannot be left.
NeverLeft == \E i \in DOMAIN pending :
    pending[i].op = "leave" /\ pending[i].stage = "sent" /\ pending[i].arg.eco # Lent

\* Of each list: it will be asked for, or the last answer to it is or will be
\* right, or it is shown as it is.
Coming(op, list) == \E i \in DOMAIN pending :
    Latest(i, op) /\ (pending[i].stage = "sent" \/ pending[i].reply = list)

MineInv ==
    \/ \E i \in DOMAIN pending : pending[i].op \in {"revoke", "create"}
    \/ Coming("mine", Ecosystems!MyEcosystems)
    \/ /\ NoneOf("mine")
       /\ visibleEcosystems = IF Leaving THEN {v \in Ecosystems!MyEcosystems : v.eco # Lent}
                              ELSE Ecosystems!MyEcosystems

SharedInv ==
    \/ \E i \in DOMAIN pending : pending[i].op = "leave"
    \/ Coming("shared", Ecosystems!SharedWithMe)
    \/ NoneOf("shared") /\ visibleEcosystems = Ecosystems!SharedWithMe

Undisturbed == inOrder /\ ~failures /\ ~others /\ ~overlapped

TabInv == Undisturbed =>
    \/ NeverLeft
    \/ activeTab = "my-ecosystems" /\ MineInv
    \/ activeTab = "shared-with-me" /\ SharedInv

ListsInv == Ordered /\ LeavesFirst /\ TabInv

LEMMA SameLists ==
    ASSUME UNCHANGED <<access, lentToMe>>
    PROVE  /\ Exists' = Exists
           /\ Ecosystems!MyEcosystems' = Ecosystems!MyEcosystems
           /\ Ecosystems!SharedWithMe' = Ecosystems!SharedWithMe
  BY DEF Exists, Ecosystems!Existing, Ecosystems!MyEcosystems, Ecosystems!SharedBy,
         Ecosystems!SharedWithMe, Ecosystems!AccessRoles

\* What is left of one's ecosystems without the one that was lent.
LEMMA ListsWithoutLent ==
    ASSUME access' = access, lentToMe' = FALSE
    PROVE  Ecosystems!MyEcosystems' = {v \in Ecosystems!MyEcosystems : v.eco # Lent}
<1>1. \A e \in Ecosystems!Existing : Ecosystems!SharedBy(e)' = Ecosystems!SharedBy(e) /\ e # Lent
  BY EcosystemsAssumption DEF Ecosystems!SharedBy, Ecosystems!Existing, Ecosystems!AccessRoles
<1> DEFINE rows == {[eco |-> e, isShared |-> Ecosystems!SharedBy(e)] : e \in Ecosystems!Existing}
<1>2. rows' = rows
  BY DEF Ecosystems!Existing, Ecosystems!SharedBy, Ecosystems!AccessRoles
<1>3. Ecosystems!MyEcosystems' = rows' /\ Ecosystems!MyEcosystems = rows
            \cup (IF lentToMe THEN {[eco |-> Lent, isShared |-> TRUE]} ELSE {})
  BY Zenon DEF Ecosystems!MyEcosystems
<1>4. \A v \in rows : v.eco # Lent
  BY <1>1
<1> HIDE DEF rows
<1> QED BY <1>2, <1>3, <1>4

LEMMA ListsServed ==
    ASSUME EcosystemsTypes, ListsInv, NEW i \in DOMAIN pending, NEW stage, NEW reply,
           Turn(i, stage, reply)
    PROVE  ListsInv'
<1> DEFINE op == pending[i].op
<1>1. Serve(i, stage, reply) /\ pending[i].stage = "sent" /\ Queue
  BY DEF Turn, EcosystemsTypes
<1>2. /\ DOMAIN pending' = DOMAIN pending
      /\ pending'[i] = [op |-> pending[i].op, arg |-> pending[i].arg,
                        stage |-> stage, reply |-> reply]
      /\ \A j \in DOMAIN pending \ {i} : pending'[j] = pending[j]
      /\ inOrder' => inOrder
      /\ ~failures' => ~failures /\ stage # "failed"
  BY <1>1, Serves
<1>3. /\ pending'[i].op = pending[i].op /\ pending'[i].arg = pending[i].arg
      /\ pending'[i].stage = stage /\ pending'[i].reply = reply
  BY <1>2
<1>4. \A j \in DOMAIN pending : /\ pending'[j].op = pending[j].op
                                /\ pending'[j].arg = pending[j].arg
  BY <1>2, <1>3
<1>5. UNCHANGED <<activeTab, visibleEcosystems, overlapped, others>> /\ stage \in {"done", "failed"}
  BY DEF Turn
<1>6. DOMAIN pending = 1..Len(pending) /\ Len(pending) \in Nat
  BY <1>1, QueuePlaces
<1>7. Ordered'
  <2> SUFFICES ASSUME inOrder', NEW j \in DOMAIN pending', NEW k \in DOMAIN pending',
                      k < j, pending'[j].stage # "sent"
               PROVE  Over(k)'
    BY DEF Ordered
  <2>1. CASE j = i
    <3>1. k \in 1..(i - 1)
      BY <1>2, <1>6, <2>1
    <3>2. \A m \in 1..(i - 1) : Over(m)
      BY <1>1 DEF Serve
    <3>3. k \in DOMAIN pending \ {i}
      BY <1>2, <1>6, <2>1
    <3>4. Over(k) /\ pending'[k] = pending[k]
      BY <1>2, <3>1, <3>2, <3>3
    <3> QED BY <3>4 DEF Over
  <2>2. CASE j # i
    <3>1. Over(k) /\ pending'[j] = pending[j]
      BY <1>2, <2>2 DEF ListsInv, Ordered
    <3>2. k # i
      BY <1>1, <3>1 DEF Over
    <3> QED BY <1>2, <3>1, <3>2 DEF Over
  <2> QED BY <2>1, <2>2
<1>8. LeavesFirst'
  BY <1>2, <1>4, <1>5 DEF ListsInv, LeavesFirst
<1>9. TabInv'
  <2> SUFFICES ASSUME Undisturbed'
               PROVE  \/ NeverLeft'
                      \/ activeTab = "my-ecosystems" /\ MineInv'
                      \/ activeTab = "shared-with-me" /\ SharedInv'
    BY <1>5 DEF TabInv
  <2>1. Undisturbed /\ stage = "done" /\ TabInv /\ inOrder
    BY <1>2, <1>5 DEF Undisturbed, ListsInv
  <2>2. op = "leave" => pending[i].arg.eco = Lent /\ access' = access /\ lentToMe' = FALSE
    BY <2>1 DEF Turn
  <2>3. CASE NeverLeft
    <3>1. PICK k \in DOMAIN pending :
             pending[k].op = "leave" /\ pending[k].stage = "sent" /\ pending[k].arg.eco # Lent
      BY <2>3 DEF NeverLeft
    <3>2. k # i
      BY <2>2, <3>1
    <3> QED BY <1>2, <3>1, <3>2 DEF NeverLeft
  <2>4. CASE activeTab = "my-ecosystems" /\ MineInv
    <3>1. CASE \E k \in DOMAIN pending' : pending'[k].op \in {"revoke", "create"}
      BY <2>4, <3>1 DEF MineInv
    <3>2. CASE ~\E k \in DOMAIN pending' : pending'[k].op \in {"revoke", "create"}
      <4>1. op \notin {"revoke", "create"}
        BY <1>2, <1>4, <3>2
      <4>2. op # "leave" => Ecosystems!MyEcosystems' = Ecosystems!MyEcosystems
        BY <4>1 DEF Turn
      <4>3. CASE Coming("mine", Ecosystems!MyEcosystems)
        <5>1. PICK k \in DOMAIN pending :
                 /\ Latest(k, "mine")
                 /\ pending[k].stage = "sent" \/ pending[k].reply = Ecosystems!MyEcosystems
          BY <4>3 DEF Coming
        <5>2. Latest(k, "mine")'
          BY <1>2, <1>4, <5>1 DEF Latest
        <5>3. CASE k = i
          <6>1. pending'[k].reply = Ecosystems!MyEcosystems'
            BY <1>3, <2>1, <4>2, <5>1, <5>3 DEF Turn, Latest
          <6> QED BY <1>2, <2>4, <5>2, <6>1 DEF MineInv, Coming
        <5>4. CASE k # i /\ pending[k].stage = "sent"
          BY <1>2, <2>4, <5>2, <5>4 DEF MineInv, Coming
        <5>5. CASE k # i /\ pending[k].stage # "sent"
          <6>1. op # "leave"
            <7>1. ASSUME op = "leave" PROVE FALSE
              <8>1. i < k
                BY <2>1, <5>1, <7>1 DEF ListsInv, LeavesFirst, Undisturbed, Latest
              <8>2. Over(i)
                BY <2>1, <5>5, <8>1 DEF ListsInv, Ordered
              <8> QED BY <1>1, <8>2 DEF Over
            <7> QED BY <7>1
          <6>2. pending'[k].reply = Ecosystems!MyEcosystems'
            BY <1>2, <4>2, <5>1, <5>5, <6>1
          <6> QED BY <1>2, <2>4, <5>2, <6>2 DEF MineInv, Coming
        <5> QED BY <5>3, <5>4, <5>5
      <4>4. CASE NoneOf("mine") /\ visibleEcosystems =
                     IF Leaving THEN {v \in Ecosystems!MyEcosystems : v.eco # Lent}
                     ELSE Ecosystems!MyEcosystems
        <5>1. NoneOf("mine")'
          BY <1>2, <1>4, <4>4 DEF NoneOf
        <5>2. visibleEcosystems' = IF Leaving' THEN {v \in Ecosystems!MyEcosystems' : v.eco # Lent}
                                   ELSE Ecosystems!MyEcosystems'
          <6>1. CASE op = "leave"
            <7>1. Leaving
              BY <1>1, <6>1 DEF Leaving
            <7>2. Ecosystems!MyEcosystems' = {v \in Ecosystems!MyEcosystems : v.eco # Lent}
              BY <2>2, <6>1, ListsWithoutLent
            <7>3. visibleEcosystems' = Ecosystems!MyEcosystems'
              BY <1>5, <4>4, <7>1, <7>2
            <7>4. Ecosystems!MyEcosystems' = {v \in Ecosystems!MyEcosystems' : v.eco # Lent}
              BY <7>2
            <7> QED BY <7>3, <7>4
          <6>2. CASE op # "leave"
            <7>1. Leaving' <=> Leaving
              BY <1>2, <1>4, <6>2 DEF Leaving
            <7> QED BY <1>5, <4>2, <4>4, <6>2, <7>1
          <6> QED BY <6>1, <6>2
        <5> QED BY <2>4, <5>1, <5>2 DEF MineInv
      <4> QED BY <1>2, <1>4, <2>4, <3>2, <4>3, <4>4 DEF MineInv
    <3> QED BY <3>1, <3>2
  <2>5. CASE activeTab = "shared-with-me" /\ SharedInv
    <3>1. CASE \E k \in DOMAIN pending' : pending'[k].op = "leave"
      BY <2>5, <3>1 DEF SharedInv
    <3>2. CASE ~\E k \in DOMAIN pending' : pending'[k].op = "leave"
      <4>1. op # "leave"
        BY <1>2, <1>4, <3>2
      <4>2. Ecosystems!SharedWithMe' = Ecosystems!SharedWithMe
        BY <4>1 DEF Turn, Ecosystems!SharedWithMe
      <4>3. CASE Coming("shared", Ecosystems!SharedWithMe)
        <5>1. PICK k \in DOMAIN pending :
                 /\ Latest(k, "shared")
                 /\ pending[k].stage = "sent" \/ pending[k].reply = Ecosystems!SharedWithMe
          BY <4>3 DEF Coming
        <5>2. Latest(k, "shared")'
          BY <1>2, <1>4, <5>1 DEF Latest
        <5>3. pending'[k].stage = "sent" \/ pending'[k].reply = Ecosystems!SharedWithMe'
          <6>1. CASE k = i
            BY <1>3, <2>1, <4>2, <5>1, <6>1 DEF Turn, Latest
          <6>2. CASE k # i
            BY <1>2, <4>2, <5>1, <6>2
          <6> QED BY <6>1, <6>2
        <5> QED BY <1>2, <2>5, <5>2, <5>3 DEF SharedInv, Coming
      <4>4. CASE NoneOf("shared") /\ visibleEcosystems = Ecosystems!SharedWithMe
        <5>1. NoneOf("shared")'
          BY <1>2, <1>4, <4>4 DEF NoneOf
        <5> QED BY <1>5, <2>5, <4>2, <4>4, <5>1 DEF SharedInv
      <4> QED BY <1>2, <1>4, <2>5, <3>2, <4>3, <4>4 DEF SharedInv
    <3> QED BY <3>1, <3>2
  <2> QED BY <2>1, <2>3, <2>4, <2>5 DEF TabInv
<1> QED BY <1>7, <1>8, <1>9 DEF ListsInv

\* What the page asks for when an answer has come.
Asked(more) ==
    more = <<>> \/ \E op \in {"mine", "shared", "users"} : \E arg : more = <<Ask(op, arg)>>

LEMMA AskedKinds ==
    ASSUME NEW more, Asked(more)
    PROVE  /\ Fresh(more)
           /\ \A m \in DOMAIN more : RequestInv(more[m]) /\ more[m].op \in {"mine", "shared", "users"}
           /\ \A op : (\A m \in DOMAIN more : more[m].op # op) \/ \E arg : more = <<Ask(op, arg)>>
<1>1. ASSUME more = <<>> PROVE Fresh(more) /\ DOMAIN more = {}
  BY <1>1, NoneSent
<1>2. ASSUME NEW o \in {"mine", "shared", "users"}, NEW a, more = <<Ask(o, a)>>
      PROVE  /\ Fresh(more)
             /\ \A m \in DOMAIN more : RequestInv(more[m]) /\ more[m].op \in {"mine", "shared", "users"}
             /\ \A op : (\A m \in DOMAIN more : more[m].op # op) \/ \E arg : more = <<Ask(op, arg)>>
  <2>1. /\ Fresh(more) /\ DOMAIN more = {1} /\ more[1] = Ask(o, a)
        /\ Ask(o, a).op = o /\ Ask(o, a).stage = "sent"
    BY <1>2, OneSent
  <2>2. RequestInv(more[1]) /\ more[1].op = o
    BY <2>1 DEF RequestInv
  <2>3. ASSUME NEW op, op = o PROVE \E arg : more = <<Ask(op, arg)>>
    BY <1>2, <2>3
  <2> QED BY <2>1, <2>2, <2>3
<1> QED BY <1>1, <1>2 DEF Asked

LEMMA OrderSent ==
    ASSUME Queue, Ordered, LeavesFirst, NEW op, NEW arg, Send(<<Ask(op, arg)>>),
           overlapped' = FALSE => overlapped = FALSE /\ (op = "leave" => NoneOf("mine")),
           overlapped' \in BOOLEAN
    PROVE  Ordered' /\ LeavesFirst'
<1>1. /\ Len(pending) \in Nat /\ DOMAIN pending = 1..Len(pending)
      /\ DOMAIN pending' = 1..(Len(pending) + 1)
      /\ \A j \in DOMAIN pending : pending'[j] = pending[j]
      /\ pending'[Len(pending) + 1] = Ask(op, arg)
      /\ inOrder' = inOrder
      /\ Ask(op, arg).op = op /\ Ask(op, arg).stage = "sent"
  BY AsksOne, OneSent, QueuePlaces
<1>2. Ordered'
  <2> SUFFICES ASSUME inOrder', NEW i \in DOMAIN pending', NEW j \in DOMAIN pending',
                      j < i, pending'[i].stage # "sent"
               PROVE  Over(j)'
    BY DEF Ordered
  <2>1. i \in DOMAIN pending /\ j \in DOMAIN pending
    BY <1>1
  <2>2. Over(j)
    BY <1>1, <2>1 DEF Ordered
  <2> QED BY <1>1, <2>1, <2>2 DEF Over
<1>3. LeavesFirst'
  <2> SUFFICES ASSUME ~overlapped', NEW i \in DOMAIN pending', NEW j \in DOMAIN pending',
                      pending'[i].op = "leave", pending'[j].op = "mine"
               PROVE  i < j
    BY DEF LeavesFirst
  <2>1. overlapped = FALSE /\ (op = "leave" => NoneOf("mine"))
    OBVIOUS
  <2>2. CASE i \in DOMAIN pending /\ j \in DOMAIN pending
    BY <1>1, <2>1, <2>2 DEF LeavesFirst
  <2>3. CASE i \notin DOMAIN pending
    <3>1. op = "leave" /\ j \in DOMAIN pending
      BY <1>1, <2>3
    <3> QED BY <1>1, <2>1, <3>1 DEF NoneOf
  <2>4. CASE i \in DOMAIN pending /\ j \notin DOMAIN pending
    BY <1>1, <2>4
  <2> QED BY <2>2, <2>3, <2>4
<1> QED BY <1>2, <1>3

LEMMA OrderReceived ==
    ASSUME Queue, Ordered, LeavesFirst, NEW i \in DOMAIN pending, NEW more, Fresh(more),
           Receive(i, more), \A m \in DOMAIN more : more[m].op # "leave", overlapped' = overlapped
    PROVE  Ordered' /\ LeavesFirst'
<1>1. /\ Len(pending) \in Nat /\ DOMAIN pending = 1..Len(pending)
      /\ \A j \in DOMAIN pending' :
            \/ \E m \in DOMAIN more : pending'[j] = more[m]
            \/ /\ j \in 1..(Len(pending) - 1)
               /\ Before(i, j) \in DOMAIN pending /\ pending'[j] = pending[Before(i, j)]
      /\ \A j \in 1..(Len(pending) - 1) :
            Before(i, j) \in DOMAIN pending \ {i} /\ pending'[j] = pending[Before(i, j)]
      /\ inOrder' => inOrder
      /\ Len(more) \in Nat
      /\ DOMAIN pending' = 1..(Len(pending) - 1 + Len(more))
  BY Receives, Remains, QueuePlaces, Places DEF Fresh
<1>2. \A j, k \in 1..(Len(pending) - 1) : (j < k <=> Before(i, j) < Before(i, k))
  BY <1>1 DEF Before
<1>3. Ordered'
  <2> SUFFICES ASSUME inOrder', NEW k \in DOMAIN pending', NEW j \in DOMAIN pending',
                      j < k, pending'[k].stage # "sent"
               PROVE  Over(j)'
    BY DEF Ordered
  <2>1. k \in 1..(Len(pending) - 1) /\ pending'[k] = pending[Before(i, k)]
        /\ Before(i, k) \in DOMAIN pending
    BY <1>1 DEF Fresh
  <2>2. j \in 1..(Len(pending) - 1) /\ Before(i, j) < Before(i, k)
    BY <1>1, <1>2, <2>1
  <2>3. Over(Before(i, j)) /\ pending'[j] = pending[Before(i, j)]
    BY <1>1, <2>1, <2>2 DEF Ordered
  <2> QED BY <2>3 DEF Over
<1>4. LeavesFirst'
  <2> SUFFICES ASSUME ~overlapped, NEW k \in DOMAIN pending', NEW j \in DOMAIN pending',
                      pending'[k].op = "leave", pending'[j].op = "mine"
               PROVE  k < j
    BY DEF LeavesFirst
  <2>1. k \in 1..(Len(pending) - 1) /\ pending'[k] = pending[Before(i, k)]
        /\ Before(i, k) \in DOMAIN pending
    BY <1>1
  <2>2. CASE j \in 1..(Len(pending) - 1)
    <3>1. Before(i, k) < Before(i, j)
      BY <1>1, <2>1, <2>2 DEF LeavesFirst
    <3> QED BY <1>2, <2>1, <2>2, <3>1
  <2>3. CASE j \notin 1..(Len(pending) - 1)
    BY <1>1, <2>1, <2>3
  <2> QED BY <2>2, <2>3
<1> QED BY <1>3, <1>4

\* An action of the page sends something that concerns no list.
LEMMA ListsSent ==
    ASSUME Queue, ListsInv, NEW op, NEW arg, Send(<<Ask(op, arg)>>), op \notin {"mine", "shared", "leave"},
           UNCHANGED <<access, lentToMe, activeTab, visibleEcosystems, others>>,
           overlapped' \in BOOLEAN, overlapped' = FALSE => overlapped = FALSE
    PROVE  ListsInv'
<1>1. Ordered' /\ LeavesFirst'
  BY OrderSent DEF ListsInv
<1>2. /\ \A j \in DOMAIN pending : j \in DOMAIN pending' /\ pending'[j] = pending[j]
      /\ \A j \in DOMAIN pending' : j \in DOMAIN pending \/ pending'[j] = Ask(op, arg)
      /\ inOrder' = inOrder /\ failures' = failures
      /\ Ask(op, arg).op = op
  BY SentOne, OneSent
<1> DEFINE more == <<Ask(op, arg)>>
<1>3. Fresh(more) /\ Send(more) /\ \A m \in DOMAIN more : more[m].op = op
  BY OneSent
<1> HIDE DEF more
<1>4. \A o : op # o => /\ \A k \in DOMAIN pending : Latest(k, o) =>
                             k \in DOMAIN pending' /\ Latest(k, o)' /\ pending'[k] = pending[k]
                       /\ NoneOf(o) => NoneOf(o)'
  BY <1>3, LatestWhenSent
<1>5. Ecosystems!MyEcosystems' = Ecosystems!MyEcosystems
      /\ Ecosystems!SharedWithMe' = Ecosystems!SharedWithMe
  BY SameLists
<1>6. /\ NeverLeft => NeverLeft'
      /\ Leaving' <=> Leaving
  BY <1>2 DEF NeverLeft, Leaving
<1>7. MineInv => MineInv'
  <2>1. Coming("mine", Ecosystems!MyEcosystems) => Coming("mine", Ecosystems!MyEcosystems)'
    BY <1>4, <1>5 DEF Coming
  <2> QED BY <1>2, <1>4, <1>5, <1>6, <2>1 DEF MineInv
<1>8. SharedInv => SharedInv'
  <2>1. Coming("shared", Ecosystems!SharedWithMe) => Coming("shared", Ecosystems!SharedWithMe)'
    BY <1>4, <1>5 DEF Coming
  <2> QED BY <1>2, <1>4, <1>5, <2>1 DEF SharedInv
<1>9. Undisturbed' => Undisturbed
  BY <1>2 DEF Undisturbed
<1>10. TabInv'
  BY <1>6, <1>7, <1>8, <1>9 DEF ListsInv, TabInv
<1> QED BY <1>1, <1>10 DEF ListsInv

LEMMA ListsReceived ==
    ASSUME Queue, ListsInv, NEW i \in DOMAIN pending, NEW more, Asked(more), Receive(i, more),
           UNCHANGED <<access, lentToMe, activeTab, overlapped, others>>,
           pending[i].stage # "failed" /\ pending[i].op \in {"revoke", "create"} =>
              \E arg : more = <<Ask("mine", arg)>>,
           pending[i].stage # "failed" /\ pending[i].op = "leave" => \E arg : more = <<Ask("shared", arg)>>,
           pending[i].op \in {"mine", "shared"} => \A m \in DOMAIN more : more[m].op = "users",
           pending[i].stage # "failed" /\ pending[i].op = "mine" =>
              visibleEcosystems' = IF activeTab = "my-ecosystems" THEN pending[i].reply ELSE visibleEcosystems,
           pending[i].stage # "failed" /\ pending[i].op = "shared" =>
              visibleEcosystems' = IF activeTab = "shared-with-me" THEN pending[i].reply ELSE visibleEcosystems,
           pending[i].op \notin {"mine", "shared"} => visibleEcosystems' = visibleEcosystems
    PROVE  ListsInv'
<1> DEFINE op == pending[i].op
<1>1. /\ Fresh(more)
      /\ \A m \in DOMAIN more : more[m].op \in {"mine", "shared", "users"}
      /\ \A o : (\A m \in DOMAIN more : more[m].op # o) \/ \E arg : more = <<Ask(o, arg)>>
  BY AskedKinds
<1>2. Ordered' /\ LeavesFirst'
  BY <1>1, OrderReceived DEF ListsInv
<1>3. TabInv'
  <2> SUFFICES ASSUME Undisturbed'
               PROVE  \/ NeverLeft'
                      \/ activeTab = "my-ecosystems" /\ MineInv'
                      \/ activeTab = "shared-with-me" /\ SharedInv'
    BY DEF TabInv
  <2>1. /\ inOrder' => inOrder /\ i = 1
        /\ failures' = failures
    BY <1>1, Receives
  <2>2. Undisturbed /\ i = 1 /\ pending[i].stage # "failed" /\ Over(i)
    BY <2>1 DEF Undisturbed, Queue, Failed, Receive
  <2>3. /\ \A k \in DOMAIN pending \ {i} : k - 1 \in DOMAIN pending' /\ pending'[k - 1] = pending[k]
        /\ \A j \in DOMAIN pending' :
              \/ \E m \in DOMAIN more : pending'[j] = more[m]
              \/ Before(i, j) \in DOMAIN pending \ {i} /\ pending'[j] = pending[Before(i, j)]
    BY <1>1, <2>2, Remains
  <2>4. ASSUME NEW o, \A m \in DOMAIN more : more[m].op # o
        PROVE  /\ \A k \in DOMAIN pending \ {i} : Latest(k, o) =>
                     k - 1 \in DOMAIN pending' /\ Latest(k - 1, o)' /\ pending'[k - 1] = pending[k]
               /\ NoneOf(o) \/ Latest(i, o) => NoneOf(o)'
    BY <1>1, <2>2, <2>4, LatestWhenReceived
  <2>5. ASSUME NEW o, NEW arg, more = <<Ask(o, arg)>>
        PROVE  \E k \in DOMAIN pending' : Latest(k, o)' /\ pending'[k].stage = "sent"
    <3>1. Receive(i, <<Ask(o, arg)>>)
      BY <2>5
    <3>2. \E k \in DOMAIN pending' : Latest(k, o)' /\ pending'[k] = Ask(o, arg)
      BY <3>1, LatestAsked
    <3> QED BY <3>2 DEF Ask
  <2>6. Ecosystems!MyEcosystems' = Ecosystems!MyEcosystems
        /\ Ecosystems!SharedWithMe' = Ecosystems!SharedWithMe
    BY SameLists
  <2>7. TabInv /\ Ordered /\ LeavesFirst
    BY DEF ListsInv
  <2>8. CASE NeverLeft
    <3>1. PICK k \in DOMAIN pending :
             pending[k].op = "leave" /\ pending[k].stage = "sent" /\ pending[k].arg.eco # Lent
      BY <2>8 DEF NeverLeft
    <3>2. k # i
      BY <2>2, <3>1 DEF Over
    <3> QED BY <2>3, <3>1, <3>2 DEF NeverLeft
  <2>9. CASE activeTab = "my-ecosystems" /\ MineInv
    <3>1. CASE \E arg : more = <<Ask("mine", arg)>>
      <4>1. Coming("mine", Ecosystems!MyEcosystems)'
        BY <2>5, <3>1 DEF Coming
      <4> QED BY <2>9, <4>1 DEF MineInv
    <3>2. CASE \A m \in DOMAIN more : more[m].op # "mine"
      <4>1. CASE \E k \in DOMAIN pending : pending[k].op \in {"revoke", "create"}
        <5>1. PICK k \in DOMAIN pending : pending[k].op \in {"revoke", "create"}
          BY <4>1
        <5>2. CASE k = i
          BY <2>2, <2>9, <3>1, <5>1, <5>2, <2>5 DEF MineInv, Coming
        <5>3. CASE k # i
          BY <2>3, <2>9, <5>1, <5>3 DEF MineInv
        <5> QED BY <5>2, <5>3
      <4>2. CASE Coming("mine", Ecosystems!MyEcosystems)
        <5>1. PICK k \in DOMAIN pending :
                 /\ Latest(k, "mine")
                 /\ pending[k].stage = "sent" \/ pending[k].reply = Ecosystems!MyEcosystems
          BY <4>2 DEF Coming
        <5>2. CASE k = i
          <6>1. NoneOf("mine")'
            BY <2>4, <3>2, <5>1, <5>2
          <6>2. op = "mine" /\ pending[i].reply = Ecosystems!MyEcosystems
            BY <2>2, <5>1, <5>2 DEF Latest, Over
          <6>3. visibleEcosystems' = Ecosystems!MyEcosystems'
            BY <2>2, <2>6, <2>9, <6>2
          <6>4. ~Leaving'
            <7>1. ASSUME NEW j \in DOMAIN pending', pending'[j].op = "leave" PROVE FALSE
              <8>1. /\ Before(i, j) \in DOMAIN pending \ {i}
                    /\ pending[Before(i, j)].op = "leave"
                BY <1>1, <2>3, <7>1
              <8>2. Before(i, j) < i
                BY <2>2, <2>7, <6>2, <8>1 DEF LeavesFirst, Undisturbed
              <8>3. Before(i, j) \in Nat /\ Before(i, j) >= 1
                BY <8>1, QueuePlaces
              <8> QED BY <2>2, <8>2, <8>3
            <7> QED BY <7>1 DEF Leaving
          <6> QED BY <2>9, <6>1, <6>3, <6>4 DEF MineInv
        <5>3. CASE k # i
          <6>1. /\ k - 1 \in DOMAIN pending' /\ Latest(k - 1, "mine")'
                /\ pending'[k - 1] = pending[k]
            BY <2>4, <3>2, <5>1, <5>3
          <6>2. Coming("mine", Ecosystems!MyEcosystems)'
            BY <2>6, <5>1, <6>1 DEF Coming
          <6> QED BY <2>9, <6>2 DEF MineInv
        <5> QED BY <5>2, <5>3
      <4>3. CASE NoneOf("mine") /\ visibleEcosystems =
                     IF Leaving THEN {v \in Ecosystems!MyEcosystems : v.eco # Lent}
                     ELSE Ecosystems!MyEcosystems
        <5>1. NoneOf("mine")' /\ op # "mine"
          BY <2>4, <3>2, <4>3 DEF NoneOf
        <5>2. visibleEcosystems' = visibleEcosystems
          BY <2>2, <2>9, <5>1
        <5>3. Leaving' => Leaving
          <6>1. ASSUME NEW j \in DOMAIN pending', pending'[j].op = "leave", pending'[j].stage = "sent"
                PROVE  Leaving
            BY <1>1, <2>3, <6>1 DEF Leaving
          <6> QED BY <6>1 DEF Leaving
        <5>4. Leaving => Leaving'
          BY <2>2, <2>3 DEF Leaving, Over
        <5> QED BY <2>6, <2>9, <4>3, <5>1, <5>2, <5>3, <5>4 DEF MineInv
      <4> QED BY <2>9, <4>1, <4>2, <4>3 DEF MineInv
    <3> QED BY <1>1, <3>1, <3>2
  <2>10. CASE activeTab = "shared-with-me" /\ SharedInv
    <3>1. CASE \E arg : more = <<Ask("shared", arg)>>
      <4>1. Coming("shared", Ecosystems!SharedWithMe)'
        BY <2>5, <3>1 DEF Coming
      <4> QED BY <2>10, <4>1 DEF SharedInv
    <3>2. CASE \A m \in DOMAIN more : more[m].op # "shared"
      <4>1. CASE \E k \in DOMAIN pending : pending[k].op = "leave"
        <5>1. PICK k \in DOMAIN pending : pending[k].op = "leave"
          BY <4>1
        <5>2. CASE k = i
          BY <2>2, <2>5, <2>10, <5>1, <5>2 DEF SharedInv, Coming
        <5>3. CASE k # i
          BY <2>3, <2>10, <5>1, <5>3 DEF SharedInv
        <5> QED BY <5>2, <5>3
      <4>2. CASE Coming("shared", Ecosystems!SharedWithMe)
        <5>1. PICK k \in DOMAIN pending :
                 /\ Latest(k, "shared")
                 /\ pending[k].stage = "sent" \/ pending[k].reply = Ecosystems!SharedWithMe
          BY <4>2 DEF Coming
        <5>2. CASE k = i
          <6>1. NoneOf("shared")'
            BY <2>4, <3>2, <5>1, <5>2
          <6>2. op = "shared" /\ pending[i].reply = Ecosystems!SharedWithMe
            BY <2>2, <5>1, <5>2 DEF Latest, Over
          <6>3. visibleEcosystems' = Ecosystems!SharedWithMe'
            BY <2>2, <2>6, <2>10, <6>2
          <6> QED BY <2>10, <6>1, <6>3 DEF SharedInv
        <5>3. CASE k # i
          <6>1. /\ k - 1 \in DOMAIN pending' /\ Latest(k - 1, "shared")'
                /\ pending'[k - 1] = pending[k]
            BY <2>4, <3>2, <5>1, <5>3
          <6>2. Coming("shared", Ecosystems!SharedWithMe)'
            BY <2>6, <5>1, <6>1 DEF Coming
          <6> QED BY <2>10, <6>2 DEF SharedInv
        <5> QED BY <5>2, <5>3
      <4>3. CASE NoneOf("shared") /\ visibleEcosystems = Ecosystems!SharedWithMe
        <5>1. NoneOf("shared")' /\ op # "shared"
          BY <2>4, <3>2, <4>3 DEF NoneOf
        <5>2. visibleEcosystems' = visibleEcosystems
          BY <2>2, <2>10, <5>1
        <5> QED BY <2>6, <2>10, <4>3, <5>1, <5>2 DEF SharedInv
      <4> QED BY <2>10, <4>1, <4>2, <4>3 DEF SharedInv
    <3> QED BY <1>1, <3>1, <3>2
  <2> QED BY <2>2, <2>7, <2>8, <2>9, <2>10 DEF TabInv
<1> QED BY <1>2, <1>3 DEF ListsInv

\* Another tab is shown, and its list loaded.
LEMMA ListsTab ==
    ASSUME EcosystemsTypes, ListsInv, NEW tab \in {"my-ecosystems", "shared-with-me"},
           Ecosystems!setActiveTab(tab)
    PROVE  ListsInv'
<1> DEFINE op == IF tab = "my-ecosystems" THEN "mine" ELSE "shared"
<1>1. /\ Send(<<Ask(op, None)>>) /\ activeTab' = tab /\ overlapped' = overlapped /\ overlapped \in BOOLEAN
      /\ op # "leave" /\ Queue
  BY DEF Ecosystems!setActiveTab, Ecosystems!Send, Send, Ecosystems!ForList, Ecosystems!Ask, Ask,
         EcosystemsTypes, NamesInv
<1>2. Ordered' /\ LeavesFirst'
  <2> HIDE DEF op
  <2> QED BY <1>1, OrderSent DEF ListsInv
<1>3. \E k \in DOMAIN pending' : Latest(k, op)' /\ pending'[k].stage = "sent"
  <2>1. \E k \in DOMAIN pending' : Latest(k, op)' /\ pending'[k] = Ask(op, None)
    <3> HIDE DEF op
    <3> QED BY <1>1, LatestAsked
  <2> HIDE DEF op
  <2> QED BY <2>1 DEF Ask
<1>4. TabInv'
  <2>1. CASE tab = "my-ecosystems"
    <3>1. Coming("mine", Ecosystems!MyEcosystems)'
      BY <1>3, <2>1 DEF Coming
    <3> QED BY <1>1, <2>1, <3>1 DEF TabInv, MineInv
  <2>2. CASE tab = "shared-with-me"
    <3>1. Coming("shared", Ecosystems!SharedWithMe)'
      BY <1>3, <2>2 DEF Coming
    <3> QED BY <1>1, <2>2, <3>1 DEF TabInv, SharedInv
  <2> QED BY <2>1, <2>2
<1> QED BY <1>2, <1>4 DEF ListsInv

\* An ecosystem is taken from the list that is shown.
LEMMA ListsLeft ==
    ASSUME EcosystemsTypes, ListsInv, NEW e \in Owned \cup {Lent}, Ecosystems!leaveShared(e)
    PROVE  ListsInv'
<1>1. /\ Send(<<Ask("leave", [eco |-> e])>>) /\ Queue
      /\ visibleEcosystems' = {v \in visibleEcosystems : v.eco # e}
      /\ UNCHANGED <<access, lentToMe, activeTab, others>>
  BY DEF Ecosystems!leaveShared, Ecosystems!Send, Send, Ecosystems!Ask, Ask, EcosystemsTypes,
         Ecosystems!rowsOfService
<1>2. overlapped' \in BOOLEAN /\ (overlapped' = FALSE => overlapped = FALSE /\ NoneOf("mine"))
  BY DEF Ecosystems!leaveShared, Ecosystems!AskedFor, NoneOf, EcosystemsTypes, NamesInv
<1>3. Ordered' /\ LeavesFirst'
  BY <1>1, <1>2, OrderSent DEF ListsInv
<1>4. PICK last : /\ last \in DOMAIN pending'
                  /\ pending'[last] = Ask("leave", [eco |-> e])
                  /\ \A j \in DOMAIN pending : j \in DOMAIN pending' /\ pending'[j] = pending[j]
                  /\ \A j \in DOMAIN pending' : j \in DOMAIN pending \/ j = last
                  /\ inOrder' = inOrder /\ failures' = failures
  BY <1>1, SentOne
<1>5. pending'[last].op = "leave" /\ pending'[last].stage = "sent" /\ pending'[last].arg.eco = e
  BY <1>4 DEF Ask
<1>6. TabInv'
  <2> SUFFICES ASSUME Undisturbed'
               PROVE  \/ NeverLeft'
                      \/ activeTab = "my-ecosystems" /\ MineInv'
                      \/ activeTab = "shared-with-me" /\ SharedInv'
    BY <1>1 DEF TabInv
  <2>1. Undisturbed /\ NoneOf("mine") /\ TabInv
    BY <1>1, <1>2, <1>4 DEF Undisturbed, ListsInv
  <2>2. CASE e \in Owned
    BY <1>4, <1>5, <2>2, EcosystemsAssumption DEF NeverLeft
  <2>3. CASE NeverLeft
    BY <1>4, <2>3 DEF NeverLeft
  <2>4. CASE activeTab = "shared-with-me"
    BY <1>4, <1>5, <2>4 DEF SharedInv
  <2>5. CASE e = Lent /\ activeTab = "my-ecosystems" /\ MineInv
    <3>1. CASE \E k \in DOMAIN pending : pending[k].op \in {"revoke", "create"}
      BY <1>4, <2>5, <3>1 DEF MineInv
    <3>2. CASE Coming("mine", Ecosystems!MyEcosystems)
      BY <2>1, <3>2 DEF Coming, Latest, NoneOf
    <3>3. CASE visibleEcosystems = IF Leaving THEN {v \in Ecosystems!MyEcosystems : v.eco # Lent}
                                   ELSE Ecosystems!MyEcosystems
      <4>1. NoneOf("mine")'
        BY <1>4, <1>5, <2>1 DEF NoneOf
      <4>2. Leaving'
        BY <1>4, <1>5 DEF Leaving
      <4>3. visibleEcosystems' = {v \in Ecosystems!MyEcosystems : v.eco # Lent}
        BY <1>1, <2>5, <3>3
      <4>4. Ecosystems!MyEcosystems' = Ecosystems!MyEcosystems
        BY <1>1, SameLists
      <4> QED BY <2>5, <4>1, <4>2, <4>3, <4>4 DEF MineInv
    <3> QED BY <2>5, <3>1, <3>2, <3>3 DEF MineInv
  <2> QED BY <2>1, <2>2, <2>3, <2>4, <2>5 DEF TabInv
<1> QED BY <1>3, <1>6 DEF ListsInv

\* Nothing is sent and nothing arrives.
LEMMA ListsKept ==
    ASSUME ListsInv, UNCHANGED <<pending, inOrder, failures, overlapped>>,
           \/ others' = TRUE
           \/ UNCHANGED <<access, lentToMe, activeTab, visibleEcosystems, others>>
    PROVE  ListsInv'
<1>1. Ordered' /\ LeavesFirst'
  BY DEF ListsInv, Ordered, LeavesFirst, Over
<1>2. CASE others' = TRUE
  BY <1>1, <1>2 DEF ListsInv, TabInv, Undisturbed
<1>3. CASE UNCHANGED <<access, lentToMe, activeTab, visibleEcosystems, others>>
  <2>1. Ecosystems!MyEcosystems' = Ecosystems!MyEcosystems
        /\ Ecosystems!SharedWithMe' = Ecosystems!SharedWithMe
    BY <1>3, SameLists
  <2>2. /\ Coming("mine", Ecosystems!MyEcosystems)' <=> Coming("mine", Ecosystems!MyEcosystems)
        /\ Coming("shared", Ecosystems!SharedWithMe)' <=> Coming("shared", Ecosystems!SharedWithMe)
    BY <2>1 DEF Coming, Latest
  <2>3. MineInv' <=> MineInv
    BY <1>3, <2>1, <2>2 DEF MineInv, NoneOf, Leaving
  <2>4. SharedInv' <=> SharedInv
    BY <1>3, <2>1, <2>2 DEF SharedInv, NoneOf
  <2>5. TabInv'
    BY <1>3, <2>3, <2>4 DEF ListsInv, TabInv, NeverLeft, Undisturbed
  <2> QED BY <1>1, <2>5 DEF ListsInv
<1> QED BY <1>2, <1>3

\* While the share modal is open, what changes accesses, or lists them after
\* a change, is about its ecosystem.
ModalInv == ~overlapped /\ shareModal # None =>
    \A i \in DOMAIN pending :
        /\ pending[i].op \in {"share", "revoke", "role"} => pending[i].arg.eco = shareModal
        /\ pending[i].op = "mine" /\ pending[i].arg \in Owned => pending[i].arg = shareModal

ConfirmInv == shareModal # None /\ confirm # None => confirm.eco = shareModal

\* The accesses of the modal will be changed, or loaded after a change, or they
\* are loaded, or they are listed.
GuestsInv == Undisturbed /\ shareModal # None =>
    \/ \E i \in DOMAIN pending : pending[i].op \in {"share", "revoke", "role"}
    \/ \E i \in DOMAIN pending : pending[i].op = "mine" /\ pending[i].arg = shareModal
    \/ \E i \in DOMAIN pending :
          /\ Latest(i, "users") /\ pending[i].arg.eco = shareModal
          /\ pending[i].stage = "sent" \/ pending[i].reply = access[shareModal]
    \/ NoneOf("users") /\ sharedUsers = [of |-> shareModal, users |-> access[shareModal]]

SharingInv == ModalInv /\ ConfirmInv /\ GuestsInv

LEMMA SharingServed ==
    ASSUME EcosystemsTypes, SharingInv, NEW i \in DOMAIN pending, NEW stage, NEW reply,
           Turn(i, stage, reply)
    PROVE  SharingInv'
<1>1. /\ DOMAIN pending' = DOMAIN pending
      /\ pending'[i] = [op |-> pending[i].op, arg |-> pending[i].arg,
                        stage |-> stage, reply |-> reply]
      /\ \A j \in DOMAIN pending \ {i} : pending'[j] = pending[j]
      /\ inOrder' => inOrder
      /\ ~failures' => ~failures /\ stage # "failed"
  BY Serves DEF Turn, EcosystemsTypes
<1>2. /\ pending'[i].op = pending[i].op /\ pending'[i].arg = pending[i].arg
      /\ pending'[i].stage = stage /\ pending'[i].reply = reply
  BY <1>1
<1>3. \A j \in DOMAIN pending : /\ pending'[j].op = pending[j].op
                                /\ pending'[j].arg = pending[j].arg
  BY <1>1, <1>2
<1>4. UNCHANGED <<shareModal, sharedUsers, confirm, overlapped, others>>
      /\ stage \in {"done", "failed"} /\ pending[i].stage = "sent"
  BY DEF Turn
<1>5. ModalInv' /\ ConfirmInv'
  BY <1>1, <1>3, <1>4 DEF SharingInv, ModalInv, ConfirmInv
<1>6. GuestsInv'
  <2> SUFFICES ASSUME Undisturbed', shareModal # None PROVE GuestsInv'
    BY <1>4 DEF GuestsInv
  <2>1. Undisturbed /\ stage = "done" /\ shareModal \in Exists
    BY <1>1, <1>4 DEF Undisturbed, EcosystemsTypes, NamesInv
  <2>2. CASE \E j \in DOMAIN pending : pending[j].op \in {"share", "revoke", "role"}
    BY <1>1, <1>3, <2>2 DEF GuestsInv
  <2>3. CASE ~\E j \in DOMAIN pending : pending[j].op \in {"share", "revoke", "role"}
    <3>1. access'[shareModal] = access[shareModal]
      BY <2>1, <2>3 DEF Turn
    <3>2. CASE \E j \in DOMAIN pending : pending[j].op = "mine" /\ pending[j].arg = shareModal
      BY <1>1, <1>3, <1>4, <3>2 DEF GuestsInv
    <3>3. CASE \E j \in DOMAIN pending :
                  /\ Latest(j, "users") /\ pending[j].arg.eco = shareModal
                  /\ pending[j].stage = "sent" \/ pending[j].reply = access[shareModal]
      <4>1. PICK j \in DOMAIN pending :
                  /\ Latest(j, "users") /\ pending[j].arg.eco = shareModal
                  /\ pending[j].stage = "sent" \/ pending[j].reply = access[shareModal]
        BY <3>3
      <4>2. Latest(j, "users")' /\ pending'[j].arg.eco = shareModal'
        BY <1>1, <1>3, <1>4, <4>1 DEF Latest
      <4>3. pending'[j].stage = "sent" \/ pending'[j].reply = access'[shareModal']
        <5>1. CASE j = i
          BY <1>2, <1>4, <2>1, <3>1, <4>1, <5>1 DEF Turn, Latest
        <5>2. CASE j # i
          BY <1>1, <1>4, <3>1, <4>1, <5>2
        <5> QED BY <5>1, <5>2
      <4> QED BY <1>1, <4>2, <4>3 DEF GuestsInv
    <3>4. CASE NoneOf("users") /\ sharedUsers = [of |-> shareModal, users |-> access[shareModal]]
      <4>1. NoneOf("users")'
        BY <1>1, <1>3, <3>4 DEF NoneOf
      <4> QED BY <1>4, <3>1, <3>4, <4>1 DEF GuestsInv
    <3> QED BY <2>1, <2>3, <3>2, <3>3, <3>4 DEF SharingInv, GuestsInv
  <2> QED BY <2>2, <2>3
<1> QED BY <1>5, <1>6 DEF SharingInv

\* An action of the page sends something that loads no accesses.
LEMMA SharingSent ==
    ASSUME Queue, SharingInv, NEW op, NEW arg, Send(<<Ask(op, arg)>>), op \notin {"mine", "users"},
           op \in {"share", "revoke", "role"} /\ shareModal # None => arg.eco = shareModal,
           UNCHANGED <<access, shareModal, sharedUsers, others>>, ConfirmInv',
           overlapped' = FALSE => overlapped = FALSE, overlapped' \in BOOLEAN
    PROVE  SharingInv'
<1>1. /\ \A j \in DOMAIN pending : j \in DOMAIN pending' /\ pending'[j] = pending[j]
      /\ \A j \in DOMAIN pending' : j \in DOMAIN pending \/ pending'[j] = Ask(op, arg)
      /\ inOrder' = inOrder /\ failures' = failures
  BY SentOne
<1>2. Ask(op, arg).op = op /\ Ask(op, arg).arg = arg
  BY DEF Ask
<1> DEFINE more == <<Ask(op, arg)>>
<1>3. Fresh(more) /\ Send(more) /\ \A m \in DOMAIN more : more[m].op = op
  BY OneSent
<1> HIDE DEF more
<1>4. /\ \A k \in DOMAIN pending : Latest(k, "users") =>
            k \in DOMAIN pending' /\ Latest(k, "users")' /\ pending'[k] = pending[k]
      /\ NoneOf("users") => NoneOf("users")'
  BY <1>3, LatestWhenSent
<1>5. ModalInv'
  BY <1>1, <1>2 DEF SharingInv, ModalInv
<1>6. Undisturbed' => Undisturbed
  BY <1>1 DEF Undisturbed
<1>7. GuestsInv'
  <2> SUFFICES ASSUME Undisturbed', shareModal # None PROVE GuestsInv'
    BY DEF GuestsInv
  <2>1. CASE \E j \in DOMAIN pending : pending[j].op \in {"share", "revoke", "role"}
    BY <1>1, <2>1 DEF GuestsInv
  <2>2. CASE \E j \in DOMAIN pending : pending[j].op = "mine" /\ pending[j].arg = shareModal
    BY <1>1, <2>2 DEF GuestsInv
  <2>3. CASE \E j \in DOMAIN pending :
                  /\ Latest(j, "users") /\ pending[j].arg.eco = shareModal
                  /\ pending[j].stage = "sent" \/ pending[j].reply = access[shareModal]
    BY <1>4, <2>3 DEF GuestsInv
  <2>4. CASE NoneOf("users") /\ sharedUsers = [of |-> shareModal, users |-> access[shareModal]]
    BY <1>4, <2>4 DEF GuestsInv
  <2> QED BY <1>6, <2>1, <2>2, <2>3, <2>4 DEF SharingInv, GuestsInv
<1> QED BY <1>5, <1>7 DEF SharingInv

\* A closed modal lists nothing.
LEMMA SharingClosed == shareModal' = None => SharingInv'
  BY DEF SharingInv, ModalInv, ConfirmInv, GuestsInv

LEMMA SharingOpened ==
    ASSUME EcosystemsTypes, SharingInv, NEW e \in Owned, Ecosystems!openShareModal(e)
    PROVE  SharingInv'
<1>1. /\ Send(<<Ask("users", [eco |-> e, after |-> None])>>) /\ Queue
      /\ shareModal' = e /\ confirm = None /\ confirm' = None
  BY DEF Ecosystems!openShareModal, Ecosystems!Uncovered, Ecosystems!Send, Send, Ecosystems!Ask, Ask,
         Ecosystems!ForUsers, EcosystemsTypes
<1>2. /\ \A j \in DOMAIN pending' :
            \/ j \in DOMAIN pending /\ pending'[j] = pending[j]
            \/ pending'[j] = Ask("users", [eco |-> e, after |-> None])
  BY <1>1, SentOne
<1>3. \E k \in DOMAIN pending' :
          Latest(k, "users")' /\ pending'[k] = Ask("users", [eco |-> e, after |-> None])
  BY <1>1, LatestAsked
<1>4. ModalInv'
  <2> SUFFICES ASSUME ~overlapped', NEW j \in DOMAIN pending'
               PROVE  /\ pending'[j].op \notin {"share", "revoke", "role"}
                      /\ ~(pending'[j].op = "mine" /\ pending'[j].arg \in Owned)
    BY DEF ModalInv
  <2>1. ~Ecosystems!ActionUnderWay
    BY DEF Ecosystems!openShareModal
  <2>2. CASE pending'[j] = Ask("users", [eco |-> e, after |-> None])
    BY <2>2 DEF Ask
  <2>3. CASE j \in DOMAIN pending /\ pending'[j] = pending[j]
    BY <2>1, <2>3, EcosystemsAssumption DEF Ecosystems!ActionUnderWay
  <2> QED BY <1>2, <2>2, <2>3
<1>5. GuestsInv'
  BY <1>1, <1>3 DEF GuestsInv, Ask
<1> QED BY <1>1, <1>4, <1>5 DEF SharingInv, ConfirmInv

\* An answer has come, and the modal stays as it is but for the accesses.
LEMMA SharingReceived ==
    ASSUME Queue, SharingInv, NEW i \in DOMAIN pending, NEW more, Asked(more), Receive(i, more),
           UNCHANGED <<access, shareModal, confirm, overlapped, others>>,
           \A m \in DOMAIN more : more[m].op = "mine" /\ more[m].arg \in Owned =>
              pending[i].op = "revoke" /\ more[m].arg = pending[i].arg.eco,
           pending[i].stage # "failed" =>
              /\ pending[i].op # "share"
              /\ pending[i].op = "revoke" => more = <<Ask("mine", pending[i].arg.eco)>>
              /\ pending[i].op = "role" =>
                    more = <<Ask("users", [eco |-> pending[i].arg.eco, after |-> "role"])>>
              /\ pending[i].op = "mine" /\ pending[i].arg \in Owned =>
                    more = <<Ask("users", [eco |-> pending[i].arg, after |-> "revoke"])>>
              /\ pending[i].op = "users" =>
                    sharedUsers' = [of |-> pending[i].arg.eco, users |-> pending[i].reply],
           ~(pending[i].op = "role" \/ (pending[i].op = "mine" /\ pending[i].arg \in Owned)) =>
              \A m \in DOMAIN more : more[m].op # "users",
           pending[i].op # "users" => sharedUsers' = sharedUsers,
           shareModal # None => shareModal \in Owned
    PROVE  SharingInv'
<1> DEFINE op == pending[i].op
<1>1. Fresh(more)
  BY AskedKinds
<1>2. /\ \A k \in DOMAIN pending \ {i} : \E j \in DOMAIN pending' : pending'[j] = pending[k]
      /\ \A j \in DOMAIN pending' :
            \/ \E m \in DOMAIN more : pending'[j] = more[m]
            \/ Before(i, j) \in DOMAIN pending \ {i} /\ pending'[j] = pending[Before(i, j)]
      /\ inOrder' => inOrder /\ i = 1
      /\ failures' = failures
  BY <1>1, Receives, Remains
<1>3. \A m \in DOMAIN more : more[m].op \in {"mine", "shared", "users"}
  BY AskedKinds
<1>4. ModalInv'
  <2> SUFFICES ASSUME ~overlapped, shareModal # None, NEW j \in DOMAIN pending'
               PROVE  /\ pending'[j].op \in {"share", "revoke", "role"} =>
                            pending'[j].arg.eco = shareModal
                      /\ pending'[j].op = "mine" /\ pending'[j].arg \in Owned =>
                            pending'[j].arg = shareModal
    BY DEF ModalInv
  <2>1. \A k \in DOMAIN pending :
           /\ pending[k].op \in {"share", "revoke", "role"} => pending[k].arg.eco = shareModal
           /\ pending[k].op = "mine" /\ pending[k].arg \in Owned => pending[k].arg = shareModal
    BY DEF SharingInv, ModalInv
  <2>2. CASE \E m \in DOMAIN more : pending'[j] = more[m]
    <3>1. PICK m \in DOMAIN more : pending'[j] = more[m]
      BY <2>2
    <3>2. pending'[j].op \notin {"share", "revoke", "role"}
      BY <1>3, <3>1
    <3>3. pending'[j].op = "mine" /\ pending'[j].arg \in Owned => pending'[j].arg = shareModal
      BY <2>1, <3>1
    <3> QED BY <3>2, <3>3
  <2>3. CASE Before(i, j) \in DOMAIN pending \ {i} /\ pending'[j] = pending[Before(i, j)]
    BY <2>1, <2>3
  <2> QED BY <1>2, <2>2, <2>3
<1>5. GuestsInv'
  <2> SUFFICES ASSUME Undisturbed', shareModal # None PROVE GuestsInv'
    BY DEF GuestsInv
  <2>1. Undisturbed /\ i = 1 /\ pending[i].stage # "failed" /\ Over(i)
    BY <1>2 DEF Undisturbed, Queue, Failed, Receive
  <2>2. ModalInv /\ ~overlapped /\ shareModal \in Owned
    BY <2>1 DEF SharingInv, Undisturbed
  <2>3. op \in {"revoke", "role"} => pending[i].arg.eco = shareModal
    BY <2>2 DEF ModalInv
  <2>4. ASSUME NEW after, more = <<Ask("users", [eco |-> shareModal, after |-> after])>>
        PROVE  GuestsInv'
    <3> DEFINE arg == [eco |-> shareModal, after |-> after]
    <3>1. Receive(i, <<Ask("users", arg)>>)
      BY <2>4
    <3> HIDE DEF arg
    <3>2. PICK k \in DOMAIN pending' : Latest(k, "users")' /\ pending'[k] = Ask("users", arg)
      BY <3>1, LatestAsked
    <3>3. pending'[k].arg = arg /\ pending'[k].stage = "sent"
      BY <3>2 DEF Ask
    <3>4. arg.eco = shareModal
      BY DEF arg
    <3> QED BY <3>2, <3>3, <3>4 DEF GuestsInv
  <2>5. CASE op = "role"
    BY <2>1, <2>3, <2>4, <2>5
  <2>6. CASE op = "mine" /\ pending[i].arg \in Owned
    <3>1. pending[i].arg = shareModal
      BY <2>2, <2>6 DEF ModalInv
    <3> QED BY <2>1, <2>4, <2>6, <3>1
  <2>7. CASE op = "revoke"
    <3>1. Receive(i, <<Ask("mine", shareModal)>>)
      BY <2>1, <2>3, <2>7
    <3>2. PICK k \in DOMAIN pending' : Latest(k, "mine")' /\ pending'[k] = Ask("mine", shareModal)
      BY <3>1, LatestAsked
    <3>3. pending'[k].op = "mine" /\ pending'[k].arg = shareModal
      BY <3>2 DEF Ask
    <3> QED BY <3>3 DEF GuestsInv
  <2>8. CASE op \notin {"role", "revoke"} /\ ~(op = "mine" /\ pending[i].arg \in Owned)
    <3>1. \A m \in DOMAIN more : more[m].op # "users"
      BY <2>8
    <3>2. /\ \A k \in DOMAIN pending \ {i} : Latest(k, "users") =>
                k - 1 \in DOMAIN pending' /\ Latest(k - 1, "users")' /\ pending'[k - 1] = pending[k]
          /\ NoneOf("users") \/ Latest(i, "users") => NoneOf("users")'
      BY <1>1, <2>1, <3>1, LatestWhenReceived
    <3>3. CASE \E j \in DOMAIN pending : pending[j].op \in {"share", "revoke", "role"}
      <4>1. PICK j \in DOMAIN pending : pending[j].op \in {"share", "revoke", "role"}
        BY <3>3
      <4>2. j # i
        BY <2>1, <2>8, <4>1
      <4>3. PICK k \in DOMAIN pending' : pending'[k] = pending[j]
        BY <1>2, <4>2
      <4> QED BY <4>1, <4>3 DEF GuestsInv
    <3>4. CASE \E j \in DOMAIN pending : pending[j].op = "mine" /\ pending[j].arg = shareModal
      <4>1. PICK j \in DOMAIN pending : pending[j].op = "mine" /\ pending[j].arg = shareModal
        BY <3>4
      <4>2. j # i
        BY <2>2, <2>8, <4>1
      <4>3. PICK k \in DOMAIN pending' : pending'[k] = pending[j]
        BY <1>2, <4>2
      <4> QED BY <4>1, <4>3 DEF GuestsInv
    <3>5. CASE \E j \in DOMAIN pending :
                  /\ Latest(j, "users") /\ pending[j].arg.eco = shareModal
                  /\ pending[j].stage = "sent" \/ pending[j].reply = access[shareModal]
      <4>1. PICK j \in DOMAIN pending :
                  /\ Latest(j, "users") /\ pending[j].arg.eco = shareModal
                  /\ pending[j].stage = "sent" \/ pending[j].reply = access[shareModal]
        BY <3>5
      <4>2. CASE j = i
        <5>1. NoneOf("users")' /\ op = "users" /\ pending[i].stage # "sent"
          BY <2>1, <3>2, <4>1, <4>2 DEF Latest, Over
        <5> QED BY <2>1, <4>1, <4>2, <5>1 DEF GuestsInv
      <4>3. CASE j # i
        <5>1. /\ j - 1 \in DOMAIN pending' /\ Latest(j - 1, "users")'
              /\ pending'[j - 1] = pending[j]
          BY <3>2, <4>1, <4>3
        <5> QED BY <4>1, <5>1 DEF GuestsInv
      <4> QED BY <4>2, <4>3
    <3>6. CASE NoneOf("users") /\ sharedUsers = [of |-> shareModal, users |-> access[shareModal]]
      <4>1. NoneOf("users")' /\ op # "users"
        BY <3>2, <3>6 DEF NoneOf
      <4> QED BY <3>6, <4>1 DEF GuestsInv
    <3> QED BY <2>1, <3>3, <3>4, <3>5, <3>6 DEF SharingInv, GuestsInv
  <2> QED BY <2>5, <2>6, <2>7, <2>8
<1>6. ConfirmInv'
  BY DEF SharingInv, ConfirmInv
<1> QED BY <1>4, <1>5, <1>6 DEF SharingInv

LEMMA SharingKept ==
    ASSUME SharingInv, UNCHANGED <<pending, inOrder, failures, shareModal, sharedUsers, overlapped>>,
           ConfirmInv', others' = TRUE \/ UNCHANGED <<access, others>>
    PROVE  SharingInv'
<1>1. ModalInv'
  BY DEF SharingInv, ModalInv
<1>2. GuestsInv'
  BY DEF SharingInv, GuestsInv, Undisturbed, NoneOf, Latest
<1> QED BY <1>1, <1>2 DEF SharingInv

EcosystemsInv == EcosystemsTypes /\ ListsInv /\ SharingInv

LEMMA EcosystemsStart == Ecosystems!EcosystemsInit => EcosystemsInv
<1> SUFFICES ASSUME Ecosystems!EcosystemsInit PROVE EcosystemsInv
  OBVIOUS
<1> DEFINE first == <<Ask("mine", None)>>
<1>1. /\ Fresh(first) /\ RequestsInit(first)
      /\ DOMAIN pending = {1} /\ pending[1] = Ask("mine", None)
  BY OneSent DEF Ecosystems!EcosystemsInit, Ecosystems!RequestsInit, RequestsInit,
                 Ecosystems!ForList, Ecosystems!Ask, Ask
<1> HIDE DEF first
<1>2. Queue /\ ~failures
  BY <1>1, FirstQueue DEF RequestsInit
<1>3. pending[1].op = "mine" /\ pending[1].arg = None /\ pending[1].stage = "sent"
  BY <1>1 DEF Ask
<1>4. /\ lentToMe = TRUE /\ activeTab = "my-ecosystems" /\ overlapped = FALSE
      /\ mine = {} /\ shared = {} /\ visibleEcosystems = {} /\ shareModal = None /\ confirm = None
  BY DEF Ecosystems!EcosystemsInit
<1>5. access \in Rows
  <2>1. PICK e \in Owned, r \in [Guests -> Ecosystems!Accesses] :
           access = [o \in Owned |-> IF o = e THEN r ELSE None]
    BY DEF Ecosystems!EcosystemsInit
  <2> QED BY <2>1 DEF Rows
<1>6. EcosystemsTypes
  BY <1>1, <1>2, <1>3, <1>4, <1>5 DEF EcosystemsTypes, NamesInv, RequestsInv, RequestInv, Of
<1>7. ListsInv
  <2>1. Coming("mine", Ecosystems!MyEcosystems)
    BY <1>1, <1>3 DEF Coming, Latest
  <2> QED BY <1>1, <1>3, <1>4, <2>1 DEF ListsInv, Ordered, LeavesFirst, TabInv, MineInv
<1>8. SharingInv
  BY <1>4 DEF SharingInv, ModalInv, ConfirmInv, GuestsInv
<1> QED BY <1>6, <1>7, <1>8 DEF EcosystemsInv

LEMMA EcosystemsServes ==
    ASSUME EcosystemsInv, NEW i \in DOMAIN pending, Ecosystems!EcosystemsServed(i)
    PROVE  EcosystemsInv'
<1>1. PICK stage, reply : Turn(i, stage, reply)
  BY EcosystemsTurns DEF EcosystemsInv
<1> QED BY <1>1, TypesServed, ListsServed, SharingServed DEF EcosystemsInv

\* The list of one's own ecosystems has come.
LEMMA MineComes ==
    ASSUME EcosystemsInv, NEW i \in DOMAIN pending, Ecosystems!MineArrives(i)
    PROVE  EcosystemsInv'
<1> DEFINE after == pending[i].arg
           asked == IF after \in Owned THEN <<Ask("users", [eco |-> after, after |-> "revoke"])>> ELSE <<>>
<1>1. /\ pending[i].op = "mine" /\ Receive(i, asked) /\ Over(i)
      /\ UNCHANGED <<access, lentToMe, activeTab, shared, shareModal, sharedUsers, confirm, overlapped, others>>
      /\ mine' = Ecosystems!Reply(i)
      /\ visibleEcosystems' = IF activeTab = "my-ecosystems" THEN Ecosystems!Reply(i) ELSE visibleEcosystems
  BY DEF Ecosystems!MineArrives, Ecosystems!Receive, Receive, Ecosystems!Over, Over,
         Ecosystems!Without, Without, Ecosystems!ForUsers, Ecosystems!Ask, Ask,
         Ecosystems!rowsOfService, Ecosystems!sharing
<1>2. EcosystemsTypes /\ Queue /\ NamesInv /\ RequestInv(pending[i])
  BY DEF EcosystemsInv, EcosystemsTypes, RequestsInv
<1>3. pending[i].stage # "failed" => pending[i].stage = "done" /\ Ecosystems!Reply(i) = pending[i].reply
  BY <1>1 DEF Over, Ecosystems!Reply, Ecosystems!Failed
<1>4. Of(Ecosystems!Reply(i)) \subseteq Known
  <2>1. CASE pending[i].stage = "failed"
    BY <2>1 DEF Ecosystems!Reply, Ecosystems!Failed, Of
  <2>2. CASE pending[i].stage # "failed"
    BY <1>1, <1>2, <1>3, <2>2 DEF RequestInv
  <2> QED BY <2>1, <2>2
<1>5. Asked(asked)
  <2>1. CASE after \in Owned
    <3>1. asked = <<Ask("users", [eco |-> after, after |-> "revoke"])>>
      BY <2>1
    <3> HIDE DEF asked
    <3> QED BY <3>1 DEF Asked
  <2>2. CASE after \notin Owned
    <3>1. asked = <<>>
      BY <2>2
    <3> HIDE DEF asked
    <3> QED BY <3>1 DEF Asked
  <2> QED BY <2>1, <2>2
<1>6. /\ after \in Owned => asked = <<Ask("users", [eco |-> after, after |-> "revoke"])>>
      /\ after \notin Owned => asked = <<>>
  OBVIOUS
<1> HIDE DEF asked
<1>7. \A m \in DOMAIN asked : asked[m].op = "users" /\ after \in Owned
  <2>1. CASE after \in Owned
    BY <1>6, <2>1, OneSent
  <2>2. CASE after \notin Owned
    BY <1>6, <2>2
  <2> QED BY <2>1, <2>2
<1>8. Fresh(asked) /\ \A m \in DOMAIN asked : RequestInv(asked[m])
  BY <1>5, AskedKinds
<1>9. NamesInv'
  <2>1. Exists' = Exists
    BY <1>1, SameLists
  <2> QED BY <1>1, <1>2, <1>4, <2>1 DEF NamesInv, Rows, Known, Of, Guested, Roles,
                                       Ecosystems!Accesses, Ecosystems!AccessRoles
<1>10. EcosystemsTypes'
  BY <1>1, <1>2, <1>8, <1>9, TypesReceived
<1>11. ListsInv'
  BY <1>1, <1>2, <1>3, <1>5, <1>7, ListsReceived DEF EcosystemsInv
<1>12. SharingInv'
  BY <1>1, <1>2, <1>5, <1>6, <1>7, SharingReceived DEF EcosystemsInv, NamesInv, Exists, Ecosystems!Existing
<1> QED BY <1>10, <1>11, <1>12 DEF EcosystemsInv

\* Nobody else has done anything, and what the page names was named before.
LEMMA NamesKept ==
    ASSUME NamesInv, UNCHANGED <<access, lentToMe, activeTab, overlapped>>,
           Of(mine') \subseteq Known, Of(shared') \subseteq Known, Of(visibleEcosystems') \subseteq Known,
           shareModal' \in {None, shareModal}, confirm' \in {None, confirm}
    PROVE  NamesInv'
<1>1. Exists' = Exists
  BY SameLists
<1> QED BY <1>1 DEF NamesInv, Rows, Known, Of, Guested, Roles, Ecosystems!Accesses, Ecosystems!AccessRoles

LEMMA SharedComes ==
    ASSUME EcosystemsInv, NEW i \in DOMAIN pending, Ecosystems!SharedArrives(i)
    PROVE  EcosystemsInv'
<1>1. PICK asked : asked = <<>>
  OBVIOUS
<1>2. /\ pending[i].op = "shared" /\ Receive(i, asked) /\ Over(i)
      /\ UNCHANGED <<access, lentToMe, activeTab, mine, shareModal, sharedUsers, confirm, overlapped, others>>
      /\ shared' = Ecosystems!Reply(i)
      /\ visibleEcosystems' = IF activeTab = "shared-with-me" THEN Ecosystems!Reply(i) ELSE visibleEcosystems
  BY <1>1 DEF Ecosystems!SharedArrives, Ecosystems!Receive, Receive, Ecosystems!Over, Over,
         Ecosystems!Without, Without, Ecosystems!rowsOfService, Ecosystems!sharing
<1>3. EcosystemsTypes /\ Queue /\ NamesInv /\ RequestInv(pending[i])
  BY DEF EcosystemsInv, EcosystemsTypes, RequestsInv
<1>4. pending[i].stage # "failed" => pending[i].stage = "done" /\ Ecosystems!Reply(i) = pending[i].reply
  BY <1>2 DEF Over, Ecosystems!Reply, Ecosystems!Failed
<1>5. Of(Ecosystems!Reply(i)) \subseteq Known
  <2>1. CASE pending[i].stage = "failed"
    BY <2>1 DEF Ecosystems!Reply, Ecosystems!Failed, Of
  <2>2. CASE pending[i].stage # "failed"
    BY <1>2, <1>3, <1>4, <2>2 DEF RequestInv
  <2> QED BY <2>1, <2>2
<1>6. Asked(asked) /\ DOMAIN asked = {}
  BY <1>1 DEF Asked
<1>7. Fresh(asked) /\ \A m \in DOMAIN asked : RequestInv(asked[m])
  BY <1>6, AskedKinds
<1>8. NamesInv'
  BY <1>2, <1>3, <1>5, NamesKept DEF NamesInv
<1>9. EcosystemsTypes'
  BY <1>2, <1>3, <1>7, <1>8, TypesReceived
<1>10. ListsInv'
  BY <1>2, <1>3, <1>4, <1>6, ListsReceived DEF EcosystemsInv
<1>11. SharingInv'
  BY <1>2, <1>3, <1>6, SharingReceived DEF EcosystemsInv, NamesInv, Exists, Ecosystems!Existing
<1> QED BY <1>9, <1>10, <1>11 DEF EcosystemsInv

LEMMA LeaveComes ==
    ASSUME EcosystemsInv, NEW i \in DOMAIN pending, Ecosystems!LeaveArrives(i)
    PROVE  EcosystemsInv'
<1>1. PICK asked : /\ pending[i].stage # "failed" => asked = <<Ask("shared", None)>>
                   /\ pending[i].stage = "failed" => asked = <<>>
                   /\ asked = IF pending[i].stage = "failed" THEN <<>> ELSE <<Ask("shared", None)>>
  OBVIOUS
<1>2. /\ pending[i].op = "leave" /\ Receive(i, asked)
      /\ UNCHANGED <<access, lentToMe, activeTab, mine, shared, visibleEcosystems, shareModal, sharedUsers,
                     confirm, overlapped, others>>
  BY <1>1 DEF Ecosystems!LeaveArrives, Ecosystems!Receive, Receive, Ecosystems!Over, Over,
         Ecosystems!Without, Without, Ecosystems!Ask, Ask, Ecosystems!Failed,
         Ecosystems!ecosystemsVars, Ecosystems!lists, Ecosystems!rowsOfService, Ecosystems!sharing
<1>3. EcosystemsTypes /\ Queue /\ NamesInv
  BY DEF EcosystemsInv, EcosystemsTypes
<1>4. Asked(asked) /\ \A m \in DOMAIN asked : asked[m].op = "shared"
  BY <1>1, OneSent DEF Asked
<1>5. Fresh(asked) /\ \A m \in DOMAIN asked : RequestInv(asked[m])
  BY <1>4, AskedKinds
<1>6. EcosystemsTypes'
  BY <1>2, <1>3, <1>5, TypesReceived, NamesKept DEF NamesInv
<1>7. ListsInv'
  BY <1>1, <1>2, <1>3, <1>4, ListsReceived DEF EcosystemsInv
<1>8. SharingInv'
  BY <1>2, <1>3, <1>4, SharingReceived DEF EcosystemsInv, NamesInv, Exists, Ecosystems!Existing
<1> QED BY <1>6, <1>7, <1>8 DEF EcosystemsInv

\* What was shared, or created, has been: the list is loaded.
LEMMA GrantComes ==
    ASSUME EcosystemsInv, NEW i \in DOMAIN pending,
           Ecosystems!ShareArrives(i) \/ Ecosystems!CreateArrives(i)
    PROVE  EcosystemsInv'
<1>1. PICK asked : /\ pending[i].stage # "failed" => asked = <<Ask("mine", pending[i].op)>>
                   /\ pending[i].stage = "failed" => asked = <<>>
  OBVIOUS
<1>2. /\ pending[i].op \in {"share", "create"} /\ Receive(i, asked)
      /\ UNCHANGED <<access, lentToMe, activeTab, mine, shared, visibleEcosystems, confirm, overlapped, others>>
      /\ \/ shareModal' = None /\ pending[i].op = "share" /\ pending[i].stage # "failed"
         \/ UNCHANGED <<shareModal, sharedUsers>> /\ (pending[i].op = "share" => pending[i].stage = "failed")
  BY <1>1 DEF Ecosystems!ShareArrives, Ecosystems!CreateArrives, Ecosystems!Receive, Receive,
         Ecosystems!Over, Over, Ecosystems!Without, Without, Ecosystems!Ask, Ask, Ecosystems!Failed,
         Ecosystems!ForList, Ecosystems!lists, Ecosystems!rowsOfService, Ecosystems!sharing
<1>3. EcosystemsTypes /\ Queue /\ NamesInv
  BY DEF EcosystemsInv, EcosystemsTypes
<1>4. Asked(asked) /\ \A m \in DOMAIN asked : asked[m].op = "mine" /\ asked[m].arg = pending[i].op
  BY <1>1, OneSent DEF Asked
<1>5. Fresh(asked) /\ \A m \in DOMAIN asked : RequestInv(asked[m])
  BY <1>4, AskedKinds
<1>6. EcosystemsTypes'
  BY <1>2, <1>3, <1>5, TypesReceived, NamesKept DEF NamesInv
<1>7. ListsInv'
  BY <1>1, <1>2, <1>3, <1>4, ListsReceived DEF EcosystemsInv
<1>8. SharingInv'
  <2>1. CASE shareModal' = None
    BY <2>1, SharingClosed
  <2>2. CASE UNCHANGED <<shareModal, sharedUsers>> /\ (pending[i].op = "share" => pending[i].stage = "failed")
    <3>1. \A m \in DOMAIN asked : asked[m].arg \notin Owned /\ asked[m].op # "users"
      BY <1>2, <1>4, EcosystemsAssumption
    <3> QED BY <1>2, <1>3, <1>4, <2>2, <3>1, SharingReceived
            DEF EcosystemsInv, NamesInv, Exists, Ecosystems!Existing
  <2> QED BY <1>2, <2>1, <2>2
<1> QED BY <1>6, <1>7, <1>8 DEF EcosystemsInv

LEMMA ChangeComes ==
    ASSUME EcosystemsInv, NEW i \in DOMAIN pending, Ecosystems!ChangeArrives(i)
    PROVE  EcosystemsInv'
<1> DEFINE e == pending[i].arg.eco
<1>1. PICK asked : /\ pending[i].stage # "failed" =>
                         asked = IF pending[i].op = "revoke" THEN <<Ask("mine", e)>>
                                 ELSE <<Ask("users", [eco |-> e, after |-> "role"])>>
                   /\ pending[i].stage = "failed" => asked = <<>>
  OBVIOUS
<1>2. /\ pending[i].op \in {"revoke", "role"} /\ Receive(i, asked)
      /\ UNCHANGED <<access, lentToMe, activeTab, mine, shared, visibleEcosystems, shareModal, sharedUsers,
                     confirm, overlapped, others>>
  BY <1>1 DEF Ecosystems!ChangeArrives, Ecosystems!Receive, Receive, Ecosystems!Over, Over,
         Ecosystems!Without, Without, Ecosystems!Ask, Ask, Ecosystems!Failed, Ecosystems!AfterRevoke,
         Ecosystems!AfterRoleChange, Ecosystems!ForList, Ecosystems!ForUsers,
         Ecosystems!lists, Ecosystems!rowsOfService, Ecosystems!sharing
<1>3. EcosystemsTypes /\ Queue /\ NamesInv
  BY DEF EcosystemsInv, EcosystemsTypes
<1>4. \/ asked = <<>>
      \/ pending[i].op = "revoke" /\ asked = <<Ask("mine", e)>>
      \/ pending[i].op = "role" /\ asked = <<Ask("users", [eco |-> e, after |-> "role"])>>
  BY <1>1, <1>2
<1>5. /\ Asked(asked)
      /\ \A m \in DOMAIN asked : /\ asked[m].op = "mine" => pending[i].op = "revoke" /\ asked[m].arg = e
                                 /\ asked[m].op = "users" => pending[i].op = "role"
  <2> HIDE DEF e
  <2>1. CASE asked = <<>>
    BY <2>1 DEF Asked
  <2>2. CASE pending[i].op = "revoke" /\ asked = <<Ask("mine", e)>>
    BY <2>2, OneSent DEF Asked
  <2>3. CASE pending[i].op = "role" /\ asked = <<Ask("users", [eco |-> e, after |-> "role"])>>
    BY <2>3, OneSent DEF Asked
  <2> QED BY <1>4, <2>1, <2>2, <2>3
<1>6. Fresh(asked) /\ \A m \in DOMAIN asked : RequestInv(asked[m])
  BY <1>5, AskedKinds
<1>7. EcosystemsTypes'
  BY <1>2, <1>3, <1>6, TypesReceived, NamesKept DEF NamesInv
<1>8. ListsInv'
  BY <1>1, <1>2, <1>3, <1>5, ListsReceived DEF EcosystemsInv
<1>9. SharingInv'
  <2>1. pending[i].stage # "failed" =>
           /\ pending[i].op = "revoke" => asked = <<Ask("mine", pending[i].arg.eco)>>
           /\ pending[i].op = "role" =>
                 asked = <<Ask("users", [eco |-> pending[i].arg.eco, after |-> "role"])>>
    BY <1>1
  <2>2. shareModal # None => shareModal \in Owned
    BY <1>3 DEF NamesInv, Exists, Ecosystems!Existing
  <2>3. SharingInv
    BY DEF EcosystemsInv
  <2>4. \A m \in DOMAIN asked : asked[m].op = "mine" /\ asked[m].arg \in Owned =>
           pending[i].op = "revoke" /\ asked[m].arg = pending[i].arg.eco
    BY <1>5
  <2>5. pending[i].op # "role" => \A m \in DOMAIN asked : asked[m].op # "users"
    BY <1>5
  <2>6. pending[i].op \notin {"share", "mine", "users"}
    BY <1>2
  <2>7. pending[i].stage # "failed" =>
           /\ pending[i].op # "share"
           /\ pending[i].op = "revoke" => asked = <<Ask("mine", pending[i].arg.eco)>>
           /\ pending[i].op = "role" =>
                 asked = <<Ask("users", [eco |-> pending[i].arg.eco, after |-> "role"])>>
           /\ pending[i].op = "mine" /\ pending[i].arg \in Owned =>
                 asked = <<Ask("users", [eco |-> pending[i].arg, after |-> "revoke"])>>
           /\ pending[i].op = "users" =>
                 sharedUsers' = [of |-> pending[i].arg.eco, users |-> pending[i].reply]
    BY <2>1, <2>6
  <2>8. UNCHANGED <<access, shareModal, confirm, overlapped, others>> /\ sharedUsers' = sharedUsers
    BY <1>2
  <2>9. ~(pending[i].op = "role" \/ (pending[i].op = "mine" /\ pending[i].arg \in Owned)) =>
           \A m \in DOMAIN asked : asked[m].op # "users"
    BY <2>5
  <2>10. Queue /\ Asked(asked) /\ Receive(i, asked)
    BY <1>2, <1>3, <1>5
  <2> QED BY <2>2, <2>3, <2>4, <2>7, <2>8, <2>9, <2>10, SharingReceived, Zenon
<1> QED BY <1>7, <1>8, <1>9 DEF EcosystemsInv

LEMMA AccessesCome ==
    ASSUME EcosystemsInv, NEW i \in DOMAIN pending, Ecosystems!AccessesArrive(i)
    PROVE  EcosystemsInv'
<1>1. PICK asked : asked = <<>>
  OBVIOUS
<1>2. /\ pending[i].op = "users" /\ Receive(i, asked)
      /\ UNCHANGED <<access, lentToMe, activeTab, mine, shared, visibleEcosystems, shareModal,
                     confirm, overlapped, others>>
      /\ pending[i].stage # "failed" =>
            sharedUsers' = [of |-> pending[i].arg.eco, users |-> pending[i].reply]
  BY <1>1 DEF Ecosystems!AccessesArrive, Ecosystems!Receive, Receive, Ecosystems!Over, Over,
         Ecosystems!Without, Without, Ecosystems!Failed, Ecosystems!lists, Ecosystems!rowsOfService
<1>3. EcosystemsTypes /\ Queue /\ NamesInv
  BY DEF EcosystemsInv, EcosystemsTypes
<1>4. Asked(asked) /\ DOMAIN asked = {}
  BY <1>1 DEF Asked
<1>5. Fresh(asked) /\ \A m \in DOMAIN asked : RequestInv(asked[m])
  BY <1>4, AskedKinds
<1>6. EcosystemsTypes'
  BY <1>2, <1>3, <1>5, TypesReceived, NamesKept DEF NamesInv
<1>7. ListsInv'
  BY <1>2, <1>3, <1>4, ListsReceived DEF EcosystemsInv
<1>8. SharingInv'
  BY <1>2, <1>3, <1>4, SharingReceived DEF EcosystemsInv, NamesInv, Exists, Ecosystems!Existing
<1> QED BY <1>6, <1>7, <1>8 DEF EcosystemsInv

\* The page sends what concerns no list and loads no accesses.
LEMMA PageSends ==
    ASSUME EcosystemsInv, NEW op \in {"share", "revoke", "role", "create"}, NEW arg,
           Send(<<Ask(op, arg)>>),
           op # "create" => Guested(arg), op = "role" => arg.action \in Roles,
           op = "create" => arg.eco \in Owned,
           op # "create" /\ shareModal # None => arg.eco = shareModal,
           UNCHANGED <<access, lentToMe, activeTab, mine, shared, visibleEcosystems, shareModal,
                       sharedUsers, overlapped, others>>,
           confirm' \in {None, confirm}
    PROVE  EcosystemsInv'
<1>1. Queue /\ NamesInv /\ EcosystemsTypes /\ ListsInv /\ SharingInv /\ overlapped \in BOOLEAN
  BY DEF EcosystemsInv, EcosystemsTypes, NamesInv
<1>2. RequestInv(Ask(op, arg))
  BY DEF RequestInv, Ask
<1>3. EcosystemsTypes'
  BY <1>1, <1>2, TypesSent, NamesKept DEF NamesInv
<1>4. ListsInv'
  BY <1>1, ListsSent
<1>5. ConfirmInv'
  BY <1>1 DEF SharingInv, ConfirmInv
<1>6. SharingInv'
  BY <1>1, <1>5, SharingSent
<1> QED BY <1>3, <1>4, <1>6 DEF EcosystemsInv

LEMMA EcosystemsSends ==
    ASSUME EcosystemsInv,
           \/ \E g \in Guests : Ecosystems!handleShareEcosystem(g)
           \/ Ecosystems!executeRevoke \/ Ecosystems!executeRoleChange
           \/ Ecosystems!handleCreateEcosystem
    PROVE  EcosystemsInv'
<1> USE DEF Ecosystems!rowsOfService, Ecosystems!lists, Ecosystems!sharing
<1>1. \A more : Ecosystems!Send(more) => Send(more)
  BY DEF Ecosystems!Send, Send
<1>2. NamesInv /\ ConfirmInv
  BY DEF EcosystemsInv, EcosystemsTypes, SharingInv
<1>3. ASSUME NEW g \in Guests, Ecosystems!handleShareEcosystem(g) PROVE EcosystemsInv'
  <2> DEFINE arg == [eco |-> shareModal, guest |-> g]
  <2>1. /\ Send(<<Ask("share", arg)>>) /\ shareModal # None
        /\ UNCHANGED <<access, lentToMe, activeTab, mine, shared, visibleEcosystems, shareModal,
                       sharedUsers, confirm, overlapped, others>>
    BY <1>1, <1>3 DEF Ecosystems!handleShareEcosystem, Ecosystems!Ask, Ask
  <2>2. Guested(arg) /\ arg.eco = shareModal
    BY <1>2, <2>1 DEF Guested, NamesInv
  <2> HIDE DEF arg
  <2> QED BY <2>1, <2>2, PageSends
<1>4. ASSUME Ecosystems!executeRevoke \/ Ecosystems!executeRoleChange PROVE EcosystemsInv'
  <2>1. PICK op \in {"revoke", "role"} :
           /\ Send(<<Ask(op, confirm)>>) /\ confirm # None
           /\ op = "role" <=> confirm.action # "revoke"
    BY <1>1, <1>4 DEF Ecosystems!executeRevoke, Ecosystems!executeRoleChange, Ecosystems!Ask, Ask
  <2>2. /\ UNCHANGED <<access, lentToMe, activeTab, mine, shared, visibleEcosystems, shareModal,
                       sharedUsers, overlapped, others>>
        /\ confirm' = None
    BY <1>4 DEF Ecosystems!executeRevoke, Ecosystems!executeRoleChange
  <2>3. Guested(confirm) /\ (op = "role" => confirm.action \in Roles)
    BY <1>2, <2>1 DEF NamesInv
  <2>4. shareModal # None => confirm.eco = shareModal
    BY <1>2, <2>1 DEF ConfirmInv
  <2> QED BY <2>1, <2>2, <2>3, <2>4, PageSends
<1>5. ASSUME Ecosystems!handleCreateEcosystem PROVE EcosystemsInv'
  <2>1. PICK e \in Owned : Ecosystems!Send(<<Ecosystems!Ask("create", [eco |-> e])>>)
    BY <1>5 DEF Ecosystems!handleCreateEcosystem
  <2> DEFINE arg == [eco |-> e]
  <2>2. Send(<<Ask("create", arg)>>) /\ arg.eco = e
    BY <1>1, <2>1 DEF Ecosystems!Ask, Ask
  <2>3. UNCHANGED <<access, lentToMe, activeTab, mine, shared, visibleEcosystems, shareModal,
                    sharedUsers, confirm, overlapped, others>>
    BY <1>5 DEF Ecosystems!handleCreateEcosystem
  <2> HIDE DEF arg
  <2> QED BY <2>2, <2>3, PageSends
<1> QED BY <1>3, <1>4, <1>5

LEMMA TabSet ==
    ASSUME EcosystemsInv, NEW tab \in {"my-ecosystems", "shared-with-me"}, Ecosystems!setActiveTab(tab)
    PROVE  EcosystemsInv'
<1> USE DEF Ecosystems!rowsOfService, Ecosystems!sharing
<1> DEFINE op == IF tab = "my-ecosystems" THEN "mine" ELSE "shared"
<1>1. /\ Send(<<Ask(op, None)>>) /\ activeTab' = tab /\ shareModal' = None
      /\ UNCHANGED <<access, lentToMe, mine, shared, confirm, overlapped>>
      /\ visibleEcosystems' \in {mine, shared} /\ shareModal' = shareModal
  BY DEF Ecosystems!setActiveTab, Ecosystems!Send, Send, Ecosystems!ForList, Ecosystems!Ask, Ask,
         Ecosystems!Uncovered
<1>2. NamesInv /\ EcosystemsTypes
  BY DEF EcosystemsInv, EcosystemsTypes
<1>3. NamesInv'
  <2>1. Exists' = Exists
    BY <1>1, SameLists
  <2> QED BY <1>1, <1>2, <2>1 DEF NamesInv, Rows, Known, Of, Guested, Roles,
                                 Ecosystems!Accesses, Ecosystems!AccessRoles
<1>4. RequestInv(Ask(op, None))
  BY EcosystemsAssumption DEF RequestInv, Ask
<1>5. EcosystemsTypes'
  <2> HIDE DEF op
  <2> QED BY <1>1, <1>2, <1>3, <1>4, TypesSent
<1>6. ListsInv'
  BY ListsTab DEF EcosystemsInv
<1> QED BY <1>1, <1>5, <1>6, SharingClosed DEF EcosystemsInv

LEMMA SharedLeft ==
    ASSUME EcosystemsInv, NEW e \in Owned \cup {Lent}, Ecosystems!leaveShared(e)
    PROVE  EcosystemsInv'
<1> USE DEF Ecosystems!rowsOfService, Ecosystems!sharing
<1> DEFINE arg == [eco |-> e]
<1>1. /\ Send(<<Ask("leave", arg)>>) /\ shareModal' = None
      /\ UNCHANGED <<access, lentToMe, activeTab, mine, shared, confirm, shareModal>>
      /\ visibleEcosystems' = {v \in visibleEcosystems : v.eco # e}
      /\ overlapped' \in BOOLEAN
  BY DEF Ecosystems!leaveShared, Ecosystems!Send, Send, Ecosystems!Ask, Ask, Ecosystems!Uncovered,
         EcosystemsInv, EcosystemsTypes, NamesInv
<1>2. NamesInv /\ EcosystemsTypes
  BY DEF EcosystemsInv, EcosystemsTypes
<1>3. NamesInv'
  <2>1. Exists' = Exists
    BY <1>1, SameLists
  <2> QED BY <1>1, <1>2, <2>1 DEF NamesInv, Rows, Known, Of, Guested, Roles,
                                 Ecosystems!Accesses, Ecosystems!AccessRoles
<1>4. RequestInv(Ask("leave", arg))
  BY DEF RequestInv, Ask
<1>5. EcosystemsTypes'
  BY <1>1, <1>2, <1>3, <1>4, TypesSent
<1>6. ListsInv'
  BY ListsLeft DEF EcosystemsInv
<1> QED BY <1>1, <1>5, <1>6, SharingClosed DEF EcosystemsInv

LEMMA ModalOpened ==
    ASSUME EcosystemsInv, NEW e \in Owned, Ecosystems!openShareModal(e)
    PROVE  EcosystemsInv'
<1> USE DEF Ecosystems!rowsOfService, Ecosystems!lists
<1> DEFINE arg == [eco |-> e, after |-> None]
<1>1. /\ Send(<<Ask("users", arg)>>) /\ shareModal' = e
      /\ UNCHANGED <<access, lentToMe, activeTab, mine, shared, visibleEcosystems, confirm, others>>
      /\ overlapped' \in BOOLEAN /\ (overlapped' = FALSE => overlapped = FALSE)
  BY DEF Ecosystems!openShareModal, Ecosystems!Send, Send, Ecosystems!Ask, Ask, Ecosystems!ForUsers,
         EcosystemsInv, EcosystemsTypes, NamesInv
<1>2. NamesInv /\ EcosystemsTypes /\ Queue /\ ListsInv /\ SharingInv
  BY DEF EcosystemsInv, EcosystemsTypes
<1>3. e \in Exists
  BY <1>2, EcosystemsAssumption DEF Ecosystems!openShareModal, NamesInv, Of, Known
<1>4. NamesInv'
  <2>1. Exists' = Exists
    BY <1>1, SameLists
  <2> QED BY <1>1, <1>2, <1>3, <2>1 DEF NamesInv, Rows, Known, Of, Guested, Roles,
                                 Ecosystems!Accesses, Ecosystems!AccessRoles
<1>5. RequestInv(Ask("users", arg))
  BY DEF RequestInv, Ask
<1>6. EcosystemsTypes'
  <2> HIDE DEF arg
  <2> QED BY <1>1, <1>2, <1>4, <1>5, TypesSent
<1>7. ListsInv'
  <2> HIDE DEF arg
  <2> QED BY <1>1, <1>2, ListsSent
<1> QED BY <1>2, <1>6, <1>7, SharingOpened DEF EcosystemsInv

\* A dialog, the create modal, and what other users do: nothing is sent.
LEMMA NothingSent ==
    ASSUME EcosystemsInv,
           \/ Ecosystems!ByOtherUsers
           \/ Ecosystems!closeShareModal \/ Ecosystems!CancelPrompt
           \/ \E g \in Guests, action \in {"revoke"} \cup Roles : Ecosystems!Prompt(action, g)
           \/ Ecosystems!openCreateModal \/ Ecosystems!closeCreateModal
    PROVE  EcosystemsInv'
<1> USE DEF Ecosystems!rowsOfService, Ecosystems!lists, Ecosystems!sharing
<1>1. NamesInv /\ EcosystemsTypes /\ ListsInv /\ SharingInv
  BY DEF EcosystemsInv, EcosystemsTypes
<1>2. CASE Ecosystems!ByOtherUsers
  <2>1. /\ UNCHANGED <<pending, inOrder, failures, activeTab, mine, shared, visibleEcosystems,
                       shareModal, sharedUsers, confirm, overlapped>>
        /\ others' = TRUE
    BY <1>2 DEF Ecosystems!ByOtherUsers
  <2>2. /\ access' \in Rows /\ lentToMe' \in BOOLEAN /\ Exists' = Exists
    <3>1. CASE lentToMe' = FALSE /\ UNCHANGED access
      BY <1>1, <3>1 DEF NamesInv, Rows, Exists, Ecosystems!Existing, Ecosystems!Accesses,
                       Ecosystems!AccessRoles
    <3>2. ASSUME NEW e \in Ecosystems!Existing, NEW g \in Guests,
                 access' = [access EXCEPT ![e][g] = "VIEWER"], UNCHANGED lentToMe
          PROVE  access' \in Rows /\ lentToMe' \in BOOLEAN /\ Exists' = Exists
      <4>1. "VIEWER" \in Ecosystems!Accesses /\ e \in Exists /\ access \in Rows
        BY <1>1 DEF Ecosystems!Accesses, Ecosystems!AccessRoles, Exists, NamesInv
      <4>2. access' \in Rows /\ Exists' = Exists
        BY <3>2, <4>1, AccessChanges
      <4> QED BY <1>1, <3>2, <4>2 DEF NamesInv
    <3> QED BY <1>2, <3>1, <3>2 DEF Ecosystems!ByOtherUsers
  <2>3. NamesInv'
    BY <1>1, <2>1, <2>2 DEF NamesInv, Known, Of, Guested, Roles, Ecosystems!AccessRoles
  <2>4. EcosystemsTypes'
    BY <1>1, <2>1, <2>2, <2>3, TypesKept
  <2>5. ListsInv'
    BY <1>1, <2>1, ListsKept
  <2>6. SharingInv'
    <3>1. ConfirmInv'
      BY <1>1, <2>1 DEF SharingInv, ConfirmInv
    <3> QED BY <1>1, <2>1, <3>1, SharingKept
  <2> QED BY <2>4, <2>5, <2>6 DEF EcosystemsInv
<1>3. ASSUME UNCHANGED <<pending, inOrder, failures, access, lentToMe, activeTab, mine, shared,
                         visibleEcosystems, overlapped, others>>,
             NamesInv', SharingInv'
      PROVE  EcosystemsInv'
  <2>1. Exists' = Exists
    BY <1>3, SameLists
  <2>2. EcosystemsTypes'
    BY <1>1, <1>3, <2>1, TypesKept
  <2>3. ListsInv'
    BY <1>1, <1>3, ListsKept
  <2> QED BY <1>3, <2>2, <2>3 DEF EcosystemsInv
<1>4. CASE Ecosystems!closeShareModal
  <2>1. /\ UNCHANGED <<pending, inOrder, failures, access, lentToMe, activeTab, mine, shared,
                       visibleEcosystems, overlapped, others, confirm>>
        /\ shareModal' = None
    BY <1>4 DEF Ecosystems!closeShareModal, Ecosystems!requestVars
  <2>2. NamesInv'
    BY <1>1, <2>1, NamesKept DEF NamesInv
  <2> QED BY <1>3, <2>1, <2>2, SharingClosed
<1>5. CASE Ecosystems!CancelPrompt \/ Ecosystems!openCreateModal \/ Ecosystems!closeCreateModal
  <2>1. /\ UNCHANGED <<pending, inOrder, failures, access, lentToMe, activeTab, mine, shared,
                       visibleEcosystems, overlapped, others, shareModal, sharedUsers>>
        /\ confirm' \in {None, confirm}
    BY <1>5 DEF Ecosystems!CancelPrompt, Ecosystems!openCreateModal, Ecosystems!closeCreateModal,
               Ecosystems!requestVars
  <2>2. NamesInv'
    BY <1>1, <2>1, NamesKept DEF NamesInv
  <2>3. ConfirmInv'
    BY <1>1, <2>1 DEF SharingInv, ConfirmInv
  <2> QED BY <1>1, <1>3, <2>1, <2>2, <2>3, SharingKept
<1>6. ASSUME NEW g \in Guests, NEW action \in {"revoke"} \cup Roles, Ecosystems!Prompt(action, g)
      PROVE  EcosystemsInv'
  <2>1. /\ UNCHANGED <<pending, inOrder, failures, access, lentToMe, activeTab, mine, shared,
                       visibleEcosystems, overlapped, others, shareModal, sharedUsers>>
        /\ confirm' = [eco |-> shareModal, guest |-> g, action |-> action] /\ shareModal # None
    BY <1>6 DEF Ecosystems!Prompt, Ecosystems!requestVars
  <2>2. confirm'.eco = shareModal /\ confirm'.guest = g /\ confirm'.action = action
    BY <2>1
  <2>3. Exists' = Exists
    BY <2>1, SameLists
  <2>4. NamesInv'
    BY <1>1, <2>1, <2>2, <2>3 DEF NamesInv, Rows, Known, Of, Guested, Roles,
                                 Ecosystems!Accesses, Ecosystems!AccessRoles
  <2>5. ConfirmInv'
    BY <2>1, <2>2 DEF ConfirmInv
  <2> QED BY <1>1, <1>3, <2>1, <2>4, <2>5, SharingKept
<1> QED BY <1>2, <1>4, <1>5, <1>6

LEMMA EcosystemsStep == EcosystemsInv /\ Ecosystems!EcosystemsNext => EcosystemsInv'
<1> SUFFICES ASSUME EcosystemsInv, Ecosystems!EcosystemsNext PROVE EcosystemsInv'
  OBVIOUS
<1>1. ASSUME NEW i \in DOMAIN pending,
             \/ Ecosystems!EcosystemsServed(i)
             \/ Ecosystems!MineArrives(i) \/ Ecosystems!SharedArrives(i) \/ Ecosystems!LeaveArrives(i)
             \/ Ecosystems!ShareArrives(i) \/ Ecosystems!ChangeArrives(i)
             \/ Ecosystems!AccessesArrive(i) \/ Ecosystems!CreateArrives(i)
      PROVE  EcosystemsInv'
  BY <1>1, EcosystemsServes, MineComes, SharedComes, LeaveComes, GrantComes, ChangeComes, AccessesCome
<1>2. ASSUME \/ \E g \in Guests : Ecosystems!handleShareEcosystem(g)
             \/ Ecosystems!executeRevoke \/ Ecosystems!executeRoleChange
             \/ Ecosystems!handleCreateEcosystem
      PROVE  EcosystemsInv'
  BY <1>2, EcosystemsSends
<1>3. ASSUME \/ Ecosystems!ByOtherUsers
             \/ Ecosystems!closeShareModal \/ Ecosystems!CancelPrompt
             \/ \E g \in Guests, action \in {"revoke"} \cup Roles : Ecosystems!Prompt(action, g)
             \/ Ecosystems!openCreateModal \/ Ecosystems!closeCreateModal
      PROVE  EcosystemsInv'
  BY <1>3, NothingSent
<1>4. ASSUME \/ \E tab \in {"my-ecosystems", "shared-with-me"} : Ecosystems!setActiveTab(tab)
             \/ \E e \in Owned \cup {Lent} : Ecosystems!leaveShared(e)
             \/ \E e \in Owned : Ecosystems!openShareModal(e)
      PROVE  EcosystemsInv'
  BY <1>4, TabSet, SharedLeft, ModalOpened
<1> QED BY <1>1, <1>2, <1>3, <1>4 DEF Ecosystems!EcosystemsNext, Roles

LEMMA EcosystemsRest == EcosystemsInv /\ UNCHANGED <<requestVars, sharings>> => EcosystemsInv'
<1> SUFFICES ASSUME EcosystemsInv, UNCHANGED <<requestVars, sharings>> PROVE EcosystemsInv'
  OBVIOUS
<1>1. UNCHANGED <<pending, inOrder, failures, access, lentToMe, activeTab, mine, shared,
                  visibleEcosystems, shareModal, sharedUsers, confirm, overlapped, others>>
  BY DEF requestVars, sharings
<1>2. NamesInv /\ EcosystemsTypes /\ ListsInv /\ SharingInv
  BY DEF EcosystemsInv, EcosystemsTypes
<1>3. NamesInv' /\ Exists' = Exists
  BY <1>1, <1>2, NamesKept, SameLists DEF NamesInv
<1>4. EcosystemsTypes'
  BY <1>1, <1>2, <1>3, TypesKept
<1>5. ListsInv'
  BY <1>1, <1>2, ListsKept
<1>6. ConfirmInv'
  BY <1>1, <1>2 DEF SharingInv, ConfirmInv
<1>7. SharingInv'
  BY <1>1, <1>2, <1>6, SharingKept
<1> QED BY <1>4, <1>5, <1>7 DEF EcosystemsInv

LEMMA EcosystemsPromises == EcosystemsInv => Ecosystems!TabAgrees /\ Ecosystems!UsersAreTheirs
<1> SUFFICES ASSUME EcosystemsInv, pending = <<>>, inOrder, ~failures, ~others, ~overlapped
             PROVE  /\ visibleEcosystems = IF activeTab = "my-ecosystems" THEN Ecosystems!MyEcosystems
                                           ELSE Ecosystems!SharedWithMe
                    /\ shareModal # None =>
                          sharedUsers = [of |-> shareModal, users |-> access[shareModal]]
  BY DEF Ecosystems!TabAgrees, Ecosystems!UsersAreTheirs, Ecosystems!Quiet
<1>1. Undisturbed /\ DOMAIN pending = {}
  BY DEF Undisturbed
<1>2. ~Leaving /\ ~NeverLeft
  BY <1>1 DEF Leaving, NeverLeft
<1>3. TabInv /\ GuestsInv
  BY DEF EcosystemsInv, ListsInv, SharingInv
<1>4. /\ ~Coming("mine", Ecosystems!MyEcosystems)
      /\ ~Coming("shared", Ecosystems!SharedWithMe)
  BY <1>1 DEF Coming
<1>5. visibleEcosystems = IF activeTab = "my-ecosystems" THEN Ecosystems!MyEcosystems
                          ELSE Ecosystems!SharedWithMe
  BY <1>1, <1>2, <1>3, <1>4 DEF TabInv, MineInv, SharedInv
<1>6. shareModal # None => sharedUsers = [of |-> shareModal, users |-> access[shareModal]]
  BY <1>1, <1>3 DEF GuestsInv
<1> QED BY <1>5, <1>6

-----------------------------------------------------------------------------
(* DevicesModal                                                             *)

Plan == [name : Nat, devices : [Devices -> Nat]]

ChangeInv(r) ==
    /\ r.op \in {"save", "rename", "revoke", "device"} /\ r.stage \in {"sent", "done", "failed"}
    /\ r.op = "save" =>
          /\ r.arg = [mounted |-> r.arg.mounted, id |-> r.arg.id, form |-> r.arg.form,
                      value |-> r.arg.value]
          /\ r.arg.id \in Devices /\ r.arg.value \in Nat
    /\ r.op = "rename" =>
          /\ r.arg = [mounted |-> r.arg.mounted, copy |-> r.arg.copy, value |-> r.arg.value]
          /\ r.arg.copy \in Plan /\ r.arg.value \in Nat
    /\ r.op = "revoke" => r.arg = [mounted |-> r.arg.mounted]
    /\ r.op = "device" => r.arg.id \in Devices

\* A copy whose devices have values of before, and none that is being saved.
Good(c) ==
    /\ c \in Plan
    /\ \A d \in Devices : c.devices[d] <= moves
    /\ \A i \in DOMAIN pending : pending[i].op = "save" =>
          \A d \in Devices : c.devices[d] # pending[i].arg.value

\* No value is saved twice.
ValuesInv ==
    /\ moves \in Nat /\ row \in Plan
    /\ \A i \in DOMAIN pending :
          /\ ChangeInv(pending[i])
          /\ pending[i].op = "save" => pending[i].arg.value <= moves
          /\ pending[i].op = "rename" => Good(pending[i].arg.copy)
    /\ \A i, j \in DOMAIN pending :
          pending[i].op = "save" /\ pending[j].op = "save"
          /\ pending[i].arg.value = pending[j].arg.value => i = j

\* The modal shows the copy that is in the list.
CopiesInv ==
    /\ visible # None => Good(visible)
    /\ ecosystem # None => Good(ecosystem) /\ selectedDeviceId \in Devices
    /\ ecosystem # None /\ visible # None => ecosystem = visible
    /\ selectedDevice # None => selectedDevice.id \in Devices

\* The changes after a step were changes before it, each in a place of its own.
Carried(back) ==
    /\ \A j \in DOMAIN pending' : ChangeInv(pending'[j])
    /\ \A j \in DOMAIN pending' : pending'[j].op # "device" =>
          /\ back[j] \in DOMAIN pending /\ pending'[j].op = pending[back[j]].op
          /\ pending'[j].op = "save" =>
                /\ pending'[j].arg.id = pending[back[j]].arg.id
                /\ pending'[j].arg.value = pending[back[j]].arg.value
          /\ pending'[j].op = "rename" =>
                /\ pending'[j].arg.copy = pending[back[j]].arg.copy
                /\ pending'[j].arg.value = pending[back[j]].arg.value
    /\ \A j, k \in DOMAIN pending' :
          pending'[j].op # "device" /\ pending'[k].op # "device" /\ back[j] = back[k] => j = k

LEMMA ValuesCarried ==
    ASSUME ValuesInv, NEW back, Carried(back), moves' \in Nat, moves <= moves', row' \in Plan
    PROVE  ValuesInv' /\ \A c : Good(c) => Good(c)'
<1>1. \A c : Good(c) => Good(c)'
  <2> SUFFICES ASSUME NEW c, Good(c) PROVE Good(c)'
    OBVIOUS
  <2>1. \A d \in Devices : c.devices[d] <= moves'
    <3>1. \A d \in Devices : c.devices[d] \in Nat /\ c.devices[d] <= moves
      BY DEF Good, Plan
    <3> QED BY <3>1 DEF ValuesInv
  <2>2. ASSUME NEW i \in DOMAIN pending', pending'[i].op = "save", NEW d \in Devices
        PROVE  c.devices[d] # pending'[i].arg.value
    BY <2>2 DEF Carried, Good
  <2> QED BY <2>1, <2>2 DEF Good
<1>2. ASSUME NEW i \in DOMAIN pending'
      PROVE  /\ ChangeInv(pending'[i])
             /\ pending'[i].op = "save" => pending'[i].arg.value <= moves'
             /\ pending'[i].op = "rename" => Good(pending[i].arg.copy)'
  <2>1. ChangeInv(pending'[i])
    BY DEF Carried
  <2>2. ASSUME pending'[i].op = "save" PROVE pending'[i].arg.value <= moves'
    <3>1. /\ back[i] \in DOMAIN pending /\ pending[back[i]].op = "save"
          /\ pending'[i].arg.value = pending[back[i]].arg.value
      BY <2>2 DEF Carried
    <3>2. pending[back[i]].arg.value \in Nat /\ pending[back[i]].arg.value <= moves
      BY <3>1 DEF ValuesInv, ChangeInv
    <3> QED BY <3>1, <3>2 DEF ValuesInv
  <2>3. ASSUME pending'[i].op = "rename" PROVE Good(pending[i].arg.copy)'
    <3>1. /\ back[i] \in DOMAIN pending /\ pending[back[i]].op = "rename"
          /\ pending'[i].arg.copy = pending[back[i]].arg.copy
      BY <2>3 DEF Carried
    <3>2. PICK c : c = pending[back[i]].arg.copy
      OBVIOUS
    <3>3. Good(c)
      BY <3>1, <3>2 DEF ValuesInv
    <3>4. Good(c)' /\ pending'[i].arg.copy = c
      BY <1>1, <3>1, <3>2, <3>3
    <3> QED BY <3>4 DEF Good
  <2> QED BY <2>1, <2>2, <2>3
<1>3. ASSUME NEW i \in DOMAIN pending', NEW j \in DOMAIN pending',
             pending'[i].op = "save", pending'[j].op = "save",
             pending'[i].arg.value = pending'[j].arg.value
      PROVE  i = j
  <2>1. /\ back[i] \in DOMAIN pending /\ pending[back[i]].op = "save"
        /\ pending'[i].arg.value = pending[back[i]].arg.value
        /\ back[j] \in DOMAIN pending /\ pending[back[j]].op = "save"
        /\ pending'[j].arg.value = pending[back[j]].arg.value
    BY <1>3 DEF Carried
  <2>2. back[i] = back[j]
    BY <1>3, <2>1 DEF ValuesInv
  <2> QED BY <1>3, <2>2 DEF Carried
<1>4. ValuesInv'
  BY <1>2, <1>3 DEF ValuesInv
<1> QED BY <1>1, <1>4

\* Changes that do not cross are one at a time.
OneChange == ~crossed => \A i, j \in DOMAIN pending :
    pending[i].op # "device" /\ pending[j].op # "device" => i = j

LEMMA OneCarried ==
    ASSUME OneChange, NEW back, Carried(back), crossed' = crossed
    PROVE  OneChange'
  BY DEF OneChange, Carried

\* What the service has is what the list shows, but for the change that is
\* under way.
RowInv == ~failures /\ ~crossed /\ visible # None =>
    /\ \A i \in DOMAIN pending :
          /\ pending[i].op = "save" =>
                row = IF pending[i].stage = "done"
                      THEN [visible EXCEPT !.devices[pending[i].arg.id] = pending[i].arg.value]
                      ELSE visible
          /\ pending[i].op = "rename" =>
                /\ pending[i].arg.copy = visible
                /\ row = IF pending[i].stage = "done"
                         THEN [visible EXCEPT !.name = pending[i].arg.value] ELSE visible
          /\ pending[i].op = "revoke" => row = visible
    /\ NoneOf("save") /\ NoneOf("rename") /\ NoneOf("revoke") => row = visible

\* Neither the list nor the changes are touched.
LEMMA RowCarried ==
    ASSUME RowInv, ValuesInv, NEW back, Carried(back), UNCHANGED <<row, visible, crossed>>,
           ~failures' => ~failures,
           \A j \in DOMAIN pending' : pending'[j].op # "device" =>
              pending'[j].stage = pending[back[j]].stage,
           \A k \in DOMAIN pending : pending[k].op # "device" =>
              \E j \in DOMAIN pending' : pending'[j].op # "device" /\ back[j] = k
    PROVE  RowInv'
<1> SUFFICES ASSUME ~failures, ~crossed, visible # None PROVE RowInv'
  BY DEF RowInv
<1>1. ASSUME NEW j \in DOMAIN pending'
      PROVE  /\ pending'[j].op = "save" =>
                  row = IF pending'[j].stage = "done"
                        THEN [visible EXCEPT !.devices[pending'[j].arg.id] = pending'[j].arg.value]
                        ELSE visible
             /\ pending'[j].op = "rename" =>
                  /\ pending'[j].arg.copy = visible
                  /\ row = IF pending'[j].stage = "done"
                           THEN [visible EXCEPT !.name = pending'[j].arg.value] ELSE visible
             /\ pending'[j].op = "revoke" => row = visible
  <2>1. CASE pending'[j].op = "device"
    BY <2>1
  <2>2. CASE pending'[j].op # "device"
    <3> DEFINE k == back[j]
    <3>1. /\ k \in DOMAIN pending /\ pending'[j].op = pending[k].op
          /\ pending'[j].stage = pending[k].stage
          /\ pending'[j].op = "save" => /\ pending'[j].arg.id = pending[k].arg.id
                                        /\ pending'[j].arg.value = pending[k].arg.value
          /\ pending'[j].op = "rename" => /\ pending'[j].arg.copy = pending[k].arg.copy
                                          /\ pending'[j].arg.value = pending[k].arg.value
      BY <2>2 DEF Carried
    <3> HIDE DEF k
    <3>2. /\ pending[k].op = "save" =>
                row = IF pending[k].stage = "done"
                      THEN [visible EXCEPT !.devices[pending[k].arg.id] = pending[k].arg.value]
                      ELSE visible
          /\ pending[k].op = "rename" =>
                /\ pending[k].arg.copy = visible
                /\ row = IF pending[k].stage = "done"
                         THEN [visible EXCEPT !.name = pending[k].arg.value] ELSE visible
          /\ pending[k].op = "revoke" => row = visible
      BY <3>1 DEF RowInv
    <3>3. CASE pending'[j].op = "save"
      BY <3>1, <3>2, <3>3
    <3>4. CASE pending'[j].op = "rename"
      BY <3>1, <3>2, <3>4
    <3>5. CASE pending'[j].op = "revoke"
      BY <3>1, <3>2, <3>5
    <3> QED BY <3>3, <3>4, <3>5
  <2> QED BY <2>1, <2>2
<1>2. (NoneOf("save") /\ NoneOf("rename") /\ NoneOf("revoke"))' => row = visible
  <2> SUFFICES ASSUME NoneOf("save")', NoneOf("rename")', NoneOf("revoke")' PROVE row = visible
    OBVIOUS
  <2>1. \A j \in DOMAIN pending' : pending'[j].op = "device"
    BY DEF NoneOf, Carried, ChangeInv
  <2>2. \A k \in DOMAIN pending : pending[k].op = "device"
    BY <2>1
  <2> QED BY <2>2 DEF RowInv, NoneOf
<1> QED BY <1>1, <1>2 DEF RowInv

\* The device that is selected will be loaded again, or is being loaded, or is
\* shown.
Settling == inOrder /\ ~failures /\ ecosystem # None =>
    \/ ~NoneOf("save")
    \/ \E i \in DOMAIN pending :
          /\ Latest(i, "device") /\ pending[i].arg.id = selectedDeviceId
          /\ pending[i].stage = "sent" \/ pending[i].reply = row.devices[selectedDeviceId]
    \/ /\ NoneOf("device")
       /\ selectedDevice = [id |-> selectedDeviceId, value |-> row.devices[selectedDeviceId]]
       /\ edited = selectedDeviceId

DevicesInv == Queue /\ ValuesInv /\ CopiesInv /\ OneChange /\ RowInv /\ Settling

LEMMA DevicesStart == Modal!DevicesInit => DevicesInv
<1> SUFFICES ASSUME Modal!DevicesInit PROVE DevicesInv
  OBVIOUS
<1>1. PICK first : first = <<>>
  OBVIOUS
<1>2. RequestsInit(first) /\ Fresh(first) /\ pending = <<>>
  BY <1>1, NoneSent DEF Modal!DevicesInit, Modal!RequestsInit, RequestsInit
<1>3. Queue
  BY <1>2, FirstQueue
<1>4. DOMAIN pending = {}
  BY <1>2
<1>5. /\ moves = 0 /\ visible = row /\ ecosystem = None /\ selectedDevice = None
      /\ row = [name |-> 0, devices |-> [d \in Devices |-> 0]]
  BY DEF Modal!DevicesInit, Modal!RequestsInit
<1>6. row \in Plan /\ \A d \in Devices : row.devices[d] = 0
  BY <1>5 DEF Plan
<1>7. ValuesInv /\ CopiesInv
  BY <1>4, <1>5, <1>6 DEF ValuesInv, CopiesInv, Good
<1>8. OneChange /\ RowInv /\ Settling
  BY <1>4, <1>5 DEF OneChange, RowInv, Settling
<1> QED BY <1>3, <1>7, <1>8 DEF DevicesInv

\* auth takes a request: what may have changed.
Took(i, stage, reply) ==
    /\ Serve(i, stage, reply) /\ pending[i].stage = "sent" /\ stage \in {"done", "failed"}
    /\ \/ row' = row
       \/ pending[i].op = "save"
            /\ row' = [row EXCEPT !.devices[pending[i].arg.id] = pending[i].arg.value]
       \/ pending[i].op = "rename" /\ row' = [row EXCEPT !.name = pending[i].arg.value]
    /\ pending[i].op \in {"device", "revoke"} => row' = row
    /\ stage = "done" =>
          /\ pending[i].op = "device" => reply = row.devices[pending[i].arg.id]
          /\ pending[i].op = "save" =>
                row' = [row EXCEPT !.devices[pending[i].arg.id] = pending[i].arg.value]
          /\ pending[i].op = "rename" => row' = [row EXCEPT !.name = pending[i].arg.value]
    /\ UNCHANGED <<visible, ecosystem, selectedDeviceId, selectedDevice, edited, crossed>>

LEMMA DevicesTake ==
    ASSUME NEW i \in DOMAIN pending, Modal!DevicesServed(i)
    PROVE  \E stage, reply : Took(i, stage, reply)
<1> DEFINE arg == pending[i].arg
<1>1. \A stage, reply : Modal!Serve(i, stage, reply) => Serve(i, stage, reply)
  BY DEF Modal!Serve, Serve, Modal!Over, Over
<1>2. /\ \A reply : Modal!Done(i, reply) => Serve(i, "done", reply)
      /\ Modal!Fails(i) => Serve(i, "failed", None)
  BY <1>1 DEF Modal!Done, Modal!Fails
<1>3. UNCHANGED <<visible, ecosystem, selectedDeviceId, selectedDevice, edited, crossed>>
  BY DEF Modal!DevicesServed, Modal!modal, Modal!shown
<1>4. \/ /\ pending[i].op = "device" /\ pending[i].stage = "sent"
         /\ Serve(i, "done", row.devices[arg.id]) \/ Serve(i, "failed", None)
         /\ row' = row
      \/ /\ pending[i].op = "revoke" /\ pending[i].stage = "sent"
         /\ Serve(i, "done", None) \/ Serve(i, "failed", None)
         /\ row' = row
      \/ /\ pending[i].op = "save" /\ pending[i].stage = "sent"
         /\ row' = [row EXCEPT !.devices[arg.id] = arg.value]
         /\ Serve(i, "done", None) \/ Serve(i, "failed", None)
      \/ /\ pending[i].op = "rename" /\ pending[i].stage = "sent"
         /\ row' = [row EXCEPT !.name = arg.value]
         /\ Serve(i, "done", None) \/ Serve(i, "failed", None)
      \/ /\ pending[i].op \in {"save", "rename"} /\ pending[i].stage = "sent"
         /\ Serve(i, "failed", None)
         /\ row' = row
  BY <1>2 DEF Modal!DevicesServed, Modal!Waiting
<1>5. Serve(i, "done", row.devices[arg.id]) \/ Serve(i, "done", None) \/ Serve(i, "failed", None)
  BY <1>4
<1>6. ASSUME Serve(i, "failed", None) PROVE Took(i, "failed", None)
  BY <1>3, <1>4, <1>6 DEF Took
<1>7. CASE pending[i].op = "device" /\ Serve(i, "done", row.devices[arg.id])
  <2>1. Took(i, "done", row.devices[arg.id])
    BY <1>3, <1>4, <1>7 DEF Took
  <2> QED BY <2>1
<1>8. CASE pending[i].op # "device" /\ Serve(i, "done", None) /\ ~Serve(i, "failed", None)
  <2>1. Took(i, "done", None)
    BY <1>3, <1>4, <1>8 DEF Took
  <2> QED BY <2>1
<1> QED BY <1>4, <1>6, <1>7, <1>8

LEMMA DevicesServes ==
    ASSUME DevicesInv, NEW i \in DOMAIN pending, Modal!DevicesServed(i)
    PROVE  DevicesInv'
<1>1. PICK stage, reply : Took(i, stage, reply)
  BY DevicesTake
<1>2. /\ Queue /\ ValuesInv /\ CopiesInv /\ OneChange /\ RowInv /\ Settling
  BY DEF DevicesInv
<1>3. /\ Queue'
      /\ DOMAIN pending' = DOMAIN pending
      /\ pending'[i] = [op |-> pending[i].op, arg |-> pending[i].arg,
                        stage |-> stage, reply |-> reply]
      /\ \A j \in DOMAIN pending \ {i} : pending'[j] = pending[j]
      /\ inOrder' => inOrder
      /\ ~failures' => ~failures /\ stage # "failed"
  BY <1>1, <1>2, Serves DEF Took
<1>4. /\ pending'[i].op = pending[i].op /\ pending'[i].arg = pending[i].arg
      /\ pending'[i].stage = stage /\ pending'[i].reply = reply
      /\ pending[i].stage = "sent" /\ stage \in {"done", "failed"}
      /\ UNCHANGED <<visible, ecosystem, selectedDeviceId, selectedDevice, edited, crossed>>
      /\ moves' = moves
  <2>1. /\ pending'[i].op = pending[i].op /\ pending'[i].arg = pending[i].arg
        /\ pending'[i].stage = stage /\ pending'[i].reply = reply
    BY <1>3
  <2>2. moves' = moves
    BY <1>1 DEF Took, Serve
  <2> QED BY <1>1, <2>1, <2>2 DEF Took
<1>5. \A j \in DOMAIN pending : pending'[j].op = pending[j].op /\ pending'[j].arg = pending[j].arg
  BY <1>3, <1>4
<1>6. PICK back : back = [j \in DOMAIN pending |-> j]
  OBVIOUS
<1>7. \A j \in DOMAIN pending' : ChangeInv(pending'[j])
  <2>1. \A j \in DOMAIN pending : ChangeInv(pending[j])
    BY <1>2 DEF ValuesInv
  <2>2. ChangeInv(pending'[i])
    BY <1>4, <2>1 DEF ChangeInv
  <2> QED BY <1>3, <2>1, <2>2
<1>8. Carried(back)
  BY <1>3, <1>5, <1>6, <1>7 DEF Carried
<1>9. row' \in Plan /\ (pending[i].op # "save" => row'.devices = row.devices)
  <2>1. row \in Plan /\ ChangeInv(pending[i])
    BY <1>2 DEF ValuesInv
  <2>2. CASE row' = row
    BY <2>1, <2>2
  <2>3. CASE pending[i].op = "save"
             /\ row' = [row EXCEPT !.devices[pending[i].arg.id] = pending[i].arg.value]
    BY <2>1, <2>3 DEF Plan, ChangeInv
  <2>4. CASE pending[i].op = "rename" /\ row' = [row EXCEPT !.name = pending[i].arg.value]
    BY <2>1, <2>4 DEF Plan, ChangeInv
  <2> QED BY <1>1, <2>2, <2>3, <2>4 DEF Took
<1>10. ValuesInv' /\ \A c : Good(c) => Good(c)'
  BY <1>2, <1>4, <1>8, <1>9, ValuesCarried DEF ValuesInv
<1>11. CopiesInv'
  <2>1. visible # None => Good(visible)'
    <3>1. PICK c : c = visible
      OBVIOUS
    <3>2. visible # None => Good(c)'
      BY <1>2, <1>10, <3>1 DEF CopiesInv
    <3> QED BY <1>4, <3>1, <3>2 DEF Good
  <2>2. ecosystem # None => Good(ecosystem)'
    <3>1. PICK c : c = ecosystem
      OBVIOUS
    <3>2. ecosystem # None => Good(c)'
      BY <1>2, <1>10, <3>1 DEF CopiesInv
    <3> QED BY <1>4, <3>1, <3>2 DEF Good
  <2> QED BY <1>2, <1>4, <2>1, <2>2 DEF CopiesInv
<1>12. OneChange'
  BY <1>2, <1>4, <1>8, OneCarried
<1>13. RowInv'
  <2>1. CASE pending[i].op = "device"
    <3>1. row' = row /\ \A j \in DOMAIN pending' : pending'[j].op # "device" =>
                            pending'[j].stage = pending[back[j]].stage
      BY <1>1, <1>3, <1>4, <1>6, <2>1 DEF Took
    <3>2. \A k \in DOMAIN pending : pending[k].op # "device" =>
              \E j \in DOMAIN pending' : pending'[j].op # "device" /\ back[j] = k
      BY <1>3, <1>5, <1>6
    <3> QED BY <1>2, <1>3, <1>4, <1>8, <3>1, <3>2, RowCarried
  <2>2. CASE pending[i].op # "device"
    <3> SUFFICES ASSUME ~failures', ~crossed, visible # None PROVE RowInv'
      BY <1>4 DEF RowInv
    <3>1. ~failures /\ stage = "done" /\ ChangeInv(pending[i])
      BY <1>2, <1>3, <1>4 DEF ValuesInv
    <3>2. \A j \in DOMAIN pending' : j # i => pending'[j].op = "device"
      BY <1>2, <1>3, <1>5, <2>2 DEF OneChange
    <3>3. row = visible
      BY <1>2, <1>4, <2>2, <3>1 DEF RowInv, ChangeInv
    <3>4. ~(NoneOf("save") /\ NoneOf("rename") /\ NoneOf("revoke"))'
      BY <1>3, <1>4, <2>2, <3>1 DEF NoneOf, ChangeInv
    <3>5. CASE pending[i].op = "save"
      <4>1. row' = [visible EXCEPT !.devices[pending'[i].arg.id] = pending'[i].arg.value]
        BY <1>1, <1>4, <3>1, <3>3, <3>5 DEF Took
      <4> QED BY <1>4, <3>1, <3>2, <3>4, <3>5, <4>1 DEF RowInv
    <3>6. CASE pending[i].op = "rename"
      <4>1. row' = [visible EXCEPT !.name = pending'[i].arg.value]
        BY <1>1, <1>4, <3>1, <3>3, <3>6 DEF Took
      <4>2. pending'[i].arg.copy = visible
        BY <1>2, <1>4, <3>1, <3>6 DEF RowInv
      <4> QED BY <1>4, <3>1, <3>2, <3>4, <3>6, <4>1, <4>2 DEF RowInv
    <3>7. CASE pending[i].op = "revoke"
      <4>1. row' = visible
        BY <1>1, <3>3, <3>7 DEF Took
      <4> QED BY <1>4, <3>1, <3>2, <3>4, <3>7, <4>1 DEF RowInv
    <3> QED BY <2>2, <3>1, <3>5, <3>6, <3>7 DEF ChangeInv
  <2> QED BY <2>1, <2>2
<1>14. Settling'
  <2> SUFFICES ASSUME inOrder', ~failures', ecosystem # None PROVE Settling'
    BY <1>4 DEF Settling
  <2>1. inOrder /\ ~failures /\ stage = "done"
    BY <1>3, <1>4
  <2>2. CASE ~NoneOf("save")
    BY <1>3, <1>5, <2>2 DEF Settling, NoneOf
  <2>3. CASE NoneOf("save")
    <3>1. row'.devices = row.devices
      BY <1>9, <2>3 DEF NoneOf
    <3>2. CASE \E k \in DOMAIN pending :
                  /\ Latest(k, "device") /\ pending[k].arg.id = selectedDeviceId
                  /\ pending[k].stage = "sent" \/ pending[k].reply = row.devices[selectedDeviceId]
      <4>1. PICK k \in DOMAIN pending :
                  /\ Latest(k, "device") /\ pending[k].arg.id = selectedDeviceId
                  /\ pending[k].stage = "sent" \/ pending[k].reply = row.devices[selectedDeviceId]
        BY <3>2
      <4>2. Latest(k, "device")' /\ pending'[k].arg.id = selectedDeviceId'
        BY <1>3, <1>4, <1>5, <4>1 DEF Latest
      <4>3. pending'[k].stage = "sent" \/ pending'[k].reply = row'.devices[selectedDeviceId']
        <5>1. CASE k = i
          BY <1>1, <1>4, <2>1, <3>1, <4>1, <5>1 DEF Took, Latest
        <5>2. CASE k # i
          BY <1>3, <1>4, <3>1, <4>1, <5>2
        <5> QED BY <5>1, <5>2
      <4> QED BY <1>3, <4>2, <4>3 DEF Settling
    <3>3. CASE /\ NoneOf("device")
               /\ selectedDevice = [id |-> selectedDeviceId, value |-> row.devices[selectedDeviceId]]
               /\ edited = selectedDeviceId
      <4>1. NoneOf("device")'
        BY <1>3, <1>5, <3>3 DEF NoneOf
      <4> QED BY <1>4, <3>1, <3>3, <4>1 DEF Settling
    <3> QED BY <1>2, <2>1, <2>3, <3>2, <3>3 DEF Settling
  <2> QED BY <2>2, <2>3
<1> QED BY <1>3, <1>10, <1>11, <1>12, <1>13, <1>14 DEF DevicesInv

-----------------------------------------------------------------------------
(* What is loaded                                                           *)

\* the details that are asked for
Loads(more) ==
    /\ Fresh(more)
    /\ \A m \in DOMAIN more : more[m].op = "device" /\ more[m].arg.id \in Devices

\* the last of them are those of a device
EndsWith(more, d) ==
    Len(more) \in DOMAIN more /\ more[Len(more)].op = "device" /\ more[Len(more)].arg.id = d

LEMMA LoadsOne ==
    ASSUME NEW d \in Devices, NEW copy
    PROVE  Loads(<<Modal!Loading(d, copy)>>) /\ EndsWith(<<Modal!Loading(d, copy)>>, d)
<1>1. PICK arg : arg = [id |-> d, fallback |-> copy.devices[d]]
  OBVIOUS
<1>2. PICK more : more = <<Ask("device", arg)>>
  OBVIOUS
<1>3. more = <<Modal!Loading(d, copy)>>
  BY <1>1, <1>2 DEF Modal!Loading, Modal!Ask, Ask
<1>4. /\ Fresh(more) /\ Len(more) = 1 /\ DOMAIN more = {1} /\ more[1] = Ask("device", arg)
      /\ Ask("device", arg).op = "device" /\ Ask("device", arg).arg = arg
  BY <1>2, OneSent
<1>5. Loads(more) /\ EndsWith(more, d)
  BY <1>1, <1>4 DEF Loads, EndsWith
<1> QED BY <1>3, <1>5

LEMMA LoadsNothing == Loads(<<>>)
<1>1. PICK more : more = <<>>
  OBVIOUS
<1>2. Fresh(more) /\ DOMAIN more = {}
  BY <1>1, NoneSent
<1> QED BY <1>1, <1>2 DEF Loads

LEMMA MountsLoad ==
    ASSUME NEW d \in Devices, NEW copy
    PROVE  Loads(Modal!Mounts(copy, d)) /\ EndsWith(Modal!Mounts(copy, d), d)
<1>1. PICK first, then : /\ first = <<Modal!Loading(FirstDevice, copy)>>
                         /\ then = <<Modal!Loading(d, copy)>>
  OBVIOUS
<1>2. /\ Loads(first) /\ EndsWith(first, FirstDevice) /\ Loads(then) /\ EndsWith(then, d)
  BY <1>1, LoadsOne, DevicesAssumption
<1>3. Len(first) = 1 /\ Len(then) = 1
  BY <1>1
<1>4. PICK none : none = <<>>
  OBVIOUS
<1>5. Loads(none) /\ Len(none) = 0 /\ DOMAIN none = {}
  BY <1>4, LoadsNothing
<1>6. ASSUME NEW rest, Loads(rest), (Len(rest) = 0 /\ d = FirstDevice) \/ rest = then
      PROVE  Loads(first \o rest) /\ EndsWith(first \o rest, d)
  <2>1. PICK all : all = first \o rest
    OBVIOUS
  <2>2. /\ IsRequests(all)
        /\ Len(all) = Len(first) + Len(rest)
        /\ \A j \in DOMAIN first : all[j] = first[j]
        /\ \A k \in DOMAIN rest : all[Len(first) + k] = rest[k]
    <3>1. IsRequests(first) /\ IsRequests(rest)
      BY <1>2, <1>6 DEF Loads, Fresh
    <3> QED BY <2>1, <3>1, Joined
  <2>3. /\ IsRequests(all) /\ Len(all) = 1 + Len(rest) /\ Len(rest) \in {0, 1}
        /\ all[1] = first[1] /\ DOMAIN all = 1..Len(all) /\ DOMAIN rest = 1..Len(rest)
        /\ \A k \in DOMAIN rest : all[1 + k] = rest[k]
    BY <1>2, <1>3, <1>6, <2>2, Places DEF Loads, Fresh, EndsWith
  <2>4. first[1].op = "device" /\ first[1].arg.id = FirstDevice /\ first[1].stage = "sent"
    BY <1>2, <1>3 DEF EndsWith, Loads, Fresh
  <2>5. \A j \in DOMAIN all : j = 1 \/ (j - 1 \in DOMAIN rest /\ all[j] = rest[j - 1])
    <3> TAKE j \in DOMAIN all
    <3>1. CASE j # 1
      <4>1. j - 1 \in DOMAIN rest /\ 1 + (j - 1) = j
        BY <2>3, <3>1
      <4> QED BY <2>3, <4>1
    <3> QED BY <3>1
  <2>6. \A j \in DOMAIN all : /\ all[j].stage = "sent" /\ all[j].op = "device"
                              /\ all[j].arg.id \in Devices
    BY <1>6, <2>3, <2>4, <2>5, DevicesAssumption DEF Loads, Fresh
  <2>7. EndsWith(all, d)
    <3>1. CASE Len(rest) = 0 /\ d = FirstDevice
      <4>1. Len(all) = 1 /\ 1 \in DOMAIN all
        BY <2>3, <3>1
      <4> QED BY <2>3, <2>4, <3>1, <4>1 DEF EndsWith
    <3>2. CASE rest = then
      <4>1. Len(all) = 2 /\ 2 \in DOMAIN all /\ all[2] = then[1]
        BY <1>2, <1>3, <2>3, <3>2 DEF EndsWith
      <4> QED BY <1>2, <1>3, <4>1 DEF EndsWith
    <3> QED BY <1>6, <3>1, <3>2
  <2> QED BY <2>1, <2>3, <2>6, <2>7 DEF Loads, Fresh
<1>7. Modal!Mounts(copy, d) = first \o (IF d = FirstDevice THEN none ELSE then)
  BY <1>1, <1>4 DEF Modal!Mounts
<1>8. CASE d = FirstDevice
  BY <1>5, <1>6, <1>7, <1>8
<1>9. CASE d # FirstDevice
  BY <1>2, <1>6, <1>7, <1>9
<1> QED BY <1>8, <1>9

\* The last of what is asked for is the last of its kind.
LEMMA LatestLoaded ==
    ASSUME Queue, NEW more, Loads(more), NEW d, EndsWith(more, d),
           Send(more) \/ \E i \in DOMAIN pending : Receive(i, more)
    PROVE  \E k \in DOMAIN pending' :
              Latest(k, "device")' /\ pending'[k].stage = "sent" /\ pending'[k].arg.id = d
<1>1. /\ Len(pending) \in Nat /\ Len(more) \in Nat /\ DOMAIN more = 1..Len(more)
      /\ Fresh(more) /\ Len(more) \in DOMAIN more /\ DOMAIN pending = 1..Len(pending)
      /\ more[Len(more)].op = "device" /\ more[Len(more)].arg.id = d
      /\ more[Len(more)].stage = "sent"
  BY QueuePlaces, Places DEF Loads, Fresh, EndsWith
<1>2. ASSUME NEW n \in Nat, DOMAIN pending' = 1..(n + Len(more)),
             \A m \in DOMAIN more : pending'[n + m] = more[m]
      PROVE  \E k \in DOMAIN pending' :
                Latest(k, "device")' /\ pending'[k].stage = "sent" /\ pending'[k].arg.id = d
  <2>1. n + Len(more) \in DOMAIN pending' /\ pending'[n + Len(more)] = more[Len(more)]
    BY <1>1, <1>2
  <2>2. \A j \in DOMAIN pending' : ~(j > n + Len(more))
    BY <1>1, <1>2
  <2> QED BY <1>1, <2>1, <2>2 DEF Latest
<1>3. CASE Send(more)
  BY <1>1, <1>2, <1>3, Asks
<1>4. ASSUME NEW i \in DOMAIN pending, Receive(i, more)
      PROVE  \E k \in DOMAIN pending' :
                Latest(k, "device")' /\ pending'[k].stage = "sent" /\ pending'[k].arg.id = d
  <2>1. Len(pending) - 1 \in Nat
    BY <1>1
  <2>2. /\ DOMAIN pending' = 1..(Len(pending) - 1 + Len(more))
        /\ \A m \in DOMAIN more : pending'[Len(pending) - 1 + m] = more[m]
    BY <1>1, <1>4, Receives
  <2> QED BY <1>2, <2>1, <2>2
<1> QED BY <1>3, <1>4

-----------------------------------------------------------------------------
(* What is still wanted when the modal is gone                              *)

\* the same change, for a modal that may be another one
Alike(r, q) ==
    /\ r.op = q.op /\ r.stage = q.stage
    /\ r.op = "save" => r.arg.id = q.arg.id /\ r.arg.value = q.arg.value
    /\ r.op = "rename" => r.arg.copy = q.arg.copy /\ r.arg.value = q.arg.value

LEMMA GoneModal ==
    ASSUME NEW q, Entry(q), ChangeInv(q), q.op # "device",
           NEW r, r = [q EXCEPT !.arg.mounted = FALSE]
    PROVE  Entry(r) /\ ChangeInv(r) /\ Alike(r, q)
<1>1. PICK arg : arg = [q.arg EXCEPT !.mounted = FALSE]
  OBVIOUS
<1>2. r = [q EXCEPT !.arg = arg]
  BY <1>1
<1>3. r = [op |-> q.op, arg |-> arg, stage |-> q.stage, reply |-> q.reply]
  BY <1>2 DEF Entry
<1>4. Entry(r) /\ r.op = q.op /\ r.arg = arg /\ r.stage = q.stage
  <2>1. r.op = q.op /\ r.arg = arg /\ r.stage = q.stage /\ r.reply = q.reply
    BY <1>3
  <2> QED BY <1>3, <2>1 DEF Entry
<1>5. CASE q.op = "save"
  <2>1. arg = [mounted |-> FALSE, id |-> q.arg.id, form |-> q.arg.form, value |-> q.arg.value]
    BY <1>1, <1>5 DEF ChangeInv
  <2>2. /\ arg.mounted = FALSE /\ arg.id = q.arg.id /\ arg.form = q.arg.form
        /\ arg.value = q.arg.value
        /\ arg = [mounted |-> arg.mounted, id |-> arg.id, form |-> arg.form, value |-> arg.value]
    BY <2>1
  <2> QED BY <1>4, <1>5, <2>2 DEF ChangeInv, Alike
<1>6. CASE q.op = "rename"
  <2>1. arg = [mounted |-> FALSE, copy |-> q.arg.copy, value |-> q.arg.value]
    BY <1>1, <1>6 DEF ChangeInv
  <2>2. /\ arg.copy = q.arg.copy /\ arg.value = q.arg.value
        /\ arg = [mounted |-> arg.mounted, copy |-> arg.copy, value |-> arg.value]
    BY <2>1
  <2> QED BY <1>4, <1>6, <2>2 DEF ChangeInv, Alike
<1>7. CASE q.op = "revoke"
  <2>1. arg = [mounted |-> FALSE]
    BY <1>1, <1>7 DEF ChangeInv
  <2>2. arg = [mounted |-> arg.mounted]
    BY <2>1
  <2> QED BY <1>4, <1>7, <2>2 DEF ChangeInv, Alike
<1> QED BY <1>5, <1>6, <1>7 DEF ChangeInv

LEMMA Wanted ==
    ASSUME NEW s, IsRequests(s), \A j \in DOMAIN s : ChangeInv(s[j]), Modal!StillWanted(s)
    PROVE  /\ IsRequests(pending')
           /\ \E place :
                 /\ \A k \in DOMAIN pending' :
                       /\ place[k] \in DOMAIN s /\ s[place[k]].op # "device"
                       /\ ChangeInv(pending'[k]) /\ Alike(pending'[k], s[place[k]])
                 /\ \A j, k \in DOMAIN pending' : place[j] = place[k] => j = k
                 /\ \A m \in DOMAIN s : s[m].op # "device" => \E k \in DOMAIN pending' : place[k] = m
<1> DEFINE wanted == {i \in DOMAIN s : s[i].op \in Modal!Changes}
<1>1. PICK n \in 0..Len(s) : \E place \in [1..n -> wanted] :
          /\ wanted = {place[k] : k \in 1..n}
          /\ \A j, k \in 1..n : j < k => place[j] < place[k]
          /\ pending' = [k \in 1..n |-> [s[place[k]] EXCEPT !.arg.mounted = FALSE]]
  BY DEF Modal!StillWanted
<1>2. PICK place \in [1..n -> wanted] :
          /\ wanted = {place[k] : k \in 1..n}
          /\ \A j, k \in 1..n : j < k => place[j] < place[k]
          /\ pending' = [k \in 1..n |-> [s[place[k]] EXCEPT !.arg.mounted = FALSE]]
  BY <1>1
<1>3. n \in Nat /\ DOMAIN pending' = 1..n
  BY <1>2, Places
<1>4. \A m \in DOMAIN s : m \in wanted <=> s[m].op # "device"
  BY DEF ChangeInv, Modal!Changes
<1>5. ASSUME NEW k \in 1..n
      PROVE  /\ place[k] \in DOMAIN s /\ s[place[k]].op # "device"
             /\ Entry(pending'[k]) /\ ChangeInv(pending'[k]) /\ Alike(pending'[k], s[place[k]])
  <2>1. place[k] \in wanted /\ place[k] \in DOMAIN s
    BY <1>2
  <2>2. PICK q, r : q = s[place[k]] /\ r = pending'[k]
    OBVIOUS
  <2>3. r = [q EXCEPT !.arg.mounted = FALSE]
    BY <1>2, <2>2
  <2>4. Entry(q) /\ ChangeInv(q) /\ q.op # "device"
    BY <1>4, <2>1, <2>2 DEF IsRequests
  <2>5. Entry(r) /\ ChangeInv(r) /\ Alike(r, q)
    BY <2>3, <2>4, GoneModal
  <2> QED BY <2>1, <2>2, <2>4, <2>5
<1>6. \A j, k \in 1..n : place[j] = place[k] => j = k
  <2>1. \A j, k \in 1..n : j < k => place[j] < place[k]
    BY <1>2
  <2>2. \A k \in 1..n : place[k] \in Nat
    BY <1>5, Places
  <2>3. ASSUME NEW j \in 1..n, NEW k \in 1..n, place[j] = place[k], j # k PROVE FALSE
    <3>1. j < k \/ k < j
      BY <1>3, <2>3
    <3> QED BY <2>1, <2>2, <2>3, <3>1
  <2> QED BY <2>3
<1>7. \A m \in DOMAIN s : s[m].op # "device" => \E k \in 1..n : place[k] = m
  BY <1>2, <1>4
<1>8. IsRequests(pending')
  <2>1. PICK t, T : t = pending' /\ T = {pending'[k] : k \in 1..n}
    OBVIOUS
  <2>2. t \in [1..n -> T]
    BY <1>2, <2>1
  <2>3. t \in Seq(T)
    BY <1>3, <2>2, SeqDef
  <2>4. \A j \in DOMAIN t : Entry(t[j])
    BY <1>3, <1>5, <2>1
  <2>5. IsRequests(t)
    BY <2>3, <2>4, Gathered
  <2> QED BY <2>1, <2>5
<1> QED BY <1>3, <1>5, <1>6, <1>7, <1>8

-----------------------------------------------------------------------------
(* Steps that bring no new change                                           *)

\* The changes are as they were, and none is lost but the i-th request.
Kept(back) ==
    /\ Carried(back)
    /\ \A j \in DOMAIN pending' : pending'[j].op # "device" =>
          pending'[j].stage = pending[back[j]].stage

KeptBut(back, i) ==
    /\ Kept(back)
    /\ \A j \in DOMAIN pending' : pending'[j].op # "device" => back[j] # i
    /\ \A k \in DOMAIN pending : pending[k].op # "device" /\ k # i =>
          \E j \in DOMAIN pending' : pending'[j].op # "device" /\ back[j] = k

LEMMA LoadIsChange ==
    ASSUME NEW more, Loads(more), NEW m \in DOMAIN more
    PROVE  more[m].op = "device" /\ ChangeInv(more[m])
  BY DEF Loads, Fresh, ChangeInv

LEMMA SendsLoads ==
    ASSUME Queue, ValuesInv, NEW more, Loads(more), Send(more)
    PROVE  \E back : KeptBut(back, 0)
<1>1. /\ DOMAIN pending' = 1..(Len(pending) + Len(more))
      /\ \A j \in DOMAIN pending : pending'[j] = pending[j]
      /\ \A k \in DOMAIN more : pending'[Len(pending) + k] = more[k]
      /\ Len(pending) \in Nat /\ DOMAIN pending = 1..Len(pending)
      /\ Len(more) \in Nat /\ DOMAIN more = 1..Len(more)
  <2>1. Fresh(more) /\ IsRequests(more)
    BY DEF Loads, Fresh
  <2> QED BY <2>1, Asks, QueuePlaces, Places
<1>2. PICK back : back = [j \in DOMAIN pending' |-> j]
  OBVIOUS
<1>3. \A j \in DOMAIN pending' :
         /\ ChangeInv(pending'[j])
         /\ pending'[j].op # "device" => j \in DOMAIN pending
  <2> TAKE j \in DOMAIN pending'
  <2>1. CASE j \in DOMAIN pending
    BY <1>1, <2>1 DEF ValuesInv
  <2>2. CASE j \notin DOMAIN pending
    <3>1. j - Len(pending) \in DOMAIN more /\ Len(pending) + (j - Len(pending)) = j
      BY <1>1, <2>2
    <3>2. pending'[j] = more[j - Len(pending)]
      BY <1>1, <3>1
    <3> QED BY <3>1, <3>2, LoadIsChange
  <2> QED BY <2>1, <2>2
<1>4. \A j \in DOMAIN pending : j \in DOMAIN pending' /\ back[j] = j /\ j # 0
  BY <1>1, <1>2
<1>5. Carried(back)
  BY <1>1, <1>2, <1>3, <1>4 DEF Carried
<1>6. KeptBut(back, 0)
  BY <1>1, <1>3, <1>4, <1>5 DEF KeptBut, Kept
<1> QED BY <1>6

LEMMA BeforeGrows ==
    ASSUME NEW i \in Nat, NEW j \in Nat, NEW k \in Nat, Before(i, j) = Before(i, k)
    PROVE  j = k
  BY DEF Before

LEMMA BeforeAll ==
    ASSUME NEW n \in Nat, NEW i \in 1..n, NEW k \in 1..n, k # i
    PROVE  \E j \in 1..(n - 1) : Before(i, j) = k
<1>1. CASE k < i
  BY <1>1 DEF Before
<1>2. CASE ~(k < i)
  <2>1. k - 1 \in 1..(n - 1) /\ Before(i, k - 1) = k
    BY <1>2 DEF Before
  <2> QED BY <2>1
<1> QED BY <1>1, <1>2

LEMMA ReceivesLoads ==
    ASSUME Queue, ValuesInv, NEW i \in DOMAIN pending, NEW more, Loads(more), Receive(i, more)
    PROVE  \E back : KeptBut(back, i)
<1>1. /\ DOMAIN pending' = 1..(Len(pending) - 1 + Len(more))
      /\ \A j \in 1..(Len(pending) - 1) :
            Before(i, j) \in DOMAIN pending \ {i} /\ pending'[j] = pending[Before(i, j)]
      /\ \A k \in DOMAIN more : pending'[Len(pending) - 1 + k] = more[k]
      /\ Len(pending) \in Nat /\ DOMAIN pending = 1..Len(pending)
      /\ Len(more) \in Nat /\ DOMAIN more = 1..Len(more)
  <2>1. Fresh(more) /\ IsRequests(more)
    BY DEF Loads, Fresh
  <2> QED BY <2>1, Receives, QueuePlaces, Places
<1>2. PICK back : back = [j \in DOMAIN pending' |-> Before(i, j)]
  OBVIOUS
<1>3. \A j \in DOMAIN pending' :
         /\ ChangeInv(pending'[j])
         /\ pending'[j].op # "device" => j \in 1..(Len(pending) - 1)
  <2> TAKE j \in DOMAIN pending'
  <2>1. CASE j \in 1..(Len(pending) - 1)
    BY <1>1, <2>1 DEF ValuesInv
  <2>2. CASE j \notin 1..(Len(pending) - 1)
    <3>1. /\ j - (Len(pending) - 1) \in DOMAIN more
          /\ Len(pending) - 1 + (j - (Len(pending) - 1)) = j
      BY <1>1, <2>2
    <3>2. pending'[j] = more[j - (Len(pending) - 1)]
      BY <1>1, <3>1
    <3> QED BY <3>1, <3>2, LoadIsChange
  <2> QED BY <2>1, <2>2
<1>4. \A j \in 1..(Len(pending) - 1) :
         /\ j \in DOMAIN pending' /\ back[j] = Before(i, j)
         /\ back[j] \in DOMAIN pending /\ back[j] # i /\ pending'[j] = pending[back[j]]
  BY <1>1, <1>2
<1>5. \A j, k \in 1..(Len(pending) - 1) : back[j] = back[k] => j = k
  <2> SUFFICES ASSUME NEW j \in 1..(Len(pending) - 1), NEW k \in 1..(Len(pending) - 1),
                      back[j] = back[k]
               PROVE  j = k
    OBVIOUS
  <2>1. i \in Nat /\ j \in Nat /\ k \in Nat /\ Before(i, j) = Before(i, k)
    BY <1>1, <1>4
  <2> QED BY <2>1, BeforeGrows
<1>6. \A j \in DOMAIN pending' : pending'[j].op # "device" =>
         back[j] \in DOMAIN pending /\ back[j] # i /\ pending'[j] = pending[back[j]]
  BY <1>3, <1>4
<1>7. Carried(back)
  BY <1>3, <1>5, <1>6 DEF Carried
<1>8. ASSUME NEW k \in DOMAIN pending, pending[k].op # "device", k # i
      PROVE  \E j \in DOMAIN pending' : pending'[j].op # "device" /\ back[j] = k
  <2>1. PICK j \in 1..(Len(pending) - 1) : Before(i, j) = k
    <3>1. Len(pending) \in Nat /\ i \in 1..Len(pending) /\ k \in 1..Len(pending) /\ k # i
      BY <1>1, <1>8
    <3> QED BY <3>1, BeforeAll
  <2> QED BY <1>4, <1>8, <2>1
<1>9. KeptBut(back, i)
  BY <1>6, <1>7, <1>8 DEF KeptBut, Kept
<1> QED BY <1>9

\* The modal goes; its changes go on.
LEMMA ClosesKeep ==
    ASSUME Queue, ValuesInv, Modal!StillWanted(pending)
    PROVE  /\ IsRequests(pending') /\ \A k \in DOMAIN pending' : pending'[k].op # "device"
           /\ \E back : KeptBut(back, 0)
<1>1. IsRequests(pending) /\ \A j \in DOMAIN pending : ChangeInv(pending[j])
  BY DEF Queue, ValuesInv
<1>2. IsRequests(pending')
  BY <1>1, Wanted
<1>3. PICK back :
         /\ \A k \in DOMAIN pending' :
               /\ back[k] \in DOMAIN pending /\ pending[back[k]].op # "device"
               /\ ChangeInv(pending'[k]) /\ Alike(pending'[k], pending[back[k]])
         /\ \A j, k \in DOMAIN pending' : back[j] = back[k] => j = k
         /\ \A m \in DOMAIN pending : pending[m].op # "device" =>
               \E k \in DOMAIN pending' : back[k] = m
  BY <1>1, Wanted
<1>4. Carried(back)
  BY <1>3 DEF Carried, Alike
<1>5. 0 \notin DOMAIN pending
  BY QueuePlaces
<1>6. KeptBut(back, 0)
  BY <1>3, <1>4, <1>5 DEF KeptBut, Kept, Alike
<1>7. \A k \in DOMAIN pending' : pending'[k].op # "device"
  BY <1>3 DEF Alike
<1> QED BY <1>2, <1>6, <1>7

LEMMA RevokeKeeps ==
    ASSUME Queue, ValuesInv, NEW i \in DOMAIN pending, Modal!StillWanted(Without(i))
    PROVE  /\ IsRequests(pending') /\ \A k \in DOMAIN pending' : pending'[k].op # "device"
           /\ \E back : KeptBut(back, i)
<1> DEFINE rest == Without(i)
<1>1. /\ IsRequests(rest)
      /\ Len(rest) = Len(pending) - 1
      /\ \A j \in DOMAIN rest : Before(i, j) \in DOMAIN pending \ {i}
                                /\ rest[j] = pending[Before(i, j)]
  BY Taken DEF Queue, Without
<1>2. Modal!StillWanted(rest)
  OBVIOUS
<1> HIDE DEF rest
<1>3. PICK left : left = rest
  OBVIOUS
<1>4. /\ IsRequests(left) /\ Len(left) = Len(pending) - 1
      /\ \A j \in DOMAIN left : Before(i, j) \in DOMAIN pending \ {i}
                                 /\ left[j] = pending[Before(i, j)]
  BY <1>1, <1>3
<1>5. /\ Len(pending) \in Nat /\ DOMAIN pending = 1..Len(pending)
      /\ DOMAIN left = 1..(Len(pending) - 1)
  BY <1>4, QueuePlaces, Places
<1>6. \A j \in DOMAIN left : ChangeInv(left[j])
  BY <1>4 DEF ValuesInv
<1>7. Modal!StillWanted(left)
  BY <1>3, <1>2
<1>8. /\ IsRequests(pending')
      /\ \E place :
            /\ \A k \in DOMAIN pending' :
                  /\ place[k] \in DOMAIN left /\ left[place[k]].op # "device"
                  /\ ChangeInv(pending'[k]) /\ Alike(pending'[k], left[place[k]])
            /\ \A j, k \in DOMAIN pending' : place[j] = place[k] => j = k
            /\ \A m \in DOMAIN left : left[m].op # "device" =>
                  \E k \in DOMAIN pending' : place[k] = m
  <2>1. IsRequests(left) /\ (\A j \in DOMAIN left : ChangeInv(left[j])) /\ Modal!StillWanted(left)
    BY <1>4, <1>6, <1>7
  <2> QED BY <2>1, Wanted
<1>9. PICK place :
            /\ \A k \in DOMAIN pending' :
                  /\ place[k] \in DOMAIN left /\ left[place[k]].op # "device"
                  /\ ChangeInv(pending'[k]) /\ Alike(pending'[k], left[place[k]])
            /\ \A j, k \in DOMAIN pending' : place[j] = place[k] => j = k
            /\ \A m \in DOMAIN left : left[m].op # "device" =>
                  \E k \in DOMAIN pending' : place[k] = m
  BY <1>8
<1>10. PICK back : back = [k \in DOMAIN pending' |-> Before(i, place[k])]
  OBVIOUS
<1>11. \A k \in DOMAIN pending' :
          /\ back[k] \in DOMAIN pending \ {i} /\ pending[back[k]].op # "device"
          /\ ChangeInv(pending'[k]) /\ Alike(pending'[k], pending[back[k]])
  BY <1>4, <1>9, <1>10
<1>12. \A j, k \in DOMAIN pending' : back[j] = back[k] => j = k
  <2> SUFFICES ASSUME NEW j \in DOMAIN pending', NEW k \in DOMAIN pending', back[j] = back[k]
               PROVE  j = k
    OBVIOUS
  <2>1. /\ i \in Nat /\ place[j] \in Nat /\ place[k] \in Nat
        /\ Before(i, place[j]) = Before(i, place[k])
    BY <1>5, <1>9, <1>10
  <2>2. place[j] = place[k]
    BY <2>1, BeforeGrows
  <2> QED BY <1>9, <2>2
<1>13. ASSUME NEW m \in DOMAIN pending, pending[m].op # "device", m # i
       PROVE  \E k \in DOMAIN pending' : back[k] = m
  <2>1. PICK j \in 1..(Len(pending) - 1) : Before(i, j) = m
    <3>1. Len(pending) \in Nat /\ i \in 1..Len(pending) /\ m \in 1..Len(pending) /\ m # i
      BY <1>5, <1>13
    <3> QED BY <3>1, BeforeAll
  <2>2. j \in DOMAIN left /\ left[j].op # "device"
    BY <1>4, <1>5, <1>13, <2>1
  <2>3. PICK k \in DOMAIN pending' : place[k] = j
    BY <1>9, <2>2
  <2> QED BY <1>10, <2>1, <2>3
<1>14. Carried(back)
  BY <1>11, <1>12 DEF Carried, Alike
<1>15. KeptBut(back, i)
  BY <1>11, <1>13, <1>14 DEF KeptBut, Kept, Alike
<1>16. \A k \in DOMAIN pending' : pending'[k].op # "device"
  BY <1>11 DEF Alike
<1> QED BY <1>8, <1>15, <1>16

\* What such a step keeps, whatever it shows: the values, and that changes do
\* not cross; and that the service has what the list shows, when none of the
\* changes has come to its end.
LEMMA StepsOn ==
    ASSUME DevicesInv, NEW i, NEW back, KeptBut(back, i), moves' \in Nat, moves <= moves',
           UNCHANGED <<row, crossed>>, ~failures' => ~failures
    PROVE  /\ ValuesInv' /\ OneChange'
           /\ \A c : Good(c) => Good(c)'
           /\ UNCHANGED visible /\ (i \notin DOMAIN pending \/ pending[i].op = "device") => RowInv'
           /\ ~crossed /\ i \in DOMAIN pending /\ pending[i].op # "device" =>
                 \A j \in DOMAIN pending' : pending'[j].op = "device"
<1>1. /\ ValuesInv /\ OneChange /\ RowInv /\ Carried(back) /\ row \in Plan
      /\ row' = row /\ crossed' = crossed
  BY DEF DevicesInv, KeptBut, Kept, ValuesInv
<1>2. ValuesInv' /\ \A c : Good(c) => Good(c)'
  BY <1>1, ValuesCarried
<1>3. OneChange'
  BY <1>1, OneCarried
<1>4. ASSUME UNCHANGED visible, i \notin DOMAIN pending \/ pending[i].op = "device" PROVE RowInv'
  <2>1. \A j \in DOMAIN pending' : pending'[j].op # "device" =>
           pending'[j].stage = pending[back[j]].stage
    BY DEF KeptBut, Kept
  <2>2. \A k \in DOMAIN pending : pending[k].op # "device" =>
           \E j \in DOMAIN pending' : pending'[j].op # "device" /\ back[j] = k
    BY <1>4 DEF KeptBut
  <2> QED BY <1>1, <1>4, <2>1, <2>2, RowCarried
<1>5. ASSUME ~crossed, i \in DOMAIN pending, pending[i].op # "device", NEW j \in DOMAIN pending'
      PROVE  pending'[j].op = "device"
  <2> SUFFICES ASSUME pending'[j].op # "device" PROVE FALSE
    OBVIOUS
  <2>1. /\ back[j] \in DOMAIN pending /\ pending'[j].op = pending[back[j]].op
    BY <1>1 DEF Carried
  <2>2. back[j] # i
    BY DEF KeptBut
  <2> QED BY <1>1, <1>5, <2>1, <2>2 DEF OneChange
<1> QED BY <1>2, <1>3, <1>4, <1>5

\* Copies that are not touched remain such copies.
LEMMA CopiesKept ==
    ASSUME CopiesInv, \A c : Good(c) => Good(c)', UNCHANGED <<visible, ecosystem>>,
           ecosystem # None => selectedDeviceId' \in Devices,
           selectedDevice' # None => selectedDevice'.id \in Devices
    PROVE  CopiesInv'
<1>1. PICK c : c = visible
  OBVIOUS
<1>2. PICK e : e = ecosystem
  OBVIOUS
<1>3. c = visible' /\ e = ecosystem'
  BY <1>1, <1>2
<1>4. (c # None => Good(c)') /\ (e # None => Good(e)')
  BY <1>1, <1>2 DEF CopiesInv
<1>5. (visible' # None => Good(visible)') /\ (ecosystem' # None => Good(ecosystem)')
  BY <1>3, <1>4 DEF Good
<1> QED BY <1>5 DEF CopiesInv

\* The selected device is being loaded.
LEMMA SettlesWithLoad ==
    ASSUME Queue, NEW more, Loads(more), EndsWith(more, selectedDeviceId'),
           Send(more) \/ \E i \in DOMAIN pending : Receive(i, more)
    PROVE  Settling'
<1>1. PICK d : d = selectedDeviceId'
  OBVIOUS
<1>2. EndsWith(more, d)
  BY <1>1
<1>3. PICK k \in DOMAIN pending' :
         Latest(k, "device")' /\ pending'[k].stage = "sent" /\ pending'[k].arg.id = d
  BY <1>2, LatestLoaded
<1> QED BY <1>1, <1>3 DEF Settling

\* When no change is under way, the list is what the service has.
LEMMA RowSettles ==
    ASSUME ~failures' /\ ~crossed' /\ visible' # None =>
              row' = visible' /\ \A j \in DOMAIN pending' : pending'[j].op = "device"
    PROVE  RowInv'
  BY DEF RowInv

-----------------------------------------------------------------------------
(* A change is asked for                                                    *)

LEMMA ChangeAsked ==
    ASSUME DevicesInv, NEW op, NEW arg, Modal!Change(op, arg),
           op \in {"save", "rename", "revoke"}, ChangeInv(Ask(op, arg)),
           op = "save" => arg.value = moves + 1,
           op = "rename" => arg.copy = ecosystem
    PROVE  DevicesInv'
<1>1. /\ Queue /\ ValuesInv /\ CopiesInv /\ OneChange /\ RowInv /\ Settling
  BY DEF DevicesInv
<1>2. /\ ecosystem # None /\ Send(<<Ask(op, arg)>>)
      /\ moves \in Nat /\ moves' = moves + 1
      /\ UNCHANGED <<row, visible, ecosystem, selectedDeviceId, selectedDevice, edited>>
      /\ ~crossed' => ~crossed /\ \A i \in DOMAIN pending :
                                     pending[i].op \notin {"save", "rename", "revoke"}
  BY <1>1 DEF Modal!Change, Modal!isOpen, Modal!Send, Send, Modal!Ask, Ask, Modal!Move, Modal!shown,
              Modal!Changes, Modal!AskedFor, ValuesInv
<1>3. PICK n : n = Len(pending) + 1
  OBVIOUS
<1>4. /\ Queue' /\ n \in DOMAIN pending' \ DOMAIN pending /\ pending'[n] = Ask(op, arg)
      /\ \A j \in DOMAIN pending : j \in DOMAIN pending' /\ pending'[j] = pending[j]
      /\ \A j \in DOMAIN pending' : j \in DOMAIN pending \/ j = n
      /\ inOrder' = inOrder /\ failures' = failures
  BY <1>1, <1>2, <1>3, SentOne
<1>5. /\ pending'[n].op = op /\ pending'[n].arg = arg /\ pending'[n].stage = "sent"
      /\ ChangeInv(pending'[n])
  BY <1>4 DEF Ask
<1>6. \A i \in DOMAIN pending : pending[i].op = "save" =>
         pending[i].arg.value \in Nat /\ pending[i].arg.value <= moves
  BY <1>1 DEF ValuesInv, ChangeInv
<1>7. \A c : Good(c) => Good(c)'
  <2> SUFFICES ASSUME NEW c, Good(c) PROVE Good(c)'
    OBVIOUS
  <2>1. c \in Plan /\ \A d \in Devices : c.devices[d] \in Nat /\ c.devices[d] <= moves
    BY DEF Good, Plan
  <2>2. \A d \in Devices : c.devices[d] <= moves' /\ c.devices[d] # moves + 1
    BY <1>2, <2>1
  <2>3. ASSUME NEW i \in DOMAIN pending', pending'[i].op = "save", NEW d \in Devices
        PROVE  c.devices[d] # pending'[i].arg.value
    <3>1. CASE i \in DOMAIN pending
      BY <1>4, <2>3, <3>1 DEF Good
    <3>2. CASE i = n
      BY <1>5, <2>2, <2>3, <3>2
    <3> QED BY <1>4, <3>1, <3>2
  <2> QED BY <2>1, <2>2, <2>3 DEF Good
<1>8. ASSUME NEW i \in DOMAIN pending'
      PROVE  /\ ChangeInv(pending'[i])
             /\ pending'[i].op = "save" => pending'[i].arg.value <= moves'
             /\ pending'[i].op = "rename" => Good(pending[i].arg.copy)'
  <2>1. PICK c : c = pending'[i].arg.copy
    OBVIOUS
  <2>2. /\ ChangeInv(pending'[i])
        /\ pending'[i].op = "save" => pending'[i].arg.value <= moves'
        /\ pending'[i].op = "rename" => Good(c)
    <3>1. CASE i \in DOMAIN pending
      BY <1>1, <1>2, <1>4, <1>6, <2>1, <3>1 DEF ValuesInv
    <3>2. CASE i = n
      BY <1>1, <1>2, <1>5, <2>1, <3>2 DEF CopiesInv
    <3> QED BY <1>4, <3>1, <3>2
  <2>3. pending'[i].op = "rename" => Good(c)'
    BY <1>7, <2>2
  <2> QED BY <2>1, <2>2, <2>3 DEF Good
<1>9. ASSUME NEW i \in DOMAIN pending', NEW j \in DOMAIN pending',
             pending'[i].op = "save", pending'[j].op = "save",
             pending'[i].arg.value = pending'[j].arg.value
      PROVE  i = j
  <2>1. CASE i \in DOMAIN pending /\ j \in DOMAIN pending
    BY <1>1, <1>4, <1>9, <2>1 DEF ValuesInv
  <2>2. ASSUME NEW k \in DOMAIN pending, pending[k].op = "save", pending[k].arg.value = moves + 1
        PROVE  FALSE
    BY <1>2, <1>6, <2>2
  <2>3. CASE i = n /\ j # n
    BY <1>4, <1>5, <1>9, <2>2, <2>3
  <2>4. CASE j = n /\ i # n
    BY <1>4, <1>5, <1>9, <2>2, <2>4
  <2> QED BY <1>4, <2>1, <2>3, <2>4
<1>10. ValuesInv'
  BY <1>1, <1>2, <1>8, <1>9 DEF ValuesInv
<1>11. CopiesInv'
  BY <1>1, <1>2, <1>7, CopiesKept DEF CopiesInv
<1>12. ~crossed' => ~crossed /\ \A i \in DOMAIN pending : pending[i].op = "device"
  BY <1>1, <1>2 DEF ValuesInv, ChangeInv
<1>13. OneChange'
  BY <1>4, <1>12 DEF OneChange
<1>14. RowInv'
  <2> SUFFICES ASSUME ~failures', ~crossed', visible # None PROVE RowInv'
    BY <1>2 DEF RowInv
  <2>1. row = visible /\ ecosystem = visible
    BY <1>1, <1>2, <1>4, <1>12 DEF RowInv, NoneOf, CopiesInv
  <2>2. ~(NoneOf("save") /\ NoneOf("rename") /\ NoneOf("revoke"))'
    BY <1>4, <1>5 DEF NoneOf
  <2>3. ASSUME NEW i \in DOMAIN pending', pending'[i].op # "device"
        PROVE  pending'[i].op = op /\ pending'[i].arg = arg /\ pending'[i].stage = "sent"
    BY <1>4, <1>5, <1>12, <2>3
  <2> QED BY <1>2, <2>1, <2>2, <2>3 DEF RowInv
<1>15. Settling'
  <2> SUFFICES ASSUME inOrder, ~failures PROVE Settling'
    BY <1>4 DEF Settling
  <2>1. CASE op = "save" \/ ~NoneOf("save")
    <3>1. ~NoneOf("save")'
      BY <1>4, <1>5, <2>1 DEF NoneOf
    <3> QED BY <3>1 DEF Settling
  <2>2. CASE \E k \in DOMAIN pending :
                /\ Latest(k, "device") /\ pending[k].arg.id = selectedDeviceId
                /\ pending[k].stage = "sent" \/ pending[k].reply = row.devices[selectedDeviceId]
    <3>1. PICK k \in DOMAIN pending :
                /\ Latest(k, "device") /\ pending[k].arg.id = selectedDeviceId
                /\ pending[k].stage = "sent" \/ pending[k].reply = row.devices[selectedDeviceId]
      BY <2>2
    <3>2. k \in DOMAIN pending' /\ pending'[k] = pending[k] /\ Latest(k, "device")'
      BY <1>4, <1>5, <3>1 DEF Latest
    <3> QED BY <1>2, <3>1, <3>2 DEF Settling
  <2>3. CASE /\ NoneOf("device")
             /\ selectedDevice = [id |-> selectedDeviceId, value |-> row.devices[selectedDeviceId]]
             /\ edited = selectedDeviceId
    <3>1. NoneOf("device")'
      BY <1>4, <1>5, <2>3 DEF NoneOf
    <3> QED BY <1>2, <2>3, <3>1 DEF Settling
  <2> QED BY <1>1, <1>2, <2>1, <2>2, <2>3 DEF Settling
<1> QED BY <1>4, <1>10, <1>11, <1>13, <1>14, <1>15 DEF DevicesInv

-----------------------------------------------------------------------------
(* The actions of the modal                                                 *)

LEMMA ModalSends ==
    /\ \A more : Modal!Send(more) => Send(more)
    /\ \A i, more : Modal!Receive(i, more) => Receive(i, more)
    /\ \A i : Modal!Without(i) = Without(i)
  BY DEF Modal!Send, Send, Modal!Receive, Receive, Modal!Over, Over, Modal!Without, Without

\* The modal opens, or shows another device, and loads its details.
LEMMA DevicesLoad ==
    ASSUME DevicesInv, NEW more, Loads(more), Send(more), NEW d \in Devices, EndsWith(more, d),
           selectedDeviceId' = d, moves' = moves + 1, UNCHANGED <<row, visible, crossed>>,
           \/ UNCHANGED <<ecosystem, selectedDevice>>
           \/ /\ visible # None /\ ecosystem' = visible
              /\ selectedDevice' = [id |-> d, value |-> visible.devices[d]]
    PROVE  DevicesInv'
<1>1. Queue /\ ValuesInv /\ CopiesInv /\ moves \in Nat
  BY DEF DevicesInv, ValuesInv
<1>2. PICK back : KeptBut(back, 0)
  BY <1>1, SendsLoads
<1>3. Queue' /\ failures' = failures
  BY <1>1, Asks DEF Loads
<1>4. PICK i : i = 0
  OBVIOUS
<1>5. i \notin DOMAIN pending /\ KeptBut(back, i) /\ moves' \in Nat /\ moves <= moves'
  BY <1>1, <1>2, <1>4, QueuePlaces
<1>6. /\ ValuesInv' /\ OneChange' /\ RowInv'
      /\ \A c : Good(c) => Good(c)'
  BY <1>3, <1>5, StepsOn
<1>7. CopiesInv'
  <2>1. CASE UNCHANGED <<ecosystem, selectedDevice>>
    BY <1>1, <1>6, <2>1, CopiesKept DEF CopiesInv
  <2>2. CASE /\ visible # None /\ ecosystem' = visible
             /\ selectedDevice' = [id |-> d, value |-> visible.devices[d]]
    <3>1. PICK c : c = visible
      OBVIOUS
    <3>2. Good(c)'
      BY <1>1, <1>6, <2>2, <3>1 DEF CopiesInv
    <3>3. Good(visible)' /\ Good(ecosystem)'
      BY <2>2, <3>1, <3>2 DEF Good
    <3>4. selectedDevice'.id = d
      BY <2>2
    <3> QED BY <2>2, <3>3, <3>4 DEF CopiesInv
  <2> QED BY <2>1, <2>2
<1>8. Settling'
  <2>1. EndsWith(more, selectedDeviceId')
    OBVIOUS
  <2> QED BY <1>1, <2>1, SettlesWithLoad
<1> QED BY <1>3, <1>6, <1>7, <1>8 DEF DevicesInv

LEMMA DevicesOpen ==
    ASSUME DevicesInv, NEW d \in Devices, Modal!OpenModal(d) \/ Modal!handleSelectDevice(d)
    PROVE  DevicesInv'
<1>1. moves \in Nat
  BY DEF DevicesInv, ValuesInv
<1>2. CASE Modal!OpenModal(d)
  <2>1. PICK more : more = Modal!Mounts(visible, d)
    OBVIOUS
  <2>2. Loads(more) /\ EndsWith(more, d)
    BY <2>1, MountsLoad
  <2>3. /\ Send(more) /\ selectedDeviceId' = d /\ moves' = moves + 1
        /\ UNCHANGED <<row, visible, crossed>>
        /\ visible # None /\ ecosystem' = visible
        /\ selectedDevice' = [id |-> d, value |-> visible.devices[d]]
    BY <1>2, <2>1, ModalSends DEF Modal!OpenModal, Modal!Mounted, Modal!Move
  <2> QED BY <2>2, <2>3, DevicesLoad
<1>3. CASE Modal!handleSelectDevice(d)
  <2>1. PICK more : more = <<Modal!Loading(d, ecosystem)>>
    OBVIOUS
  <2>2. Loads(more) /\ EndsWith(more, d)
    BY <2>1, LoadsOne
  <2>3. /\ Send(more) /\ selectedDeviceId' = d /\ moves' = moves + 1
        /\ UNCHANGED <<row, visible, ecosystem, selectedDevice, crossed>>
    BY <1>3, <2>1, ModalSends DEF Modal!handleSelectDevice, Modal!Reloads, Modal!Move
  <2> QED BY <2>2, <2>3, DevicesLoad
<1> QED BY <1>2, <1>3

\* The modal goes, with the list or without it.
LEMMA DevicesGo ==
    ASSUME DevicesInv, NEW i, NEW back, KeptBut(back, i), IsRequests(pending'),
           \A k \in DOMAIN pending' : pending'[k].op # "device",
           Modal!Unmounted, UNCHANGED <<moves, failures, row, crossed>>, inOrder' \in BOOLEAN,
           (UNCHANGED visible /\ i \notin DOMAIN pending) \/ visible' = None
    PROVE  DevicesInv'
<1>1. /\ Queue /\ ValuesInv /\ CopiesInv /\ moves \in Nat /\ moves' \in Nat /\ moves <= moves'
      /\ ecosystem' = None /\ selectedDevice' = None
  BY DEF DevicesInv, ValuesInv, Modal!Unmounted
<1>2. Queue'
  <2>1. ASSUME ~failures, NEW k \in DOMAIN pending' PROVE pending'[k].stage # "failed"
    BY <1>1, <2>1 DEF KeptBut, Kept, Carried, Queue, Failed
  <2> QED BY <1>1, <2>1 DEF Queue, Failed
<1>3. /\ ValuesInv' /\ OneChange'
      /\ \A c : Good(c) => Good(c)'
      /\ UNCHANGED visible /\ (i \notin DOMAIN pending \/ pending[i].op = "device") => RowInv'
  BY <1>1, StepsOn
<1>4. RowInv'
  BY <1>3 DEF RowInv
<1>5. CopiesInv'
  <2>1. CASE visible' = None
    BY <1>1, <2>1 DEF CopiesInv
  <2>2. CASE UNCHANGED visible
    <3>1. PICK c : c = visible
      OBVIOUS
    <3>2. c # None => Good(c)'
      BY <1>1, <1>3, <3>1 DEF CopiesInv
    <3>3. visible' # None => Good(visible)'
      BY <2>2, <3>1, <3>2 DEF Good
    <3> QED BY <1>1, <3>3 DEF CopiesInv
  <2> QED BY <2>1, <2>2
<1>6. Settling'
  BY <1>1 DEF Settling
<1> QED BY <1>2, <1>3, <1>4, <1>5, <1>6 DEF DevicesInv

LEMMA DevicesClose ==
    ASSUME DevicesInv, Modal!handleCloseEcosystemModal
    PROVE  DevicesInv'
<1>1. Queue /\ ValuesInv /\ inOrder \in BOOLEAN
  BY DEF DevicesInv, Queue
<1>2. /\ Modal!Unmounted /\ Modal!StillWanted(pending)
      /\ UNCHANGED <<moves, inOrder, failures, row, visible, crossed>>
  BY DEF Modal!handleCloseEcosystemModal
<1>3. IsRequests(pending') /\ \A k \in DOMAIN pending' : pending'[k].op # "device"
  BY <1>1, <1>2, ClosesKeep
<1>4. PICK back : KeptBut(back, 0)
  BY <1>1, <1>2, ClosesKeep
<1>5. PICK i : i = 0
  OBVIOUS
<1>6. KeptBut(back, i) /\ i \notin DOMAIN pending
  BY <1>1, <1>4, <1>5, QueuePlaces
<1> QED BY <1>1, <1>2, <1>3, <1>6, DevicesGo

LEMMA DevicesRevoked ==
    ASSUME DevicesInv, NEW i \in DOMAIN pending, Modal!RevokeArrives(i)
    PROVE  DevicesInv'
<1>1. Queue /\ ValuesInv /\ inOrder \in BOOLEAN
  BY DEF DevicesInv, Queue
<1>2. /\ Modal!Unmounted /\ Modal!StillWanted(Without(i)) /\ visible' = None
      /\ inOrder' = (inOrder /\ i = 1)
      /\ UNCHANGED <<moves, failures, row, crossed>>
  BY ModalSends DEF Modal!RevokeArrives
<1>3. IsRequests(pending') /\ \A k \in DOMAIN pending' : pending'[k].op # "device"
  BY <1>1, <1>2, RevokeKeeps
<1>4. PICK back : KeptBut(back, i)
  BY <1>1, <1>2, RevokeKeeps
<1>5. inOrder' \in BOOLEAN
  BY <1>2
<1> QED BY <1>2, <1>3, <1>4, <1>5, DevicesGo

LEMMA DevicesChange ==
    ASSUME DevicesInv,
           \/ Modal!handleSaveDeviceName \/ Modal!handleSaveEcosystemName
           \/ Modal!handleConfirmRevoke
    PROVE  DevicesInv'
<1>1. CopiesInv /\ moves \in Nat /\ moves + 1 \in Nat
  BY DEF DevicesInv, ValuesInv
<1>2. CASE Modal!handleSaveDeviceName
  <2>1. PICK arg : arg = [mounted |-> TRUE, id |-> Modal!displayedDevice, form |-> edited,
                          value |-> moves + 1]
    OBVIOUS
  <2>2. Modal!Change("save", arg)
    BY <1>2, <2>1 DEF Modal!handleSaveDeviceName
  <2>3. ecosystem # None
    BY <2>2 DEF Modal!Change, Modal!isOpen
  <2>4. Modal!displayedDevice \in Devices
    BY <1>1, <2>3 DEF Modal!displayedDevice, CopiesInv
  <2>5. /\ arg.id \in Devices /\ arg.value = moves + 1
        /\ arg = [mounted |-> arg.mounted, id |-> arg.id, form |-> arg.form, value |-> arg.value]
    BY <2>1, <2>4
  <2>6. ChangeInv(Ask("save", arg))
    BY <1>1, <2>5 DEF ChangeInv, Ask
  <2> QED BY <2>2, <2>5, <2>6, ChangeAsked
<1>3. CASE Modal!handleSaveEcosystemName
  <2>1. PICK arg : arg = [mounted |-> TRUE, copy |-> ecosystem, value |-> moves + 1]
    OBVIOUS
  <2>2. Modal!Change("rename", arg)
    BY <1>3, <2>1 DEF Modal!handleSaveEcosystemName
  <2>3. ecosystem # None
    BY <2>2 DEF Modal!Change, Modal!isOpen
  <2>4. ecosystem \in Plan
    BY <1>1, <2>3 DEF CopiesInv, Good
  <2>5. /\ arg.copy = ecosystem /\ arg.value = moves + 1
        /\ arg = [mounted |-> arg.mounted, copy |-> arg.copy, value |-> arg.value]
    BY <2>1
  <2>6. ChangeInv(Ask("rename", arg))
    BY <1>1, <2>4, <2>5 DEF ChangeInv, Ask
  <2> QED BY <2>2, <2>5, <2>6, ChangeAsked
<1>4. CASE Modal!handleConfirmRevoke
  <2>1. PICK arg : arg = [mounted |-> TRUE]
    OBVIOUS
  <2>2. Modal!Change("revoke", arg)
    BY <1>4, <2>1 DEF Modal!handleConfirmRevoke
  <2>3. arg = [mounted |-> arg.mounted]
    BY <2>1
  <2>4. ChangeInv(Ask("revoke", arg))
    BY <2>3 DEF ChangeInv, Ask
  <2> QED BY <2>2, <2>4, ChangeAsked
<1> QED BY <1>2, <1>3, <1>4

-----------------------------------------------------------------------------
(* Answers                                                                  *)

\* What holds when an answer arrives, whatever is loaded then.
LEMMA DevicesHear ==
    ASSUME DevicesInv, NEW i \in DOMAIN pending, NEW more, Loads(more), Receive(i, more),
           UNCHANGED <<row, crossed>>
    PROVE  /\ Queue' /\ ValuesInv' /\ OneChange'
           /\ \A c : Good(c) => Good(c)'
           /\ UNCHANGED visible /\ pending[i].op = "device" => RowInv'
           /\ ~crossed /\ pending[i].op # "device" =>
                 \A j \in DOMAIN pending' : pending'[j].op = "device"
           /\ \A j \in DOMAIN pending' : pending'[j].op = "save" =>
                 \E k \in DOMAIN pending \ {i} :
                    pending[k].op = "save" /\ pending'[j].arg.value = pending[k].arg.value
           /\ inOrder' => inOrder /\ i = 1
           /\ failures' = failures /\ moves' = moves
<1>1. Queue /\ ValuesInv /\ moves \in Nat
  BY DEF DevicesInv, ValuesInv
<1>2. PICK back : KeptBut(back, i)
  BY <1>1, ReceivesLoads
<1>3. Queue' /\ failures' = failures /\ (inOrder' => inOrder /\ i = 1)
  BY <1>1, Receives DEF Loads
<1>4. moves' = moves /\ moves' \in Nat /\ moves <= moves'
  BY <1>1 DEF Receive
<1>5. /\ ValuesInv' /\ OneChange'
      /\ \A c : Good(c) => Good(c)'
      /\ UNCHANGED visible /\ (i \notin DOMAIN pending \/ pending[i].op = "device") => RowInv'
      /\ ~crossed /\ i \in DOMAIN pending /\ pending[i].op # "device" =>
            \A j \in DOMAIN pending' : pending'[j].op = "device"
  BY <1>2, <1>3, <1>4, StepsOn
<1>6. ASSUME NEW j \in DOMAIN pending', pending'[j].op = "save"
      PROVE  \E k \in DOMAIN pending \ {i} :
                pending[k].op = "save" /\ pending'[j].arg.value = pending[k].arg.value
  <2>1. /\ back[j] \in DOMAIN pending \ {i} /\ pending[back[j]].op = "save"
        /\ pending'[j].arg.value = pending[back[j]].arg.value
    BY <1>2, <1>6 DEF KeptBut, Kept, Carried
  <2> QED BY <2>1
<1> QED BY <1>3, <1>4, <1>5, <1>6

\* What is settled remains so when a renaming or the details are answered.
LEMMA SettlingHeard ==
    ASSUME DevicesInv, NEW i \in DOMAIN pending, pending[i].op # "save", NEW none, none = <<>>,
           Receive(i, none), UNCHANGED <<row, selectedDeviceId>>,
           ecosystem' # None => ecosystem # None,
           \/ pending[i].op # "device" /\ UNCHANGED <<selectedDevice, edited>>
           \/ /\ pending[i].op = "device" /\ edited' = pending[i].arg.id
              /\ ~Failed(i) => selectedDevice' = [id |-> pending[i].arg.id,
                                                  value |-> pending[i].reply]
    PROVE  Settling'
<1>1. Queue /\ Settling /\ Loads(none) /\ Fresh(none) /\ DOMAIN none = {}
  BY LoadsNothing, NoneSent DEF DevicesInv
<1>2. SUFFICES ASSUME inOrder', ~failures', ecosystem' # None PROVE Settling'
  BY DEF Settling
<1>3. i = 1 /\ inOrder /\ failures' = failures /\ ~failures /\ ~Failed(i)
  <2>1. i = 1 /\ inOrder /\ failures' = failures
    BY <1>1, <1>2, Receives
  <2> QED BY <1>1, <1>2, <2>1 DEF Queue
<1>4. /\ \A k \in DOMAIN pending \ {i} : Latest(k, "device") =>
            k - 1 \in DOMAIN pending' /\ Latest(k - 1, "device")' /\ pending'[k - 1] = pending[k]
      /\ NoneOf("device") \/ Latest(i, "device") => NoneOf("device")'
  BY <1>1, <1>3, LatestWhenReceived
<1>5. CASE ~NoneOf("save")
  <2>1. PICK k \in DOMAIN pending \ {i} : pending[k].op = "save"
    BY <1>5 DEF NoneOf
  <2>2. \E j \in DOMAIN pending' : pending'[j] = pending[k]
    BY <1>1, Remains
  <2>3. ~NoneOf("save")'
    BY <2>1, <2>2 DEF NoneOf
  <2> QED BY <2>3 DEF Settling
<1>6. CASE \E k \in DOMAIN pending :
              /\ Latest(k, "device") /\ pending[k].arg.id = selectedDeviceId
              /\ pending[k].stage = "sent" \/ pending[k].reply = row.devices[selectedDeviceId]
  <2>1. PICK k \in DOMAIN pending :
              /\ Latest(k, "device") /\ pending[k].arg.id = selectedDeviceId
              /\ pending[k].stage = "sent" \/ pending[k].reply = row.devices[selectedDeviceId]
    BY <1>6
  <2>2. CASE k = i
    <3>1. NoneOf("device")' /\ pending[i].op = "device"
      BY <1>4, <2>1, <2>2 DEF Latest
    <3>2. pending[i].stage \in {"done", "failed"}
      BY DEF Receive, Over
    <3>3. pending[i].reply = row.devices[selectedDeviceId]
      BY <2>1, <2>2, <3>2
    <3>4. /\ selectedDevice' = [id |-> selectedDeviceId, value |-> row.devices[selectedDeviceId]]
          /\ edited' = selectedDeviceId
      BY <1>3, <2>1, <2>2, <3>1, <3>3
    <3>5. /\ selectedDevice' = [id |-> selectedDeviceId', value |-> row'.devices[selectedDeviceId']]
          /\ edited' = selectedDeviceId'
      BY <3>4
    <3> QED BY <3>1, <3>5 DEF Settling
  <2>3. CASE k # i
    <3>1. k - 1 \in DOMAIN pending' /\ Latest(k - 1, "device")' /\ pending'[k - 1] = pending[k]
      BY <1>4, <2>1, <2>3
    <3>2. PICK j : j = k - 1
      OBVIOUS
    <3>3. j \in DOMAIN pending' /\ Latest(j, "device")' /\ pending'[j] = pending[k]
      BY <3>1, <3>2
    <3> QED BY <2>1, <3>3 DEF Settling
  <2> QED BY <2>2, <2>3
<1>7. CASE /\ NoneOf("device")
           /\ selectedDevice = [id |-> selectedDeviceId, value |-> row.devices[selectedDeviceId]]
           /\ edited = selectedDeviceId
  <2>1. pending[i].op # "device" /\ UNCHANGED <<selectedDevice, edited>> /\ NoneOf("device")'
    BY <1>4, <1>7 DEF NoneOf
  <2> QED BY <1>7, <2>1 DEF Settling
<1> QED BY <1>1, <1>2, <1>3, <1>5, <1>6, <1>7 DEF Settling

LEMMA DetailsHeard ==
    ASSUME DevicesInv, NEW i \in DOMAIN pending, Modal!DetailsArrive(i)
    PROVE  DevicesInv'
<1>1. PICK none : none = <<>>
  OBVIOUS
<1>2. /\ pending[i].op = "device" /\ Receive(i, none) /\ edited' = pending[i].arg.id
      /\ selectedDevice'.id = pending[i].arg.id
      /\ ~Failed(i) => selectedDevice' = [id |-> pending[i].arg.id, value |-> pending[i].reply]
      /\ UNCHANGED <<row, visible, ecosystem, selectedDeviceId, crossed>>
  <2>1. /\ pending[i].op = "device" /\ Modal!Receive(i, <<>>) /\ edited' = pending[i].arg.id
        /\ selectedDevice' = [id |-> pending[i].arg.id,
                              value |-> IF Modal!Failed(i) THEN pending[i].arg.fallback
                                        ELSE pending[i].reply]
        /\ UNCHANGED <<row, visible, ecosystem, selectedDeviceId, crossed>>
    BY DEF Modal!DetailsArrive
  <2>2. selectedDevice'.id = pending[i].arg.id
    BY <2>1
  <2> QED BY <1>1, <2>1, <2>2, ModalSends DEF Modal!Failed, Failed
<1>3. Loads(none)
  BY <1>1, LoadsNothing
<1>4. /\ Queue' /\ ValuesInv' /\ OneChange'
      /\ \A c : Good(c) => Good(c)'
      /\ UNCHANGED visible /\ pending[i].op = "device" => RowInv'
  BY <1>2, <1>3, DevicesHear
<1>5. CopiesInv /\ ChangeInv(pending[i])
  BY DEF DevicesInv, ValuesInv
<1>6. pending[i].arg.id \in Devices
  BY <1>2, <1>5 DEF ChangeInv
<1>7. CopiesInv'
  <2>1. ecosystem # None => selectedDeviceId' \in Devices
    BY <1>2, <1>5 DEF CopiesInv
  <2> QED BY <1>2, <1>4, <1>5, <1>6, <2>1, CopiesKept
<1>8. Settling'
  BY <1>1, <1>2, SettlingHeard
<1> QED BY <1>2, <1>4, <1>7, <1>8 DEF DevicesInv

LEMMA ChangeFailed ==
    ASSUME DevicesInv, NEW i \in DOMAIN pending, Modal!ChangeFails(i)
    PROVE  DevicesInv'
<1>1. PICK none : none = <<>>
  OBVIOUS
<1>2. /\ Receive(i, none) /\ Failed(i)
      /\ UNCHANGED <<row, visible, ecosystem, selectedDeviceId, selectedDevice, crossed>>
  BY <1>1, ModalSends DEF Modal!ChangeFails, Modal!shown, Modal!Failed, Failed
<1>3. Loads(none)
  BY <1>1, LoadsNothing
<1>4. /\ Queue' /\ ValuesInv' /\ OneChange' /\ failures' = failures
      /\ \A c : Good(c) => Good(c)'
  BY <1>2, <1>3, DevicesHear
<1>5. CopiesInv /\ Queue
  BY DEF DevicesInv
<1>6. CopiesInv'
  <2>1. /\ ecosystem # None => selectedDeviceId' \in Devices
        /\ selectedDevice' # None => selectedDevice'.id \in Devices
    BY <1>2, <1>5 DEF CopiesInv
  <2> QED BY <1>2, <1>4, <1>5, <2>1, CopiesKept
<1>7. failures'
  BY <1>2, <1>4, <1>5 DEF Queue
<1> QED BY <1>4, <1>6, <1>7 DEF DevicesInv, RowInv, Settling

\* A copy with the value that was saved, or with another name.
LEMMA GoodWith ==
    ASSUME DevicesInv, NEW i \in DOMAIN pending, pending[i].op = "save",
           NEW more, Loads(more), Receive(i, more), UNCHANGED <<row, crossed>>,
           NEW c, Good(c), NEW d, d = pending[i].arg.id, NEW v, v = pending[i].arg.value,
           NEW copy, copy = [c EXCEPT !.devices[d] = v]
    PROVE  Good(copy)'
<1>3. d \in Devices /\ v \in Nat /\ v <= moves
  BY DEF DevicesInv, ValuesInv, ChangeInv
<1>4. /\ \A e : Good(e) => Good(e)'
      /\ \A j \in DOMAIN pending' : pending'[j].op = "save" =>
            \E k \in DOMAIN pending \ {i} :
               pending[k].op = "save" /\ pending'[j].arg.value = pending[k].arg.value
      /\ moves' = moves
  BY DevicesHear
<1>5. Good(c)'
  BY <1>4
<1>6. copy \in Plan /\ \A e \in Devices : copy.devices[e] = IF e = d THEN v ELSE c.devices[e]
  BY <1>3 DEF Good, Plan
<1>7. \A e \in Devices : copy.devices[e] <= moves'
  BY <1>3, <1>4, <1>5, <1>6 DEF Good
<1>8. ASSUME NEW j \in DOMAIN pending', pending'[j].op = "save" PROVE pending'[j].arg.value # v
  <2>1. PICK k \in DOMAIN pending \ {i} :
           pending[k].op = "save" /\ pending'[j].arg.value = pending[k].arg.value
    BY <1>4, <1>8
  <2> QED BY <2>1 DEF DevicesInv, ValuesInv
<1> QED BY <1>5, <1>6, <1>7, <1>8 DEF Good

\* handleDeviceUpdated writes to the copy what was saved.
LEMMA SaveHeard ==
    ASSUME DevicesInv, NEW i \in DOMAIN pending, Modal!SaveArrives(i)
    PROVE  DevicesInv'
<1>1. Queue /\ ValuesInv /\ CopiesInv /\ RowInv /\ ChangeInv(pending[i])
  BY DEF DevicesInv, ValuesInv
<1>2. PICK d, v : d = pending[i].arg.id /\ v = pending[i].arg.value
  OBVIOUS
<1>3. PICK seen, opened : /\ seen = [visible EXCEPT !.devices[d] = v]
                          /\ opened = [ecosystem EXCEPT !.devices[d] = v]
  OBVIOUS
<1>4. PICK more : more = IF ecosystem # None THEN Modal!Reloads(selectedDeviceId, opened) ELSE <<>>
  OBVIOUS
<1>5. /\ pending[i].op = "save" /\ ~Failed(i) /\ Receive(i, more)
      /\ UNCHANGED <<row, crossed, selectedDeviceId, edited>>
      /\ visible' = (IF visible = None THEN None ELSE seen)
      /\ ecosystem' = (IF ecosystem = None THEN None ELSE opened)
      /\ selectedDevice'.id = d \/ UNCHANGED selectedDevice
  <2>1. /\ pending[i].op = "save" /\ ~Modal!Failed(i)
        /\ visible' = Modal!Updated(d, v)
        /\ \/ Modal!Displays([id |-> d, value |-> v])
           \/ UNCHANGED Modal!shown
        /\ \/ ecosystem # None /\ ecosystem' = opened
                /\ Modal!Receive(i, Modal!Reloads(selectedDeviceId, opened))
           \/ ecosystem = None /\ UNCHANGED ecosystem /\ Modal!Receive(i, <<>>)
        /\ UNCHANGED <<row, crossed>>
    BY <1>2, <1>3 DEF Modal!SaveArrives, Modal!isOpen
  <2>2. UNCHANGED <<selectedDeviceId, edited>> /\ (selectedDevice'.id = d \/ UNCHANGED selectedDevice)
    BY <2>1 DEF Modal!Displays, Modal!shown
  <2>3. Modal!Receive(i, more)
    BY <1>4, <2>1
  <2>4. visible' = (IF visible = None THEN None ELSE seen)
    BY <1>3, <2>1 DEF Modal!Updated
  <2> QED BY <2>1, <2>2, <2>3, <2>4, ModalSends DEF Modal!Failed, Failed
<1>6. d \in Devices /\ v \in Nat
  BY <1>1, <1>2, <1>5 DEF ChangeInv
<1>7. ASSUME ecosystem # None
      PROVE  Loads(more) /\ EndsWith(more, selectedDeviceId)
  <2>1. /\ ecosystem \in Plan /\ ecosystem.devices[d] # v /\ selectedDeviceId \in Devices
    BY <1>1, <1>2, <1>5, <1>6, <1>7 DEF CopiesInv, Good
  <2>2. opened.devices[d] = v
    BY <1>3, <1>6, <2>1 DEF Plan
  <2>3. opened.devices # ecosystem.devices
    BY <2>1, <2>2
  <2>4. more = <<Modal!Loading(selectedDeviceId, opened)>>
    BY <1>4, <1>7, <2>3 DEF Modal!Reloads
  <2>5. PICK s : s = selectedDeviceId
    OBVIOUS
  <2> QED BY <2>1, <2>4, <2>5, LoadsOne
<1>8. Loads(more)
  BY <1>4, <1>7, LoadsNothing
<1>9. /\ Queue' /\ ValuesInv' /\ OneChange' /\ failures' = failures
      /\ ~crossed => \A j \in DOMAIN pending' : pending'[j].op = "device"
  BY <1>5, <1>8, DevicesHear
<1>10. /\ visible # None => Good(seen)'
       /\ ecosystem # None => Good(opened)'
  <2>1. PICK c, e : c = visible /\ e = ecosystem
    OBVIOUS
  <2>2. (c # None => Good(c)) /\ (e # None => Good(e))
    BY <1>1, <2>1 DEF CopiesInv
  <2>3. seen = [c EXCEPT !.devices[d] = v] /\ opened = [e EXCEPT !.devices[d] = v]
    BY <1>3, <2>1
  <2>4. c # None => Good(seen)'
    BY <1>2, <1>5, <1>8, <2>2, <2>3, GoodWith
  <2>5. e # None => Good(opened)'
    BY <1>2, <1>5, <1>8, <2>2, <2>3, GoodWith
  <2> QED BY <2>1, <2>4, <2>5
<1>11. CopiesInv'
  <2>1. visible' # None => Good(visible)'
    <3>1. visible' # None => visible' = seen /\ visible # None
      BY <1>5
    <3>2. visible # None => Good(seen)'
      BY <1>10
    <3>3. visible' # None => Good(seen)'
      BY <3>1, <3>2
    <3> QED BY <3>1, <3>3 DEF Good
  <2>2. ecosystem' # None => Good(ecosystem)' /\ selectedDeviceId' \in Devices
    <3>1. ecosystem' # None => ecosystem' = opened /\ ecosystem # None
      BY <1>5
    <3>2. ecosystem' # None => selectedDeviceId' \in Devices
      BY <1>1, <1>5, <3>1 DEF CopiesInv
    <3>3. ecosystem # None => Good(opened)'
      BY <1>10
    <3>4. ecosystem' # None => Good(opened)'
      BY <3>1, <3>3
    <3>5. ecosystem' # None => Good(ecosystem)'
      BY <3>1, <3>4 DEF Good
    <3> QED BY <3>2, <3>5
  <2>3. ecosystem' # None /\ visible' # None => ecosystem' = visible'
    BY <1>1, <1>3, <1>5 DEF CopiesInv
  <2>4. selectedDevice' # None => selectedDevice'.id \in Devices
    BY <1>1, <1>5, <1>6 DEF CopiesInv
  <2> QED BY <2>1, <2>2, <2>3, <2>4 DEF CopiesInv
<1>12. RowInv'
  <2>1. ASSUME ~failures', ~crossed', visible' # None
        PROVE  row' = visible' /\ \A j \in DOMAIN pending' : pending'[j].op = "device"
    <3>1. pending[i].stage = "done"
      BY <1>5 DEF Receive, Over, Failed
    <3>2. ~failures /\ ~crossed /\ visible # None
      BY <1>5, <1>9, <2>1
    <3>3. row = seen
      BY <1>1, <1>2, <1>3, <1>5, <3>1, <3>2 DEF RowInv
    <3> QED BY <1>5, <1>9, <3>2, <3>3
  <2> QED BY <2>1, RowSettles
<1>13. Settling'
  <2>1. CASE ecosystem = None
    BY <1>5, <2>1 DEF Settling
  <2>2. CASE ecosystem # None
    <3>1. EndsWith(more, selectedDeviceId')
      BY <1>5, <1>7, <2>2
    <3> QED BY <1>1, <1>5, <1>8, <3>1, SettlesWithLoad
  <2> QED BY <2>1, <2>2
<1> QED BY <1>9, <1>11, <1>12, <1>13 DEF DevicesInv

\* handleEcosystemUpdated shows the copy of the click with its new name, and
\* opens the modal again when it has been closed.
LEMMA RenameHeard ==
    ASSUME DevicesInv, NEW i \in DOMAIN pending, Modal!RenameArrives(i)
    PROVE  DevicesInv'
<1>1. Queue /\ ValuesInv /\ CopiesInv /\ RowInv /\ ChangeInv(pending[i])
  BY DEF DevicesInv, ValuesInv
<1>2. PICK was, v : was = pending[i].arg.copy /\ v = pending[i].arg.value
  OBVIOUS
<1>3. PICK copy : copy = [was EXCEPT !.name = v]
  OBVIOUS
<1>4. PICK more : more = IF ecosystem # None THEN Modal!Reloads(selectedDeviceId, copy)
                         ELSE Modal!Mounts(copy, FirstDevice)
  OBVIOUS
<1>5. /\ pending[i].op = "rename" /\ ~Failed(i) /\ Receive(i, more)
      /\ UNCHANGED <<row, crossed>>
      /\ visible' = (IF visible = None THEN None ELSE copy)
      /\ ecosystem' = copy
      /\ ecosystem # None => UNCHANGED <<selectedDeviceId, selectedDevice, edited>>
      /\ ecosystem = None => selectedDeviceId' = FirstDevice /\ selectedDevice'.id = FirstDevice
  <2>1. /\ pending[i].op = "rename" /\ ~Modal!Failed(i)
        /\ visible' = (IF visible = None THEN None ELSE copy)
        /\ \/ /\ ecosystem # None /\ ecosystem' = copy /\ UNCHANGED Modal!shown
              /\ Modal!Receive(i, Modal!Reloads(selectedDeviceId, copy))
           \/ /\ ecosystem = None /\ Modal!Mounted(copy, FirstDevice)
              /\ Modal!Receive(i, Modal!Mounts(copy, FirstDevice))
        /\ UNCHANGED <<row, crossed>>
    BY <1>2, <1>3 DEF Modal!RenameArrives, Modal!isOpen
  <2>2. Modal!Receive(i, more)
    BY <1>4, <2>1
  <2>3. ecosystem = None => selectedDeviceId' = FirstDevice /\ selectedDevice'.id = FirstDevice
    BY <2>1 DEF Modal!Mounted
  <2>4. ecosystem' = copy /\ (ecosystem # None => UNCHANGED <<selectedDeviceId, selectedDevice, edited>>)
    BY <2>1 DEF Modal!Mounted, Modal!shown
  <2> QED BY <2>1, <2>2, <2>3, <2>4, ModalSends DEF Modal!Failed, Failed
<1>6. was \in Plan /\ v \in Nat /\ Good(was)
  BY <1>1, <1>2, <1>5 DEF ValuesInv, ChangeInv
<1>7. copy \in Plan /\ copy.devices = was.devices
  BY <1>3, <1>6 DEF Plan
<1>8. PICK s : s = selectedDeviceId'
  OBVIOUS
<1>9. s \in Devices
  BY <1>1, <1>5, <1>8, DevicesAssumption DEF CopiesInv
<1>10. PICK none : none = <<>>
  OBVIOUS
<1>11. Loads(more) /\ (EndsWith(more, s) \/ (ecosystem # None /\ more = none))
  <2>1. CASE ecosystem = None
    BY <1>4, <1>5, <1>8, <2>1, MountsLoad, DevicesAssumption
  <2>2. CASE ecosystem # None
    <3>1. s = selectedDeviceId
      BY <1>5, <1>8, <2>2
    <3>2. more = <<Modal!Loading(s, copy)>> \/ more = none
      BY <1>4, <1>10, <2>2, <3>1 DEF Modal!Reloads
    <3>3. CASE more = <<Modal!Loading(s, copy)>>
      BY <1>9, <3>3, LoadsOne
    <3>4. CASE more = none
      BY <1>10, <2>2, <3>4, LoadsNothing
    <3> QED BY <3>2, <3>3, <3>4
  <2> QED BY <2>1, <2>2
<1>12. /\ Queue' /\ ValuesInv' /\ OneChange' /\ failures' = failures
       /\ \A c : Good(c) => Good(c)'
       /\ ~crossed => \A j \in DOMAIN pending' : pending'[j].op = "device"
  BY <1>5, <1>11, DevicesHear
<1>13. Good(copy)'
  <2>1. Good(was)'
    BY <1>6, <1>12
  <2> QED BY <1>7, <2>1 DEF Good
<1>14. CopiesInv'
  <2>1. visible' # None => Good(visible)'
    BY <1>5, <1>13 DEF Good
  <2>2. Good(ecosystem)' /\ selectedDeviceId' \in Devices
    BY <1>5, <1>8, <1>9, <1>13 DEF Good
  <2>3. visible' # None => ecosystem' = visible'
    BY <1>5
  <2>4. selectedDevice' # None => selectedDevice'.id \in Devices
    BY <1>1, <1>5, DevicesAssumption DEF CopiesInv
  <2> QED BY <2>1, <2>2, <2>3, <2>4 DEF CopiesInv
<1>15. RowInv'
  <2>1. ASSUME ~failures', ~crossed', visible' # None
        PROVE  row' = visible' /\ \A j \in DOMAIN pending' : pending'[j].op = "device"
    <3>1. pending[i].stage = "done"
      BY <1>5 DEF Receive, Over, Failed
    <3>2. ~failures /\ ~crossed /\ visible # None
      BY <1>5, <1>12, <2>1
    <3>3. was = visible /\ row = [visible EXCEPT !.name = v]
      BY <1>1, <1>2, <1>5, <3>1, <3>2 DEF RowInv
    <3> QED BY <1>3, <1>5, <1>12, <3>2, <3>3
  <2> QED BY <2>1, RowSettles
<1>16. Settling'
  <2>1. CASE EndsWith(more, s)
    <3>1. EndsWith(more, selectedDeviceId')
      BY <1>8, <2>1
    <3> QED BY <1>1, <1>5, <1>11, <3>1, SettlesWithLoad
  <2>2. CASE ecosystem # None /\ more = none
    <3>1. /\ Receive(i, none) /\ pending[i].op \notin {"save", "device"}
          /\ UNCHANGED <<row, selectedDeviceId, selectedDevice, edited>>
      BY <1>5, <2>2
    <3> QED BY <1>10, <2>2, <3>1, SettlingHeard
  <2> QED BY <1>11, <2>1, <2>2
<1> QED BY <1>12, <1>14, <1>15, <1>16 DEF DevicesInv

LEMMA DevicesStep == DevicesInv /\ Modal!DevicesNext => DevicesInv'
<1> SUFFICES ASSUME DevicesInv, Modal!DevicesNext PROVE DevicesInv'
  OBVIOUS
<1>1. ASSUME NEW i \in DOMAIN pending,
             \/ Modal!DevicesServed(i) \/ Modal!DetailsArrive(i) \/ Modal!SaveArrives(i)
             \/ Modal!RenameArrives(i) \/ Modal!RevokeArrives(i) \/ Modal!ChangeFails(i)
      PROVE  DevicesInv'
  BY <1>1, DevicesServes, DetailsHeard, SaveHeard, RenameHeard, DevicesRevoked, ChangeFailed
<1>2. ASSUME NEW d \in Devices, Modal!OpenModal(d) \/ Modal!handleSelectDevice(d)
      PROVE  DevicesInv'
  BY <1>2, DevicesOpen
<1>3. CASE \/ Modal!handleSaveDeviceName \/ Modal!handleSaveEcosystemName
           \/ Modal!handleConfirmRevoke
  BY <1>3, DevicesChange
<1>4. CASE Modal!handleCloseEcosystemModal
  BY <1>4, DevicesClose
<1> QED BY <1>1, <1>2, <1>3, <1>4 DEF Modal!DevicesNext

LEMMA DevicesRest ==
    ASSUME DevicesInv, UNCHANGED <<requestVars, modal>>
    PROVE  DevicesInv'
<1> USE DEF requestVars, modal
<1>1. Queue'
  BY DEF DevicesInv, Queue, Failed
<1>2. \A c : Good(c) => Good(c)'
  BY DEF Good
<1>3. ValuesInv' /\ CopiesInv'
  BY DEF DevicesInv, ValuesInv, CopiesInv, Good
<1>4. OneChange' /\ RowInv' /\ Settling'
  BY DEF DevicesInv, OneChange, RowInv, Settling, NoneOf, Latest
<1> QED BY <1>1, <1>3, <1>4 DEF DevicesInv

\* What the modal promises follows when no request is under way.
LEMMA DevicesPromises ==
    ASSUME DevicesInv
    PROVE  Modal!ListAgrees /\ Modal!ModalSettles
<1>1. ASSUME Modal!Quiet PROVE DOMAIN pending = {}
  BY <1>1 DEF Modal!Quiet
<1>2. Modal!ListAgrees
  BY <1>1 DEF Modal!ListAgrees, DevicesInv, RowInv, NoneOf
<1>3. Modal!ModalSettles
  BY <1>1 DEF Modal!ModalSettles, Modal!isOpen, DevicesInv, Settling, NoneOf
<1> QED BY <1>2, <1>3

-----------------------------------------------------------------------------
(* The routes                                                               *)

\* What holds on the route that is open: what its page knows of its requests,
\* of its copies and of the service behind them.
WebappInv ==
    /\ route = "notifications" => NotesInv
    /\ route = "users" => UsersInv
    /\ route = "ecosystems" => EcosystemsInv
    /\ route = "ecosystem" => DevicesInv
    /\ route = "blockchain" => BlockchainInv
    /\ route = "audit" => AuditInv
    /\ route = "sending" => SenderInv

\* Every route begins as its page is mounted.
LEMMA WebappStarts == Init => WebappInv
<1> SUFFICES ASSUME Init PROVE WebappInv
  OBVIOUS
<1>1. CASE route = "notifications" /\ Bell!NotesInit
  BY <1>1, NotesStart DEF WebappInv
<1>2. CASE route = "users" /\ Accounts!UsersInit
  BY <1>2, UsersStart DEF WebappInv
<1>3. CASE route = "ecosystems" /\ Ecosystems!EcosystemsInit
  BY <1>3, EcosystemsStart DEF WebappInv
<1>4. CASE route = "ecosystem" /\ Modal!DevicesInit
  BY <1>4, DevicesStart DEF WebappInv
<1>5. CASE route = "blockchain" /\ Chaincodes!BlockchainInit
  BY <1>5, BlockchainStarts DEF WebappInv
<1>6. CASE route = "audit" /\ Audit!AuditInit
  BY <1>6, AuditStarts DEF WebappInv
<1>7. CASE route = "sending" /\ Notices!SenderInit
  BY <1>7, SenderStarts DEF WebappInv
<1> QED BY <1>1, <1>2, <1>3, <1>4, <1>5, <1>6, <1>7 DEF Init

\* A step is one of the page that is open.
LEMMA WebappStep == WebappInv /\ Next => WebappInv'
<1> SUFFICES ASSUME WebappInv, Next PROVE WebappInv'
  OBVIOUS
<1>1. route' = route
  BY DEF Next
<1>2. CASE route = "notifications" /\ Bell!NotesNext
  BY <1>1, <1>2, NotesStep DEF WebappInv
<1>3. CASE route = "users" /\ Accounts!UsersNext
  BY <1>1, <1>3, UsersStep DEF WebappInv
<1>4. CASE route = "ecosystems" /\ Ecosystems!EcosystemsNext
  BY <1>1, <1>4, EcosystemsStep DEF WebappInv
<1>5. CASE route = "ecosystem" /\ Modal!DevicesNext
  BY <1>1, <1>5, DevicesStep DEF WebappInv
<1>6. CASE route = "blockchain" /\ Chaincodes!BlockchainNext
  BY <1>1, <1>6, BlockchainStep DEF WebappInv
<1>7. CASE route = "audit" /\ Audit!AuditNext
  BY <1>1, <1>7, AuditStep DEF WebappInv
<1>8. CASE route = "sending" /\ Notices!SenderNext
  BY <1>1, <1>8, SenderStep DEF WebappInv
<1> QED BY <1>2, <1>3, <1>4, <1>5, <1>6, <1>7, <1>8 DEF Next

LEMMA WebappRests == WebappInv /\ UNCHANGED vars => WebappInv'
<1> SUFFICES ASSUME WebappInv, UNCHANGED vars PROVE WebappInv'
  OBVIOUS
<1>1. /\ route' = route /\ actionLoading' = actionLoading
      /\ UNCHANGED requestVars /\ UNCHANGED notes /\ UNCHANGED people /\ UNCHANGED sharings
      /\ UNCHANGED modal /\ UNCHANGED chaincodes /\ UNCHANGED timeline /\ UNCHANGED sendings
  BY DEF vars
<1>2. /\ NotesInv => NotesInv'
      /\ UsersInv => UsersInv'
      /\ EcosystemsInv => EcosystemsInv'
      /\ DevicesInv => DevicesInv'
      /\ BlockchainInv => BlockchainInv'
      /\ AuditInv => AuditInv'
      /\ SenderInv => SenderInv'
  BY <1>1, NotesRest, UsersRest, EcosystemsRest, DevicesRest, BlockchainRests, AuditRests, SenderRests
<1> QED BY <1>1, <1>2 DEF WebappInv

\* Whatever its users and others do, each page keeps what it knows of its
\* requests, its copies and the service.
THEOREM WebappInvariant == Spec => []WebappInv
<1>1. WebappInv /\ [Next]_vars => WebappInv'
  BY WebappStep, WebappRests
<1> QED BY <1>1, WebappStarts, PTL DEF Spec

-----------------------------------------------------------------------------
(* What the pages promise                                                   *)

\* When a page rests and none of its requests failed, its list is what the
\* services have, where the module of the page says so: every handler that
\* changes a row loads the list again after its answer, or writes the same into
\* the copy shown (NotificationsPage, useUsersController,
\* EcosystemsManagementPage, EcosystemDevicesModal, BlockchainManagementPage and
\* AuditTimelinePage).  What excuses it is named there: a change from elsewhere
\* and, of the pages that need it, answers out of order or actions that overlap.
THEOREM ListsAreRight == Spec => []ListsAgree
<1>1. WebappInv => ListsAgree
  BY NotesPromises, UsersPromises, EcosystemsPromises, DevicesPromises, BlockchainPromises,
     AuditPromises DEF WebappInv, ListsAgree
<1> QED BY <1>1, WebappInvariant, PTL

\* When a page rests, none of its requests failed and answers came in order, the
\* panel or modal that is open shows what it was opened for, although nothing
\* cancels the requests of the one that was open before (the user panel, the
\* share modal, the devices modal, the details of a contract).
THEOREM DetailsAreRight == Spec => []DetailsAreTheirs
<1>1. WebappInv => DetailsAreTheirs
  BY UsersPromises, EcosystemsPromises, DevicesPromises, BlockchainPromises
     DEF WebappInv, DetailsAreTheirs
<1> QED BY <1>1, WebappInvariant, PTL

\* When the page rests, none of its requests failed, answers came in order and
\* nobody else wrote a notification, the count beside the bell is the number of
\* those that are open: every handler counts after its answer.
THEOREM BellIsRight == Spec => []BellAgrees
<1>1. WebappInv => BellAgrees
  BY NotesPromises DEF WebappInv, BellAgrees
<1> QED BY <1>1, WebappInvariant, PTL

\* The events of a chaincode have at most one listener in FireFly after any
\* sequence of registrations and deletions of any of its APIs, as long as no two
\* overlapped and none stopped midway: the listeners that are there are deleted
\* before one is added (registerInterface).
THEOREM ListenersAreOne == Spec => []OneListener
<1>1. WebappInv => OneListener
  BY BlockchainPromises DEF WebappInv, OneListener
<1> QED BY <1>1, WebappInvariant, PTL

\* Of the documents nobody wrote between the two times the audit reads them, the
\* timeline and the cards show a DISCREPANCY for those that were altered and for
\* no other, whatever happened to the chain and the documents since.
THEOREM VerdictsStayRight == Spec => []VerdictsAreRight
<1>1. WebappInv => VerdictsAreRight
  BY AuditPromises DEF WebappInv, VerdictsAreRight
<1> QED BY <1>1, WebappInvariant, PTL

\* A text reaches nobody but those it was confirmed for, each of them once unless
\* a request for it failed, and all of those still active when the page rests,
\* although the form can be edited and confirmed again while it is sent.
THEOREM TextsReachTheirs == Spec => []SentAsChosen
<1>1. WebappInv => SentAsChosen
  BY SenderPromises DEF WebappInv, SentAsChosen
<1> QED BY <1>1, WebappInvariant, PTL

=============================================================================
