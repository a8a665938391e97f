--------------------------- MODULE SessionRefresh ---------------------------
(***************************************************************************)
(* The webapp's side of a session: tabs of one browser, which share the    *)
(* refresh cookie and nothing else, the response interceptor of axios.ts   *)
(* with its queue of requests, the refresh AuthProvider makes when a page  *)
(* loads, and the sign-in and sign-out forms.                              *)
(*                                                                         *)
(* The JavaScript of a tab runs to the next await: each continuation is an *)
(* action.  Tabs, the network and the service interleave freely.           *)
(***************************************************************************)
EXTENDS Session, FiniteSets

CONSTANTS
    MaxMoves,   \* bound: what users and administrators do
    Refreshes,  \* the Calls that are refreshes
    Forms       \* the Calls that are logins and logouts

ASSUME RefreshAssumption ==
    /\ Calls = Refreshes \cup Forms /\ Refreshes \cap Forms = {}
    /\ Calls \cap Requests = {}
    /\ None \notin Requests /\ None \notin Tabs

VARIABLES
    cookie,        \* the refresh token the browser keeps
    open,          \* tabs with a page in them
    isHydrating,   \* tabs whose first refresh is under way
    isRefreshing,  \* tabs whose interceptor is refreshing
    failedQueue,   \* requests that wait for that refresh
    origin,        \* the request each refreshing tab will repeat first
    retried,       \* requests with _retry set
    owner,         \* the tab of a call or request; None when its page is gone
    boot,          \* refreshes made by AuthProvider
    moves,         \* how much users and administrators have done
    troubled       \* history: an answer was lost, or failed half way

tabVars == <<open, isHydrating, isRefreshing, failedQueue, origin>>
browser == <<cookie, tabVars, retried, owner, boot, moves, troubled>>
allVars == <<vars, browser>>

\* A browser without a cookie.  A page that is open already was refused the
\* refresh it made as it loaded, when nobody had signed in.
BrowserInit ==
    /\ Init
    /\ cookie = None
    /\ open \in SUBSET Tabs /\ isHydrating = {} /\ isRefreshing = {}
    /\ failedQueue = [t \in Tabs |-> {}]
    /\ origin = [t \in Tabs |-> None]
    /\ retried = {} /\ boot = {}
    /\ owner = [x \in Calls \cup Requests |-> None]
    /\ moves = 0
    /\ troubled = FALSE

Waiting(t) == failedQueue[t] \cup ({origin[t]} \ {None})
Busy(q) == request[q].pc # "free" \/ \E t \in Tabs : q \in Waiting(t)
Own(x, t) == owner' = [owner EXCEPT ![x] = t]
Move == moves < MaxMoves /\ moves' = moves + 1

-----------------------------------------------------------------------------
(* Variants with a bug the code could have, no part of BrowserNext.         *)

\* the answer carries no Set-Cookie
SetRefreshCookieNever(c) == UNCHANGED cookie

\* failedQueue is not emptied once its requests are repeated or rejected
ProcessQueueKeeping(t) == UNCHANGED failedQueue

-----------------------------------------------------------------------------
(* A page loads, and goes away                                              *)

SetRefreshCookie(c) == cookie' = call[c].iat
ProcessQueue(t) == failedQueue' = [failedQueue EXCEPT ![t] = {}]

\* AuthProvider.bootstrapSession
OpenPage(t, c) ==
    /\ t \notin open
    /\ Send(c, "refresh", cookie)
    /\ open' = open \cup {t} /\ isHydrating' = isHydrating \cup {t}
    /\ Own(c, t) /\ boot' = boot \cup {c}
    /\ Move
    /\ UNCHANGED <<cookie, isRefreshing, failedQueue, origin, retried, troubled>>

\* The page is closed or reloaded: memory is lost, and with it every answer.
ClosePage(t) ==
    /\ t \in open
    /\ open' = open \ {t} /\ isHydrating' = isHydrating \ {t}
    /\ isRefreshing' = isRefreshing \ {t}
    /\ Forget(t)
    /\ failedQueue' = [failedQueue EXCEPT ![t] = {}]
    /\ origin' = [origin EXCEPT ![t] = None]
    /\ owner' = [x \in DOMAIN owner |-> IF owner[x] = t THEN None ELSE owner[x]]
    /\ Move
    /\ retried' = retried \ Waiting(t)
    /\ UNCHANGED <<clock, accessLife, row, admin, call, request, alone, cookie, boot, troubled>>

BootAnswer(c, t) ==
    /\ c \in boot /\ owner[c] = t
    /\ Free(c)
    /\ boot' = boot \ {c} /\ Own(c, None)
    /\ isHydrating' = isHydrating \ {t}
    /\ \/ /\ Take(c, t)
          /\ SetRefreshCookie(c)
          /\ UNCHANGED troubled
       \/ /\ Forget(t)
          /\ troubled' = (troubled \/ call[c].pc = "ok")
          /\ UNCHANGED cookie
    /\ UNCHANGED <<open, isRefreshing, failedQueue, origin, retried, moves>>

-----------------------------------------------------------------------------
(* Requests and the interceptors of apiClient                               *)

\* RequireAuth shows a page only to a tab that has a token.
Ask(q, t) ==
    /\ ~Busy(q)
    /\ t \in open \ isHydrating /\ accessToken[t] # None
    /\ SendRequest(q, t)
    /\ Own(q, t)
    /\ Move
    /\ UNCHANGED <<cookie, tabVars, retried, boot, troubled>>

\* served, refused a second time, or no answer: the caller's promise settles
Settle(q, t) ==
    /\ owner[q] = t
    /\ ReceiveRequest(q)
    /\ Own(q, None) /\ retried' = retried \ {q}
    /\ UNCHANGED <<cookie, tabVars, boot, moves, troubled>>

FirstUnauthorized(q, t) ==
    request[q].pc = "unauthorized" /\ q \notin retried /\ owner[q] = t

Enqueue(q, t) ==
    /\ FirstUnauthorized(q, t) /\ t \in isRefreshing
    /\ ReceiveRequest(q)
    /\ failedQueue' = [failedQueue EXCEPT ![t] = @ \cup {q}]
    /\ UNCHANGED <<cookie, open, isHydrating, isRefreshing, origin, retried, owner,
                   boot, moves, troubled>>

StartRefresh(q, t, c) ==
    /\ FirstUnauthorized(q, t) /\ t \notin isRefreshing
    /\ call[c].pc = "free"
    /\ request' = [request EXCEPT ![q] = NoRequest]
    /\ call' = [call EXCEPT ![c] = [@ EXCEPT !.kind = "refresh", !.pc = "sent",
                                             !.token = cookie]]
    /\ alone' = (alone /\ Open = {})
    /\ isRefreshing' = isRefreshing \cup {t}
    /\ origin' = [origin EXCEPT ![t] = q]
    /\ retried' = retried \cup {q}
    /\ Own(c, t)
    /\ UNCHANGED <<clock, accessLife, row, admin, accessToken, cookie, open, isHydrating,
                   failedQueue, boot, moves, troubled>>

\* processQueue(null, token), the original request, and the finally
Refreshed(c, t) ==
    /\ c \in Refreshes \ boot /\ owner[c] = t
    /\ SetRefreshCookie(c)
    /\ Take(c, t)
    /\ request' = [q \in Requests |->
                       IF q \in Waiting(t) THEN [pc |-> "sent", token |-> Issued(c)]
                       ELSE request[q]]
    /\ retried' = retried \cup failedQueue[t]
    /\ call' = [call EXCEPT ![c] = NoCall]
    /\ Own(c, None)
    /\ ProcessQueue(t)
    /\ origin' = [origin EXCEPT ![t] = None]
    /\ isRefreshing' = isRefreshing \ {t}
    /\ UNCHANGED <<clock, accessLife, row, admin, alone, open, isHydrating, boot, moves,
                   troubled>>

\* processQueue(error), clearAuthAccessToken, and the finally; the answer may
\* be a refusal or none at all
NotRefreshed(c, t) ==
    /\ c \in Refreshes \ boot /\ owner[c] = t
    /\ Free(c)
    /\ Forget(t)
    /\ owner' = [x \in DOMAIN owner |-> IF x = c \/ x \in Waiting(t) THEN None ELSE owner[x]]
    /\ ProcessQueue(t)
    /\ origin' = [origin EXCEPT ![t] = None]
    /\ isRefreshing' = isRefreshing \ {t}
    /\ retried' = retried \ Waiting(t)
    /\ troubled' = (troubled \/ call[c].pc = "ok")
    /\ UNCHANGED <<cookie, open, isHydrating, boot, moves>>

-----------------------------------------------------------------------------
(* Login.handleSubmit and MainLayout.handleSignOut                          *)

Submit(t, c, kind) ==
    /\ t \in open
    /\ (kind = "logout") => t \notin isHydrating /\ accessToken[t] # None
    /\ Send(c, kind, cookie)
    /\ Own(c, t)
    /\ Move
    /\ UNCHANGED <<cookie, tabVars, retried, boot, troubled>>

SignedIn(c, t) ==
    /\ c \in Forms /\ owner[c] = t /\ call[c].kind = "login"
    /\ Free(c) /\ Own(c, None)
    /\ \/ /\ Take(c, t)
          /\ SetRefreshCookie(c)
          /\ UNCHANGED troubled
       \/ /\ troubled' = (troubled \/ call[c].pc # "refused")
          /\ UNCHANGED <<cookie, accessToken>>
    /\ UNCHANGED <<open, isHydrating, isRefreshing, failedQueue, origin, retried, boot, moves>>

\* The controller clears the cookie before the service is called, so that an
\* answer of failure clears it too.
ClearSessionCookies(c) ==
    /\ call[c].kind = "logout" /\ call[c].pc \in {"ok", "failed"}
    /\ cookie' = None
    /\ troubled' = (troubled \/ call[c].pc = "failed")

\* the tab forgets its token in any case
SignedOut(c, t) ==
    /\ c \in Forms /\ owner[c] = t /\ call[c].kind = "logout"
    /\ Free(c) /\ Own(c, None)
    /\ \/ ClearSessionCookies(c)
       \/ UNCHANGED cookie /\ troubled' = (troubled \/ call[c].pc # "refused")
    /\ Forget(t)
    /\ UNCHANGED <<open, isHydrating, isRefreshing, failedQueue, origin, retried, boot, moves>>

\* The page that asked is gone, and with it whoever would read the answer; the
\* browser may still keep the cookie that the answer sets, or clear it.
Drop(x) ==
    /\ owner[x] = None
    /\ \/ /\ x \in Calls /\ Free(x) /\ UNCHANGED accessToken
          /\ \/ /\ call[x].kind # "logout" /\ call[x].pc = "ok"
                /\ SetRefreshCookie(x)
                /\ UNCHANGED troubled
             \/ ClearSessionCookies(x)
             \/ /\ UNCHANGED cookie
                /\ troubled' = (troubled \/ call[x].pc = "ok"
                                  \/ (x \in Forms /\ call[x].pc = "failed"))
       \/ x \in Requests /\ ReceiveRequest(x) /\ UNCHANGED <<cookie, troubled>>
    /\ boot' = boot \ {x} /\ retried' = retried \ {x}
    /\ UNCHANGED <<tabVars, owner, moves>>

-----------------------------------------------------------------------------

\* what the service does by itself
Service ==
    /\ \/ Tick \/ Blacklist
       \/ \E c \in Calls : Serve(c) \/ Fail(c)
       \/ \E q \in Requests : Check(q)
    /\ UNCHANGED browser

Administrator ==
    /\ Administer
    /\ Move
    /\ UNCHANGED <<cookie, tabVars, retried, owner, boot, troubled>>

Answer(c) ==
    \/ \E t \in Tabs : \/ BootAnswer(c, t) \/ Refreshed(c, t) \/ NotRefreshed(c, t)
                       \/ SignedIn(c, t) \/ SignedOut(c, t)
    \/ Drop(c)

AnswerRequest(q) ==
    \/ \E t \in Tabs : \/ Settle(q, t) /\ (request[q].pc = "served" \/ q \in retried)
                       \/ Enqueue(q, t)
                       \/ \E c \in Refreshes : StartRefresh(q, t, c)
    \/ Drop(q)

\* a request without an answer is rejected as it is
LoseRequest(q) == request[q].pc \in {"served", "unauthorized"} /\ \E t \in Tabs : Settle(q, t)

BrowserNext ==
    \/ Service \/ Administrator
    \/ \E t \in Tabs : \/ ClosePage(t)
                       \/ \E c \in Refreshes : OpenPage(t, c)
                       \/ \E c \in Forms, k \in {"login", "logout"} : Submit(t, c, k)
                       \/ \E q \in Requests : Ask(q, t)
    \/ \E c \in Calls : Answer(c)
    \/ \E q \in Requests : AnswerRequest(q) \/ LoseRequest(q)

\* The service works on and every exchange ends, with an answer or an error.
\* Nothing is asked of forms: their anchoring may wait for FireFly for ever.
BrowserFairness ==
    /\ \A c \in Refreshes : WF_allVars(Serve(c) /\ UNCHANGED browser) /\ WF_allVars(Answer(c))
    /\ \A q \in Requests : WF_allVars(Check(q) /\ UNCHANGED browser)
                           /\ WF_allVars(AnswerRequest(q))

BrowserSpec == BrowserInit /\ [][BrowserNext]_allVars /\ BrowserFairness

-----------------------------------------------------------------------------
(* Properties                                                               *)

RefreshesOf(t) == {c \in Refreshes : owner[c] = t /\ call[c].pc # "free"}

\* axios.ts:133 and AuthProvider.tsx:31: a tab has one refresh under way
\* exactly when its interceptor or its provider says so, and a request waits
\* only while its interceptor's refresh can still answer it.
WaitersHaveARefresh ==
    \A t \in Tabs :
        /\ RefreshesOf(t) # {} <=> t \in isRefreshing \cup isHydrating
        /\ \A c, d \in RefreshesOf(t) : c = d
        /\ Waiting(t) # {} => t \in isRefreshing

\* auth.service.ts:161 compares the cookie with the hash: when nothing is
\* under way, no two calls have overlapped and no answer that changed
\* something was lost, the one session in the row is the browser's.
CookieIsCurrent ==
    Open = {} /\ alone /\ ~troubled /\ account.hash # None => cookie = account.hash

\* Every request of a page ends, repeated at most once, whatever happens to
\* the refresh it waits for (axios.ts:121).
RequestsSettle == \A q \in Requests : Busy(q) ~> ~Busy(q)
=============================================================================
