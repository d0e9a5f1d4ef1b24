---------------------------- MODULE ClientSession ----------------------------
(***************************************************************************)
(* Who is signed in, as one tab of the browser sees it: the cookie, the    *)
(* user the page shows, the cache of what was fetched for that user, and   *)
(* the requests in flight, whose answers arrive in any order and may be    *)
(* about a session that has been left meanwhile.  The sessions on the      *)
(* server are those of Sessions; here they begin and end.                  *)
(*                                                                         *)
(* An answer arrives in two steps: the browser takes its cookie, and later *)
(* the page handles its body.                                              *)
(***************************************************************************)
EXTENDS Naturals

CONSTANTS
    Slots,        \* the requests that can be in flight at once
    Users,
    SessionIds,
    None          \* no user, no cookie, no answer

ClientConstants == None \notin Users \cup SessionIds

VARIABLES
    owner,        \* whose a session is, None before it begins
    live,         \* the sessions the server knows
    cookie,
    user,         \* the state of AuthProvider
    checking,
    epoch,        \* sessionEpoch
    cache,        \* whose data the QueryClient of the page holds
    request,
    mine          \* history: the session the user was shown for

vars == <<owner, live, cookie, user, checking, epoch, cache, request, mine>>

server == <<owner, live>>
page == <<user, checking, epoch, cache, mine>>

Kinds == {"me", "login", "logout", "data"}

\* with: the cookie that was sent; epoch: of the page then; who: the user who
\* logs in, and in an answer whose it is; session: the one a login opened.
Request == [ kind : Kinds,
             stage : {"free", "sent", "answered", "arrived"},
             with : SessionIds \cup {None},
             epoch : Nat,
             who : Users \cup {None},
             status : {"ok", "unauthorized", "failed", "none"},
             session : SessionIds \cup {None} ]

Free == [ kind |-> "data", stage |-> "free", with |-> None, epoch |-> 0,
          who |-> None, status |-> "none", session |-> None ]

TypeOK ==
    /\ owner \in [SessionIds -> Users \cup {None}]
    /\ live \subseteq {s \in SessionIds : owner[s] # None}
    /\ cookie \in SessionIds \cup {None}
    /\ user \in Users \cup {None}
    /\ checking \in BOOLEAN
    /\ epoch \in Nat
    /\ cache \subseteq Users
    /\ request \in [Slots -> Request]
    /\ mine \in SessionIds \cup {None}

Becomes(q, record) == request' = [request EXCEPT ![q] = record]
Is(q, kind, stage) == request[q].kind = kind /\ request[q].stage = stage
InFlight(kind) ==
    \E q \in Slots : request[q].kind = kind /\ request[q].stage # "free"

Init ==
    /\ owner \in [SessionIds -> Users \cup {None}]
    /\ live = {}
    /\ cookie \in {s \in SessionIds : owner[s] # None} \cup {None}
    /\ \A s \in SessionIds : owner[s] # None => s = cookie
    /\ user = None /\ checking = TRUE /\ epoch = 0 /\ cache = {}
    /\ request = [q \in Slots |-> Free]
    /\ mine = None

-----------------------------------------------------------------------------
\* fetch with credentials: the cookie of this moment goes along.
Send(q, kind, who) ==
    /\ request[q].stage = "free"
    /\ Becomes(q, [Free EXCEPT !.kind = kind, !.stage = "sent",
                               !.with = cookie, !.epoch = epoch, !.who = who])
    /\ UNCHANGED <<server, cookie, page>>

\* The check of a fresh page, also after a retry.
SendMe(q) == checking /\ ~InFlight("me") /\ Send(q, "me", None)

\* LoginPage, which is busy until it is answered.
SendLogin(q) ==
    /\ ~checking /\ user = None /\ ~InFlight("login")
    /\ \E who \in Users : Send(q, "login", who)

\* AppShell.
SendLogout(q) == user # None /\ ~InFlight("logout") /\ Send(q, "logout", None)

\* Any page that shows or changes something of the user.
SendData(q) == user # None /\ Send(q, "data", None)

-----------------------------------------------------------------------------
\* External, see Sessions.
Answered(q, status, who, session) ==
    Becomes(q, [request[q] EXCEPT !.stage = "answered", !.status = status,
                                  !.who = who, !.session = session])

ServeLogin(q) ==
    /\ Is(q, "login", "sent")
    /\ \/ \E s \in SessionIds :
            /\ owner[s] = None
            /\ owner' = [owner EXCEPT ![s] = request[q].who]
            /\ live' = live \cup {s}
            /\ Answered(q, "ok", request[q].who, s)
       \/ Answered(q, "unauthorized", None, None) /\ UNCHANGED server
    /\ UNCHANGED <<cookie, page>>

ServeLogout(q) ==
    /\ Is(q, "logout", "sent")
    /\ live' = live \ {request[q].with}
    /\ Answered(q, "ok", None, None)
    /\ UNCHANGED <<owner, cookie, page>>

ServeOwner(q) ==
    /\ Is(q, "me", "sent") \/ Is(q, "data", "sent")
    /\ IF request[q].with \in live
       THEN Answered(q, "ok", owner[request[q].with], None)
       ELSE Answered(q, "unauthorized", None, None)
    /\ UNCHANGED <<server, cookie, page>>

\* A session ends by its time to live or a change of the password.
Expire(s) ==
    /\ s \in live
    /\ live' = live \ {s}
    /\ UNCHANGED <<owner, cookie, page, request>>

\* The request or its answer is lost, the server fails, or the page gives a
\* query up: what the server did stays done.
Lose(q) ==
    /\ request[q].stage \in {"sent", "answered"}
    /\ Becomes(q, [request[q] EXCEPT !.stage = "arrived", !.status = "failed"])
    /\ UNCHANGED <<server, cookie, page>>

\* The headers of an answer: set_cookie of a login, delete_cookie of a logout.
Arrive(q) ==
    /\ request[q].stage = "answered"
    /\ Becomes(q, [request[q] EXCEPT !.stage = "arrived"])
    /\ cookie' = IF request[q].status # "ok" THEN cookie
                 ELSE IF request[q].kind = "login" THEN request[q].session
                 ELSE IF request[q].kind = "logout" THEN None
                 ELSE cookie
    /\ UNCHANGED <<server, page>>

-----------------------------------------------------------------------------
\* slip: one QueryClient for whoever is signed in
KeptCache(who) == cache

\* SessionQueries: another key makes another client, the old one is cleared
\* and what was fetched for it goes nowhere.
CacheOf(who) == IF who = user THEN cache ELSE {}

\* setUser and resetApiSession.
Show(who, session) ==
    /\ user' = who
    /\ cache' = CacheOf(who)
    /\ epoch' = epoch + 1
    /\ mine' = session

\* slip: every 401 ends the session
AnyEpoch(q) == TRUE

\* requestEpoch === sessionEpoch
SameEpoch(q) == request[q].epoch = epoch

\* The event session-expired, which no failed login raises.
Expires(q) ==
    /\ request[q].status = "unauthorized"
    /\ request[q].kind # "login"
    /\ SameEpoch(q)

Kept == UNCHANGED <<user, cache, epoch, mine>>

\* The page handles the body of an answer.
Handle(q) ==
    /\ request[q].stage = "arrived"
    /\ Becomes(q, Free)
    /\ LET r == request[q] IN
       /\ CASE Expires(q) -> Show(None, None)
            [] r.kind = "me" /\ r.status = "ok" -> Show(r.who, r.with)
            [] r.kind = "login" /\ r.status = "ok" -> Show(r.who, r.session)
            [] r.kind = "logout" /\ r.status = "ok" -> Show(None, None)
            \* the client it was fetched for is still there
            [] r.kind = "data" /\ r.status = "ok" /\ SameEpoch(q) ->
                  /\ cache' = cache \cup {r.who}
                  /\ UNCHANGED <<user, epoch, mine>>
            [] OTHER -> Kept
       \* an answer that is neither shows the error, whose button tries again
       /\ checking' = (checking /\ ~(r.kind = "me" /\ r.status # "failed"))
    /\ UNCHANGED <<server, cookie>>

\* The tab is reloaded: the page begins anew, the cookie stays, and nobody
\* waits for the answers under way.
Reload ==
    /\ user' = None /\ checking' = TRUE /\ epoch' = 0 /\ cache' = {}
    /\ mine' = None
    /\ request' = [q \in Slots |-> Free]
    /\ UNCHANGED <<server, cookie>>

Next ==
    \/ \E q \in Slots :
          \/ SendMe(q) \/ SendLogin(q) \/ SendLogout(q) \/ SendData(q)
          \/ ServeLogin(q) \/ ServeLogout(q) \/ ServeOwner(q)
          \/ Lose(q) \/ Arrive(q) \/ Handle(q)
    \/ \E s \in SessionIds : Expire(s)
    \/ Reload

Spec == Init /\ [][Next]_vars

-----------------------------------------------------------------------------
\* What the page shows under the name of a user is that user's: no answer to
\* a request of an earlier session ends up beside another name.
ShownDataIsOwn == cache \subseteq {user}

\* Besides a logout, only an answer about the session shown, or to a request
\* that had no cookie to send, ends it: not a late 401 of an earlier one.
OnlyOwnAnswersEndSession ==
    [][ user # None /\ user' = None /\ ~Reload =>
          \E q \in Slots :
              /\ Handle(q)
              /\ request[q].kind = "logout"
                 \/ request[q].with \in {mine, None} ]_vars
=============================================================================
