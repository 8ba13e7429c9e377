---------------------------- MODULE TokenRefresh ----------------------------
(***************************************************************************)
(* The requests of one browser tab and its session: frontend/src/api/      *)
(* http.ts (api, postSse, refreshAccessToken) and stores/auth.ts.          *)
(*                                                                         *)
(* A pair of tokens is its user and its number; the server keeps nothing   *)
(* of it (app/api/auth.py, refresh), so pairs expire in the order in which *)
(* they were issued.  The steps between two awaits are one action.         *)
(***************************************************************************)
EXTENDS Integers, FiniteSets

CONSTANTS
    Request,      \* the requests the page makes
    User,         \* who may log in
    MaxPairs,     \* bound on the numbers of pairs; the last one stays valid
    MaxFailures   \* bound on the calls the network loses

NoOne == "no one"

ASSUME RefreshAssumption ==
    NoOne \notin Request \cup User /\ MaxPairs \in Nat /\ MaxPairs >= 2 /\ MaxFailures \in Nat

VARIABLES
    page,       \* the login page or the application
    store,      \* tokenStore: the pair ...
    username,   \* ... and the name beside it
    request,    \* what has become of each request
    refreshing, \* the shared promise: the request that started it
    flights,    \* the calls of /refresh under way
    issued,     \* number of the last pair
    expired,    \* access tokens up to this pair are expired
    over,       \* and refresh tokens up to this one
    failures,   \* calls lost
    crossed     \* a user has logged out with a refresh under way (history)

session == <<page, store, username>>
clock   == <<issued, expired, over>>
refreshVars == <<session, request, refreshing, flights, clock, failures, crossed>>

-----------------------------------------------------------------------------
NoPair == [user |-> NoOne, number |-> 0]
Pair == [user : User, number : 1 .. MaxPairs]
Idle == [at |-> "idle", token |-> NoPair, retry |-> TRUE, on |-> NoOne]

Ended == {"served", "signed out", "unauthorized", "lost", "dropped"}

NextNumber == IF issued < MaxPairs THEN issued + 1 ELSE MaxPairs

RefreshInit ==
    /\ page = "login" /\ store = NoPair /\ username = NoOne
    /\ request = [r \in Request |-> Idle]
    /\ refreshing = NoOne /\ flights = {}
    /\ issued = 0 /\ expired = 0 /\ over = 0
    /\ failures = 0 /\ crossed = FALSE

(* router.beforeEach: a stored token opens the application. *)
Enter ==
    /\ page = "login" /\ store # NoPair /\ page' = "app"
    /\ UNCHANGED <<store, username, request, refreshing, flights, clock, failures, crossed>>

Login(u) ==
    /\ page = "login"
    /\ issued' = NextNumber
    /\ store' = [user |-> u, number |-> NextNumber] /\ username' = u /\ page' = "app"
    /\ UNCHANGED <<request, refreshing, flights, expired, over, failures, crossed>>

Logout ==
    /\ page = "app"
    /\ store' = NoPair /\ username' = NoOne /\ page' = "login"
    /\ crossed' = (crossed \/ flights # {})
    /\ UNCHANGED <<request, refreshing, flights, clock, failures>>

(* Time: nobody's retry is so slow that its token, just issued, expires. *)
ExpireAccess ==
    /\ expired < issued /\ expired + 1 < MaxPairs
    /\ \A r \in Request : request[r].at = "sent" /\ ~request[r].retry => request[r].token.number # expired + 1
    /\ expired' = expired + 1
    /\ UNCHANGED <<session, request, refreshing, flights, issued, over, failures, crossed>>

ExpireRefresh ==
    /\ over < expired
    /\ over' = over + 1
    /\ UNCHANGED <<session, request, refreshing, flights, issued, expired, failures, crossed>>

-----------------------------------------------------------------------------
Send(r) ==
    /\ page = "app" /\ request[r].at = "idle"
    /\ request' = [request EXCEPT ![r].at = "sent", ![r].token = store]
    /\ UNCHANGED <<session, refreshing, flights, clock, failures, crossed>>

After(how) == [Idle EXCEPT !.at = how]
End(r, how) == request' = [request EXCEPT ![r] = After(how)]

Serve(r) ==
    /\ request[r].at = "sent" /\ request[r].token.number > expired
    /\ End(r, "served")
    /\ UNCHANGED <<session, refreshing, flights, clock, failures, crossed>>

(* 401: wait for the refresh under way, or start one with the stored pair. *)
\* Mutant: every request starts its own refresh.
JoinStarts(r) ==
    /\ refreshing' = r
    /\ flights' = flights \cup {[by |-> r, pair |-> store]}
    /\ request' = [request EXCEPT ![r].at = "waiting", ![r].on = r]

\* Mutant: the refresh uses the pair the request was sent with.
JoinWithOldPair(r) ==
    IF refreshing = NoOne
    THEN /\ refreshing' = r
         /\ flights' = flights \cup {[by |-> r, pair |-> request[r].token]}
         /\ request' = [request EXCEPT ![r].at = "waiting", ![r].on = r]
    ELSE /\ request' = [request EXCEPT ![r].at = "waiting", ![r].on = refreshing]
         /\ UNCHANGED <<refreshing, flights>>

Join(r) ==
    LET by == IF refreshing = NoOne THEN r ELSE refreshing IN
    /\ refreshing' = by
    /\ flights' = IF by = r THEN flights \cup {[by |-> r, pair |-> store]} ELSE flights
    /\ request' = [request EXCEPT ![r].at = "waiting", ![r].on = by]

Reject(r) ==
    /\ request[r].at = "sent" /\ request[r].token.number <= expired
    /\ IF request[r].retry /\ store # NoPair THEN Join(r)
       ELSE /\ End(r, IF request[r].retry THEN "signed out" ELSE "unauthorized")
            /\ UNCHANGED <<refreshing, flights>>
    /\ UNCHANGED <<session, clock, failures, crossed>>

Lose(r) ==
    /\ request[r].at = "sent" /\ failures < MaxFailures
    /\ failures' = failures + 1
    /\ End(r, "lost")
    /\ UNCHANGED <<session, refreshing, flights, clock, crossed>>

-----------------------------------------------------------------------------
Waits(r, f) == request[r].at = "waiting" /\ request[r].on = f.by

(* The pair is stored, and every waiter sends its request again with it. *)
\* Mutant: the request is sent again with the header it had.
ResendSame(f, p) ==
    [r \in Request |-> IF Waits(r, f) THEN [request[r] EXCEPT !.at = "sent", !.retry = FALSE]
                       ELSE request[r]]

Resend(f, p) ==
    [r \in Request |-> IF Waits(r, f) THEN [at |-> "sent", token |-> p, retry |-> FALSE, on |-> NoOne]
                       ELSE request[r]]

Refreshed(f) ==
    /\ f.pair.number > over
    /\ LET p == [user |-> f.pair.user, number |-> NextNumber] IN
       issued' = NextNumber /\ store' = p /\ request' = Resend(f, p)
    /\ flights' = flights \ {f} /\ refreshing' = NoOne
    /\ UNCHANGED <<page, username, expired, over, failures, crossed>>

(* handleRefreshFailure: the store is emptied and the tab reloaded at the
   login page, which drops whatever the page was doing; on the login page
   the waiters just fail.                                                  *)
Reloads == page = "app"

\* Mutant: on the login page the waiters are left waiting.
FailedForgets(f) ==
    IF Reloads
    THEN /\ request' = [r \in Request |-> IF request[r].at \in {"sent", "waiting"}
                                          THEN After("dropped") ELSE request[r]]
         /\ flights' = {}
    ELSE flights' = flights \ {f} /\ UNCHANGED request

Failed(f) ==
    /\ request' = [r \in Request |->
         CASE Reloads /\ request[r].at \in {"sent", "waiting"} -> After("dropped")
           [] ~Reloads /\ Waits(r, f) -> After("signed out")
           [] OTHER -> request[r]]
    /\ flights' = IF Reloads THEN {} ELSE flights \ {f}

RefreshFails(f) ==
    /\ \/ f.pair.number <= over /\ UNCHANGED failures
       \/ failures < MaxFailures /\ failures' = failures + 1
    /\ Failed(f)
    /\ refreshing' = NoOne
    /\ store' = NoPair /\ username' = NoOne /\ page' = "login"
    /\ UNCHANGED <<clock, crossed>>

Answer(r) == Serve(r) \/ Reject(r)
Land(f) == Refreshed(f) \/ RefreshFails(f)

RefreshNext ==
    \/ Enter \/ Logout \/ \E u \in User : Login(u)
    \/ ExpireAccess \/ ExpireRefresh
    \/ \E r \in Request : Send(r) \/ Answer(r) \/ Lose(r)
    \/ \E f \in flights : Land(f)

(* The server answers every call, or the network breaks it. *)
RefreshFairness ==
    /\ \A r \in Request : WF_refreshVars(Answer(r))
    /\ WF_refreshVars(\E f \in flights : Land(f))

RefreshSpec == RefreshInit /\ [][RefreshNext]_refreshVars /\ RefreshFairness

-----------------------------------------------------------------------------
RequestState == [at : {"idle", "sent", "waiting"} \cup Ended, token : Pair \cup {NoPair},
                 retry : BOOLEAN, on : Request \cup {NoOne}]

RefreshTypeOK ==
    /\ page \in {"login", "app"} /\ store \in Pair \cup {NoPair} /\ username \in User \cup {NoOne}
    /\ request \in [Request -> RequestState]
    /\ refreshing \in Request \cup {NoOne}
    /\ flights \subseteq [by : Request, pair : Pair]
    /\ over \in 0 .. expired /\ expired \in 0 .. issued /\ issued \in 0 .. MaxPairs
    /\ failures \in 0 .. MaxFailures /\ crossed \in BOOLEAN

(* http.ts, 82: requests answered 401 at the same time share one refresh. *)
OneRefresh == Cardinality(flights) <= 1

(* The tokens are those of the user the page names, whoever's request has
   been refused late, unless somebody logged out during a refresh.         *)
SessionIsOwn == ~crossed /\ store # NoPair => store.user = username

(* A session that lives serves: the request sent again is not refused, and
   the page is thrown away only when the refresh token has expired or the
   network has lost a call.                                                *)
LiveSessionServes ==
    \A r \in Request :
        /\ request[r].at # "unauthorized"
        /\ request[r].at = "dropped" => over > 0 \/ failures > 0

(* Every request gets an outcome. *)
EveryRequestEnds == \A r \in Request : (request[r].at \in {"sent", "waiting"}) ~> (request[r].at \in Ended)
=============================================================================
