------------------------ MODULE TokenRefreshProofs ------------------------
(***************************************************************************)
(* The safety properties of TokenRefresh for any number of requests,       *)
(* users, pairs and lost calls.                                            *)
(***************************************************************************)
EXTENDS TokenRefresh, FiniteSetTheorems, TLAPS

-----------------------------------------------------------------------------
(* The inductive invariant. *)

(* The promise belongs to the one refresh under way, and who started it
   waits for it.                                                           *)
Alone ==
    /\ \A f \in flights : f.by = refreshing
    /\ \A f, g \in flights : f = g
    /\ refreshing # NoOne => request[refreshing].at = "waiting"

(* As long as nobody logs out during a refresh, tokens and refreshes are
   those of the user in the application.                                   *)
Own ==
    ~crossed => /\ store # NoPair => page = "app" /\ store.user = username
                /\ \A f \in flights : page = "app" /\ f.pair.user = username

(* A request is sent again with a token that has not expired. *)
Valid ==
    /\ expired < MaxPairs
    /\ \A r \in Request : request[r].at = "sent" /\ ~request[r].retry => request[r].token.number > expired

(* A request that has not been sent has its retry before it. *)
Fresh == \A r \in Request : request[r].at = "idle" => request[r].retry

IInv == RefreshTypeOK /\ Alone /\ Own /\ Valid /\ Fresh /\ LiveSessionServes

-----------------------------------------------------------------------------
LEMMA Basics ==
    /\ NoOne \notin Request /\ NoOne \notin User
    /\ MaxPairs \in Nat /\ MaxPairs >= 2 /\ MaxFailures \in Nat
    /\ NoPair \notin Pair /\ NoPair.number = 0
    /\ \A p \in Pair : p.user \in User /\ p.number \in 1 .. MaxPairs
BY RefreshAssumption DEF NoPair, Pair

LEMMA Numbers ==
    ASSUME RefreshTypeOK, Valid
    PROVE  NextNumber \in 1 .. MaxPairs /\ NextNumber > expired /\ issued <= NextNumber
BY Basics DEF RefreshTypeOK, Valid, NextNumber

(* The states a request can be put into. *)
LEMMA AfterState ==
    ASSUME NEW how \in Ended \cup {"idle"}
    PROVE  After(how) \in RequestState /\ After(how).at = how
BY DEF After, Idle, RequestState, Ended

LEMMA ResentState ==
    ASSUME NEW p \in Pair
    PROVE  [at |-> "sent", token |-> p, retry |-> FALSE, on |-> NoOne] \in RequestState
BY DEF RequestState

LEMMA SentState ==
    ASSUME NEW x \in RequestState, NEW p \in Pair \cup {NoPair}
    PROVE  LET y == [x EXCEPT !.at = "sent", !.token = p]
           IN  y \in RequestState /\ y.at = "sent" /\ y.retry = x.retry /\ y.token = p
BY DEF RequestState

LEMMA WaitingState ==
    ASSUME NEW x \in RequestState, NEW q \in Request
    PROVE  LET y == [x EXCEPT !.at = "waiting", !.on = q]
           IN  y \in RequestState /\ y.at = "waiting"
BY DEF RequestState

LEMMA TokenNumber ==
    ASSUME RefreshTypeOK, NEW r \in Request
    PROVE  request[r].token.number \in Int /\ expired \in Int
<1>1. request[r].token \in Pair \cup {NoPair}
  BY DEF RefreshTypeOK, RequestState
<1>2. request[r].token.number \in Int
  BY <1>1, Basics
<1> QED  BY <1>2 DEF RefreshTypeOK

-----------------------------------------------------------------------------
(* Steps that change one request, which did not wait, and nothing of the
   session and the refreshes.                                              *)
LEMMA RequestChanges ==
    ASSUME IInv, NEW r \in Request, NEW y \in RequestState,
           request' = [request EXCEPT ![r] = y], request[r].at # "waiting", y.at # "unauthorized",
           y.at = "sent" => y.retry \/ y.token.number > expired,
           y.at # "dropped", y.at # "idle", failures' \in 0 .. MaxFailures, failures' >= failures,
           UNCHANGED <<session, refreshing, flights, clock, crossed>>
    PROVE  IInv'
<1>1. /\ request' \in [Request -> RequestState] /\ request'[r] = y
      /\ \A q \in Request : q # r => request'[q] = request[q]
  BY DEF IInv, RefreshTypeOK
<1>2. RefreshTypeOK'
  BY <1>1 DEF IInv, RefreshTypeOK, session, clock
<1>3. Alone'
  <2>1. refreshing # r \/ refreshing = NoOne
    BY DEF IInv, Alone
  <2> QED  BY <1>1, <2>1 DEF IInv, Alone, RefreshTypeOK
<1>4. Own'
  BY DEF IInv, Own, session
<1>5. Valid'
  <2>1. expired' = expired
    BY DEF clock
  <2> QED  BY <1>1, <2>1 DEF IInv, Valid
<1>6. LiveSessionServes'
  <2>1. over' = over /\ failures \in Nat /\ failures' \in Nat
    BY Basics DEF clock, IInv, RefreshTypeOK
  <2> QED  BY <1>1, <2>1 DEF IInv, LiveSessionServes
<1>7. Fresh'
  BY <1>1 DEF IInv, Fresh
<1> QED  BY <1>2, <1>3, <1>4, <1>5, <1>6, <1>7 DEF IInv

LEMMA SendKeeps ==
    ASSUME IInv, NEW r \in Request, Send(r)
    PROVE  IInv'
<1> DEFINE y == [request[r] EXCEPT !.at = "sent", !.token = store]
<1>1. request[r] \in RequestState /\ store \in Pair \cup {NoPair}
  BY DEF IInv, RefreshTypeOK
<1>2. y \in RequestState /\ y.at = "sent" /\ y.retry = request[r].retry
  BY <1>1, SentState
<1>3. request' = [request EXCEPT ![r] = y]
  BY <1>1 DEF Send, IInv, RefreshTypeOK
<1>4. request[r].retry
  BY DEF Send, IInv, Fresh
<1> HIDE DEF y
<1>5. failures' \in 0 .. MaxFailures /\ failures' >= failures
  BY DEF Send, IInv, RefreshTypeOK
<1> QED  BY <1>2, <1>3, <1>4, <1>5, RequestChanges DEF Send

(* A request that ends, but not for want of an answer of the server. *)
LEMMA EndKeeps ==
    ASSUME IInv, NEW r \in Request, NEW how \in {"served", "signed out", "lost"}, End(r, how),
           request[r].at = "sent", failures' \in 0 .. MaxFailures, failures' >= failures,
           UNCHANGED <<session, refreshing, flights, clock, crossed>>
    PROVE  IInv'
<1>1. After(how) \in RequestState /\ After(how).at = how
  BY AfterState DEF Ended
<1>2. request' = [request EXCEPT ![r] = After(how)]
  BY DEF End
<1> QED  BY <1>1, <1>2, RequestChanges

LEMMA ServeKeeps ==
    ASSUME IInv, NEW r \in Request, Serve(r)
    PROVE  IInv'
<1>1. failures' \in 0 .. MaxFailures /\ failures' >= failures
  BY DEF Serve, IInv, RefreshTypeOK
<1> QED  BY <1>1, EndKeeps DEF Serve

LEMMA LoseKeeps ==
    ASSUME IInv, NEW r \in Request, Lose(r)
    PROVE  IInv'
<1>1. failures' \in 0 .. MaxFailures /\ failures' >= failures
  BY Basics DEF Lose, IInv, RefreshTypeOK
<1> QED  BY <1>1, EndKeeps DEF Lose

(* Who starts a refresh is the only one to have one under way. *)
LEMMA JoinKeeps ==
    ASSUME IInv, NEW r \in Request, Join(r), request[r].at = "sent", store # NoPair,
           UNCHANGED <<session, clock, failures, crossed>>
    PROVE  IInv'
<1> DEFINE by == IF refreshing = NoOne THEN r ELSE refreshing
           y  == [request[r] EXCEPT !.at = "waiting", !.on = by]
           f  == [by |-> r, pair |-> store]
<1>1. by \in Request /\ request[r] \in RequestState /\ store \in Pair
  BY DEF IInv, RefreshTypeOK
<1>2. y \in RequestState /\ y.at = "waiting"
  BY <1>1, WaitingState
<1>3. /\ refreshing' = by /\ flights' = IF by = r THEN flights \cup {f} ELSE flights
      /\ request' = [request EXCEPT ![r] = y]
  BY <1>1 DEF Join, IInv, RefreshTypeOK
<1>4. by = r => flights = {}
  <2>1. refreshing # r
    BY Basics DEF IInv, Alone
  <2>2. refreshing = NoOne => flights = {}
    BY Basics DEF IInv, Alone, RefreshTypeOK
  <2> QED  BY <2>1, <2>2
<1>5. f \in [by : Request, pair : Pair] /\ f.by = r /\ f.pair = store
  BY <1>1
<1>6. by # r => by = refreshing /\ refreshing # NoOne
  OBVIOUS
<1> HIDE DEF y, f, by
<1>7. /\ request' \in [Request -> RequestState] /\ request'[r] = y
      /\ \A q \in Request : q # r => request'[q] = request[q]
  BY <1>2, <1>3 DEF IInv, RefreshTypeOK
<1>8. RefreshTypeOK'
  BY <1>1, <1>3, <1>5, <1>7 DEF IInv, RefreshTypeOK, session, clock
<1>9. Alone'
  <2>1. CASE by = r
    BY <1>2, <1>3, <1>4, <1>5, <1>7, <2>1 DEF Alone
  <2>2. CASE by # r
    BY <1>1, <1>3, <1>6, <1>7, <2>2 DEF Alone, IInv
  <2> QED  BY <2>1, <2>2
<1>10. Own'
  BY <1>3, <1>5 DEF IInv, Own, session
<1>11. Valid'
  BY <1>2, <1>7 DEF IInv, Valid, clock
<1>12. LiveSessionServes'
  BY <1>2, <1>7 DEF IInv, LiveSessionServes, clock
<1>13. Fresh'
  BY <1>2, <1>7 DEF IInv, Fresh
<1> QED  BY <1>8, <1>9, <1>10, <1>11, <1>12, <1>13 DEF IInv

LEMMA RejectKeeps ==
    ASSUME IInv, NEW r \in Request, Reject(r)
    PROVE  IInv'
<1>1. request[r].at = "sent" /\ UNCHANGED <<session, clock, failures, crossed>>
  BY DEF Reject
<1>2. request[r].retry
  <2> SUFFICES ASSUME ~request[r].retry  PROVE FALSE
    OBVIOUS
  <2>1. request[r].token.number <= expired
    BY DEF Reject
  <2>2. request[r].token.number > expired
    BY <1>1 DEF IInv, Valid
  <2>3. request[r].token.number \in Int /\ expired \in Int
    BY TokenNumber DEF IInv
  <2> QED  BY <2>1, <2>2, <2>3
<1>3. CASE store # NoPair /\ Join(r)
  BY <1>1, <1>3, JoinKeeps
<1>4. CASE End(r, "signed out") /\ UNCHANGED <<refreshing, flights>>
  <2>1. failures' \in 0 .. MaxFailures /\ failures' >= failures
    BY <1>1 DEF IInv, RefreshTypeOK
  <2> QED  BY <1>1, <1>4, <2>1, EndKeeps
<1> QED  BY <1>2, <1>3, <1>4 DEF Reject

-----------------------------------------------------------------------------
(* Steps of the session and of time, which change no request. *)
LEMMA RequestsStay ==
    ASSUME IInv, RefreshTypeOK', Own', UNCHANGED <<request, refreshing, flights, over, failures>>,
           expired' = expired
    PROVE  IInv'
<1>1. Alone' /\ Fresh'
  BY DEF IInv, Alone, Fresh
<1>2. Valid' /\ LiveSessionServes'
  BY DEF IInv, Valid, LiveSessionServes
<1> QED  BY <1>1, <1>2 DEF IInv

LEMMA EnterKeeps ==
    ASSUME IInv, Enter
    PROVE  IInv'
<1>1. RefreshTypeOK' /\ Own'
  BY DEF Enter, IInv, RefreshTypeOK, Own, clock
<1> QED  BY <1>1, RequestsStay DEF Enter, clock

LEMMA LoginKeeps ==
    ASSUME IInv, NEW u \in User, Login(u)
    PROVE  IInv'
<1>1. NextNumber \in 1 .. MaxPairs /\ issued <= NextNumber
  BY Numbers DEF IInv
<1>2. [user |-> u, number |-> NextNumber] \in Pair
  BY <1>1 DEF Pair
<1>3. RefreshTypeOK'
  <2>1. over' \in 0 .. expired' /\ expired' \in 0 .. issued' /\ issued' \in 0 .. MaxPairs
    BY <1>1, Basics DEF Login, IInv, RefreshTypeOK
  <2> QED  BY <1>2, <2>1 DEF Login, IInv, RefreshTypeOK
<1>4. Own'
  BY DEF Login, IInv, Own
<1> QED  BY <1>3, <1>4, RequestsStay DEF Login

LEMMA LogoutKeeps ==
    ASSUME IInv, Logout
    PROVE  IInv'
<1>1. RefreshTypeOK' /\ Own'
  BY DEF Logout, IInv, RefreshTypeOK, Own, clock
<1> QED  BY <1>1, RequestsStay DEF Logout, clock

LEMMA ExpireAccessKeeps ==
    ASSUME IInv, ExpireAccess
    PROVE  IInv'
<1>1. RefreshTypeOK'
  BY Basics DEF ExpireAccess, IInv, RefreshTypeOK, session
<1>2. Own' /\ Alone' /\ Fresh' /\ LiveSessionServes'
  BY DEF ExpireAccess, IInv, Own, Alone, Fresh, LiveSessionServes, session
<1>3. Valid'
  <2>1. expired' = expired + 1 /\ expired' < MaxPairs /\ request' = request
    BY DEF ExpireAccess
  <2>2. ASSUME NEW r \in Request, request[r].at = "sent", ~request[r].retry
        PROVE  request[r].token.number > expired + 1
    <3>1. request[r].token.number > expired /\ request[r].token.number # expired + 1
      BY <2>2 DEF ExpireAccess, IInv, Valid
    <3> QED  BY <3>1, TokenNumber DEF IInv
  <2> QED  BY <2>1, <2>2 DEF Valid
<1> QED  BY <1>1, <1>2, <1>3 DEF IInv

LEMMA ExpireRefreshKeeps ==
    ASSUME IInv, ExpireRefresh
    PROVE  IInv'
<1>1. RefreshTypeOK' /\ over' > 0
  BY DEF ExpireRefresh, IInv, RefreshTypeOK, session
<1>2. Own' /\ Alone' /\ Fresh' /\ Valid'
  BY DEF ExpireRefresh, IInv, Own, Alone, Fresh, Valid, session
<1>3. LiveSessionServes'
  BY <1>1 DEF ExpireRefresh, IInv, LiveSessionServes
<1> QED  BY <1>1, <1>2, <1>3 DEF IInv

-----------------------------------------------------------------------------
(* The answers to a refresh. *)
LEMMA RefreshedKeeps ==
    ASSUME IInv, NEW f \in flights, Refreshed(f)
    PROVE  IInv'
<1> DEFINE p == [user |-> f.pair.user, number |-> NextNumber]
           y == [at |-> "sent", token |-> p, retry |-> FALSE, on |-> NoOne]
<1>1. f \in [by : Request, pair : Pair]
  BY DEF IInv, RefreshTypeOK
<1>2. NextNumber \in 1 .. MaxPairs /\ NextNumber > expired /\ issued <= NextNumber
  BY Numbers DEF IInv
<1>3. p \in Pair /\ p.number = NextNumber /\ p.user = f.pair.user
  BY <1>1, <1>2 DEF Pair
<1>4. y \in RequestState /\ y.at = "sent" /\ ~y.retry /\ y.token = p
  BY <1>3, ResentState
<1>5. /\ request' = [r \in Request |-> IF Waits(r, f) THEN y ELSE request[r]]
      /\ store' = p /\ issued' = NextNumber
  BY DEF Refreshed, Resend
<1>6. flights' = {}
  BY DEF Refreshed, IInv, Alone
<1> HIDE DEF p, y
<1>7. \A r \in Request : request'[r] = y \/ request'[r] = request[r]
  BY <1>5
<1>8. RefreshTypeOK'
  <2>1. request' \in [Request -> RequestState]
    BY <1>4, <1>5 DEF IInv, RefreshTypeOK
  <2>2. over' \in 0 .. expired' /\ expired' \in 0 .. issued' /\ issued' \in 0 .. MaxPairs
    BY <1>2, <1>5, Basics DEF Refreshed, IInv, RefreshTypeOK
  <2> QED  BY <1>3, <1>5, <1>6, <2>1, <2>2 DEF Refreshed, IInv, RefreshTypeOK
<1>9. Alone'
  BY <1>6 DEF Refreshed, Alone
<1>10. Own'
  BY <1>3, <1>5, <1>6 DEF Refreshed, IInv, Own
<1>11. Valid'
  <2>1. expired' = expired
    BY DEF Refreshed
  <2> QED  BY <1>2, <1>3, <1>4, <1>7, <2>1 DEF IInv, Valid
<1>12. Fresh'
  BY <1>4, <1>7 DEF IInv, Fresh
<1>13. LiveSessionServes'
  BY <1>4, <1>7 DEF Refreshed, IInv, LiveSessionServes
<1> QED  BY <1>8, <1>9, <1>10, <1>11, <1>12, <1>13 DEF IInv

LEMMA RefreshFailsKeeps ==
    ASSUME IInv, NEW f \in flights, RefreshFails(f)
    PROVE  IInv'
<1>1. f \in [by : Request, pair : Pair] /\ f.pair.number >= 1
  BY Basics DEF IInv, RefreshTypeOK
<1>2. After("dropped") \in RequestState /\ After("dropped").at = "dropped"
  BY AfterState DEF Ended
<1>3. After("signed out") \in RequestState /\ After("signed out").at = "signed out"
  BY AfterState DEF Ended
<1>4. \A r \in Request : \/ request'[r] = After("dropped")
                          \/ request'[r] = After("signed out")
                          \/ request'[r] = request[r]
  BY DEF RefreshFails, Failed
<1>5. request' \in [Request -> RequestState]
  BY <1>2, <1>3 DEF RefreshFails, Failed, IInv, RefreshTypeOK
<1>6. flights' = {}
  BY DEF RefreshFails, Failed, IInv, Alone
<1>7. failures' \in 0 .. MaxFailures /\ (over > 0 \/ failures' > 0) /\ failures' >= failures
  BY <1>1, Basics DEF RefreshFails, IInv, RefreshTypeOK
<1>8. RefreshTypeOK'
  BY <1>5, <1>6, <1>7 DEF RefreshFails, IInv, RefreshTypeOK, clock
<1>9. Alone'
  BY <1>6 DEF RefreshFails, Alone
<1>10. Own'
  BY <1>6 DEF RefreshFails, Own
<1>11. Valid'
  <2>1. expired' = expired
    BY DEF RefreshFails, clock
  <2> QED  BY <1>2, <1>3, <1>4, <2>1 DEF IInv, Valid
<1>12. Fresh'
  BY <1>2, <1>3, <1>4 DEF IInv, Fresh
<1>13. LiveSessionServes'
  <2>1. over' = over
    BY DEF RefreshFails, clock
  <2> QED  BY <1>2, <1>3, <1>4, <1>7, <2>1 DEF IInv, LiveSessionServes
<1> QED  BY <1>8, <1>9, <1>10, <1>11, <1>12, <1>13 DEF IInv

-----------------------------------------------------------------------------
LEMMA StutterKeeps ==
    ASSUME IInv, UNCHANGED refreshVars
    PROVE  IInv'
<1>1. RefreshTypeOK'
  BY DEF IInv, RefreshTypeOK, refreshVars, session, clock
<1>2. Alone' /\ Own'
  BY DEF IInv, Alone, Own, refreshVars, session, clock
<1>3. Valid' /\ Fresh' /\ LiveSessionServes'
  BY DEF IInv, Valid, Fresh, LiveSessionServes, refreshVars, session, clock
<1> QED  BY <1>1, <1>2, <1>3 DEF IInv

LEMMA NextKeeps ==
    ASSUME IInv, RefreshNext
    PROVE  IInv'
<1>1. CASE Enter \/ Logout \/ \E u \in User : Login(u)
  BY <1>1, EnterKeeps, LogoutKeeps, LoginKeeps
<1>2. CASE ExpireAccess \/ ExpireRefresh
  BY <1>2, ExpireAccessKeeps, ExpireRefreshKeeps
<1>3. CASE \E r \in Request : Send(r) \/ Answer(r) \/ Lose(r)
  BY <1>3, SendKeeps, ServeKeeps, RejectKeeps, LoseKeeps DEF Answer
<1>4. CASE \E f \in flights : Land(f)
  BY <1>4, RefreshedKeeps, RefreshFailsKeeps DEF Land
<1> QED  BY <1>1, <1>2, <1>3, <1>4 DEF RefreshNext

LEMMA InitHolds == RefreshInit => IInv
<1> SUFFICES ASSUME RefreshInit  PROVE IInv
  OBVIOUS
<1>1. Idle \in RequestState /\ Idle.at = "idle" /\ Idle.retry
  BY DEF Idle, RequestState
<1>2. \A r \in Request : request[r] = Idle
  BY DEF RefreshInit
<1>3. RefreshTypeOK
  <2>1. request \in [Request -> RequestState]
    BY <1>1 DEF RefreshInit
  <2>2. over \in 0 .. expired /\ expired \in 0 .. issued /\ issued \in 0 .. MaxPairs
        /\ failures \in 0 .. MaxFailures
    BY Basics DEF RefreshInit
  <2> QED  BY <2>1, <2>2 DEF RefreshInit, RefreshTypeOK
<1>4. Alone /\ Own
  BY DEF RefreshInit, Alone, Own
<1>5. Valid /\ Fresh /\ LiveSessionServes
  BY <1>1, <1>2, Basics DEF RefreshInit, Valid, Fresh, LiveSessionServes
<1> QED  BY <1>3, <1>4, <1>5 DEF IInv

(* Everything the safety of the session rests on holds in every state. *)
THEOREM Invariant == RefreshSpec => []IInv
<1>1. IInv /\ [RefreshNext]_refreshVars => IInv'
  BY NextKeeps, StutterKeeps
<1> QED  BY <1>1, InitHolds, PTL DEF RefreshSpec

(* The values the store, the requests and the clocks take. *)
THEOREM TypeCorrect == RefreshSpec => []RefreshTypeOK
<1>1. IInv => RefreshTypeOK
  BY DEF IInv
<1> QED  BY <1>1, Invariant, PTL

(* http.ts, 82: there is never a second refresh beside one under way. *)
THEOREM RefreshIsShared == RefreshSpec => []OneRefresh
<1>1. IInv => OneRefresh
  <2> SUFFICES ASSUME IInv  PROVE OneRefresh
    OBVIOUS
  <2>1. CASE flights = {}
    BY <2>1, FS_EmptySet DEF OneRefresh
  <2>2. CASE flights # {}
    <3>1. PICK f \in flights : TRUE
      BY <2>2
    <3>2. flights = {f}
      BY DEF IInv, Alone
    <3>3. Cardinality({f}) = 1
      BY FS_Singleton
    <3> QED  BY <3>2, <3>3 DEF OneRefresh
  <2> QED  BY <2>1, <2>2
<1> QED  BY <1>1, Invariant, PTL

(* The stored tokens are those of the user the page names, as long as no
   logout has crossed a refresh.                                           *)
THEOREM TokensAreTheUsers == RefreshSpec => []SessionIsOwn
<1>1. IInv => SessionIsOwn
  BY DEF IInv, Own, SessionIsOwn
<1> QED  BY <1>1, Invariant, PTL

(* The retry is not refused, and the page is reloaded only for an expired
   refresh token or a lost call.                                           *)
THEOREM LiveSessionsServe == RefreshSpec => []LiveSessionServes
<1>1. IInv => LiveSessionServes
  BY DEF IInv
<1> QED  BY <1>1, Invariant, PTL
=============================================================================
