---------------------------- MODULE BrowserSession ----------------------------
(* The session of the web client: tokens and user in each tab's store and in   *)
(* the localStorage the tabs share, the axios client that renews an expired    *)
(* access token once for all the requests that met it, the sign-in page, and   *)
(* the restoration of the session at every page load.  Every link of the       *)
(* client loads a page anew, so the state of a tab lives for one page.         *)
(* A pair is an access token and a refresh token issued together.              *)
EXTENDS Naturals, Sequences

CONSTANTS
  Tabs, Users,
  PageRequests,  \* what a page asks of protected endpoints
  MaxPairs,      \* bound on the token pairs the backend issues
  None

VARIABLES
  owner,       \* owner[n]: the user the n-th pair was issued to
  live,        \* pairs whose access token has not expired
  storage,     \* localStorage: samadhanx_tokens, samadhanx_user
  store,       \* store[t]: tokens and user in the memory of tab t
  page,        \* page[t]: what tab t shows
  leaving,     \* leaving[t]: the page tab t is about to load, or None
  refreshing,  \* refreshing[t]: isRefreshing of the client in tab t
  signing,     \* signing[t]: the pair a sign-in in tab t received, or 0
  req          \* req[t][r]: a request, its token, and what became of it

vars == <<owner, live, storage, store, page, leaving, refreshing,
          signing, req>>
backend == <<owner, live>>

(* restoreSession and the sign-in page ask for /auth/me.                       *)
Me == "me"
SignInMe == "signin"
Requests == PageRequests \cup {Me, SignInMe}

ASSUME SessionAssumption ==
  /\ None \notin Users \cup {"app", "login"} /\ MaxPairs \in Nat
  /\ Me \notin PageRequests /\ SignInMe \notin PageRequests

Pairs == 1 .. Len(owner)
Owner(n) == IF n = 0 THEN None ELSE owner[n]

Idle == [state |-> "idle", pair |-> 0, by |-> None, retry |-> FALSE]
Pending(t, r) == req[t][r].state \in {"sent", "queued", "renewing"}

Anonymous == [pair |-> 0, user |-> None]

Init ==
  /\ owner = <<>> /\ live = {}
  /\ storage = Anonymous
  /\ store = [t \in Tabs |-> Anonymous]
  /\ page = [t \in Tabs |-> "app"]
  /\ leaving = [t \in Tabs |-> None]
  /\ refreshing = [t \in Tabs |-> FALSE]
  /\ signing = [t \in Tabs |-> 0]
  /\ req = [t \in Tabs |-> [r \in Requests |-> Idle]]
-------------------------------------------------------------------------------
\* Mutant of Attached: the token is read from localStorage.
Attached_Storage(t) == storage.pair

(* The request interceptor: every request carries the token in the store.      *)
Attached(t) == store[t].pair

Sent(t, by) == [Idle EXCEPT !.state = "sent", !.pair = Attached(t), !.by = by]

Issue(t, r) ==
  /\ r \in PageRequests /\ page[t] = "app" /\ req[t][r] = Idle
  /\ req' = [req EXCEPT ![t][r] = Sent(t, Owner(store[t].pair))]
  /\ UNCHANGED <<backend, storage, store, page, leaving, refreshing, signing>>

(* authStore.logout.                                                           *)
ClearSession(t) ==
  /\ storage' = Anonymous
  /\ store' = [store EXCEPT ![t] = Anonymous]

(* The caller of the requests rs sees them rejected: restoreSession clears the *)
(* session, the sign-in page shows the error and keeps the store.              *)
Rejected(t, rs) ==
  [r \in Requests |->
     IF r \in rs THEN Idle ELSE req[t][r]]

AfterSignIn(t, rs) == IF SignInMe \in rs THEN [signing EXCEPT ![t] = 0] ELSE signing

Reject(t, r) ==
  /\ req' = [req EXCEPT ![t] = Rejected(t, {r})]
  /\ signing' = AfterSignIn(t, {r})
  /\ IF r = Me THEN ClearSession(t) ELSE UNCHANGED <<storage, store>>

(* authStore.setUser, at the end of restoreSession.                            *)
SetUser(t, u) ==
  /\ storage' = [storage EXCEPT !.user = u]
  /\ store' = [store EXCEPT ![t].user = u]

(* authStore.setAuth with the profile the sign-in page read.                   *)
SetAuth(t, u, n) ==
  /\ storage' = [pair |-> n, user |-> u]
  /\ store' = [store EXCEPT ![t] = [pair |-> n, user |-> u]]

Succeed(t, r) ==
  LET as == Owner(req[t][r].pair) IN
  /\ req[t][r].state = "sent" /\ req[t][r].pair \in live
  /\ req' = [req EXCEPT ![t][r] = Idle]
  /\ \/ /\ r = Me
        /\ SetUser(t, as)
        /\ UNCHANGED <<signing, leaving>>
     \/ /\ r = SignInMe
        /\ SetAuth(t, as, signing[t])
        /\ signing' = [signing EXCEPT ![t] = 0]
        /\ leaving' = [leaving EXCEPT ![t] = "app"]
     \/ /\ r \in PageRequests
        /\ UNCHANGED <<storage, store, signing, leaving>>
  /\ UNCHANGED <<backend, page, refreshing>>

(* A timeout, a lost connection or an answer of the 5xx kind.                  *)
FailRequest(t, r) ==
  /\ req[t][r].state = "sent"
  /\ Reject(t, r)
  /\ UNCHANGED <<backend, page, leaving, refreshing>>
-------------------------------------------------------------------------------
(* The response interceptor on 401.                                            *)
Unauthorized(t, r) == req[t][r].state = "sent" /\ req[t][r].pair \notin live

RejectRetried(t, r) ==
  /\ Unauthorized(t, r) /\ req[t][r].retry
  /\ Reject(t, r)
  /\ UNCHANGED <<backend, page, leaving, refreshing>>

WaitForRefresh(t, r) ==
  /\ Unauthorized(t, r) /\ ~req[t][r].retry /\ refreshing[t]
  /\ req' = [req EXCEPT ![t][r].state = "queued"]
  /\ UNCHANGED <<backend, storage, store, page, leaving, refreshing, signing>>

(* isRefreshing is raised before the refresh token is looked at, and stays so. *)
NothingToRefresh(t, r) ==
  /\ Unauthorized(t, r) /\ ~req[t][r].retry /\ ~refreshing[t]
  /\ store[t].pair = 0
  /\ refreshing' = [refreshing EXCEPT ![t] = TRUE]
  /\ req' = [req EXCEPT ![t] = Rejected(t, {r})]
  /\ signing' = AfterSignIn(t, {r})
  /\ ClearSession(t)
  /\ UNCHANGED <<backend, page, leaving>>

\* Mutant of BeginRefresh: the refresh token is read from localStorage.
BeginRefresh_Storage(t, r) ==
  /\ Unauthorized(t, r) /\ ~req[t][r].retry /\ ~refreshing[t]
  /\ storage.pair # 0
  /\ refreshing' = [refreshing EXCEPT ![t] = TRUE]
  /\ req' = [req EXCEPT ![t][r].state = "renewing", ![t][r].retry = TRUE,
                        ![t][r].pair = storage.pair]
  /\ UNCHANGED <<backend, storage, store, page, leaving, signing>>

(* The pair whose refresh token is posted stays with the request.              *)
BeginRefresh(t, r) ==
  /\ Unauthorized(t, r) /\ ~req[t][r].retry /\ ~refreshing[t]
  /\ store[t].pair # 0
  /\ refreshing' = [refreshing EXCEPT ![t] = TRUE]
  /\ req' = [req EXCEPT ![t][r].state = "renewing", ![t][r].retry = TRUE,
                        ![t][r].pair = store[t].pair]
  /\ UNCHANGED <<backend, storage, store, page, leaving, signing>>

Waiting(t) == {r \in Requests : req[t][r].state = "queued"}

(* POST /auth/login and /auth/refresh.                                         *)
IssuePair(u) ==
  /\ Len(owner) < MaxPairs
  /\ owner' = Append(owner, u)
  /\ live' = live \cup {Len(owner) + 1}

Resent(t, rs, n) == [r \in Requests |->
  IF r \in rs THEN [req[t][r] EXCEPT !.state = "sent", !.pair = n] ELSE req[t][r]]

SetTokens(t, n) ==
  /\ storage' = [storage EXCEPT !.pair = n]
  /\ store' = [store EXCEPT ![t].pair = n]

\* Mutant of EndRefresh: the flag is not lowered (no "finally").
EndRefresh_FlagStays(t, r) ==
  LET n == Len(owner) + 1 IN
  /\ req[t][r].state = "renewing" /\ IssuePair(Owner(req[t][r].pair))
  /\ SetTokens(t, n)
  /\ req' = [req EXCEPT ![t] = Resent(t, Waiting(t) \cup {r}, n)]
  /\ UNCHANGED <<page, leaving, refreshing, signing>>

(* setTokens, processQueue, and every request that waited is sent again.       *)
EndRefresh(t, r) ==
  LET n == Len(owner) + 1 IN
  /\ req[t][r].state = "renewing" /\ IssuePair(Owner(req[t][r].pair))
  /\ SetTokens(t, n)
  /\ req' = [req EXCEPT ![t] = Resent(t, Waiting(t) \cup {r}, n)]
  /\ refreshing' = [refreshing EXCEPT ![t] = FALSE]
  /\ UNCHANGED <<page, leaving, signing>>

(* The token is too old, the account inactive, or no answer arrives.           *)
FailRefresh(t, r) ==
  LET All == Waiting(t) \cup {r} IN
  /\ req[t][r].state = "renewing"
  /\ req' = [req EXCEPT ![t] = Rejected(t, All)]
  /\ signing' = AfterSignIn(t, All)
  /\ ClearSession(t)
  /\ leaving' = IF page[t] = "login" THEN leaving
                ELSE [leaving EXCEPT ![t] = "login"]
  /\ refreshing' = [refreshing EXCEPT ![t] = FALSE]
  /\ UNCHANGED <<backend, page>>
-------------------------------------------------------------------------------
(* The sign-in page.  The /auth/me it asks for names the new token, which the  *)
(* request interceptor replaces by the one in the store, if there is one.      *)
SubmitLogin(t, u) ==
  LET n == Len(owner) + 1 IN
  /\ page[t] = "login" /\ leaving[t] = None /\ signing[t] = 0
  /\ IssuePair(u)
  /\ signing' = [signing EXCEPT ![t] = n]
  /\ req' = [req EXCEPT ![t][SignInMe] =
       [Sent(t, u) EXCEPT !.pair = IF @ # 0 THEN @ ELSE n]]
  /\ UNCHANGED <<storage, store, page, leaving, refreshing>>

(* The sign-out button of the navigation bars.                                 *)
Logout(t) ==
  /\ page[t] = "app" /\ store[t].pair # 0 /\ store[t].user # None
  /\ ClearSession(t)
  /\ leaving' = [leaving EXCEPT ![t] = "login"]
  /\ UNCHANGED <<backend, page, refreshing, signing, req>>

(* getStoredAuth: both keys or nothing.                                        *)
StoredAuth == IF storage.pair # 0 /\ storage.user # None THEN storage ELSE Anonymous

Fresh(t, p, me) ==
  /\ page' = [page EXCEPT ![t] = p]
  /\ leaving' = [leaving EXCEPT ![t] = None]
  /\ store' = [store EXCEPT ![t] = StoredAuth]
  /\ refreshing' = [refreshing EXCEPT ![t] = FALSE]
  /\ signing' = [signing EXCEPT ![t] = 0]
  /\ req' = [req EXCEPT ![t] = [r \in Requests |-> IF r = Me THEN me ELSE Idle]]
  /\ UNCHANGED <<backend, storage>>

\* Mutant of Load: what is stored is believed.
Load_NotRestored(t, p) == Fresh(t, p, Idle)

(* A page load, with the restoreSession that App starts.                       *)
Load(t, p) ==
  Fresh(t, p, IF StoredAuth.pair = 0 THEN Idle
              ELSE [Idle EXCEPT !.state = "sent", !.pair = StoredAuth.pair,
                                !.by = Owner(StoredAuth.pair)])

(* A link or the reload button; and the end of what a handler began.           *)
Follow(t, p) == leaving[t] = None /\ Load(t, p)
Leave(t) == leaving[t] # None /\ Load(t, leaving[t])

Expire(n) ==
  /\ n \in live
  /\ live' = live \ {n}
  /\ UNCHANGED <<owner, storage, store, page, leaving, refreshing,
                 signing, req>>
-------------------------------------------------------------------------------
Answer(t, r) == Succeed(t, r) \/ FailRequest(t, r)

Intercept(t, r) ==
  \/ RejectRetried(t, r) \/ WaitForRefresh(t, r)
  \/ NothingToRefresh(t, r) \/ BeginRefresh(t, r)

Refreshed(t, r) == EndRefresh(t, r) \/ FailRefresh(t, r)

Next ==
  \/ \E t \in Tabs :
       \/ \E r \in Requests :
            Issue(t, r) \/ Answer(t, r) \/ Intercept(t, r) \/ Refreshed(t, r)
       \/ \E u \in Users : SubmitLogin(t, u)
       \/ \E p \in {"app", "login"} : Follow(t, p)
       \/ Logout(t) \/ Leave(t)
  \/ \E n \in live : Expire(n)

(* Requests are answered or time out (15 s), refreshes settle, and a page that *)
(* is being left is left.  Users do as they please.                            *)
Fairness == \A t \in Tabs :
  /\ \A r \in Requests : WF_vars(Answer(t, r) \/ Intercept(t, r) \/ Refreshed(t, r))
  /\ WF_vars(Leave(t))

Spec == Init /\ [][Next]_vars /\ Fairness
-------------------------------------------------------------------------------
Auth == [pair : 0 .. MaxPairs, user : Users \cup {None}]
Request ==
  [state : {"idle", "sent", "queued", "renewing"},
   pair : 0 .. MaxPairs, by : Users \cup {None}, retry : BOOLEAN]

(* Pairs in stores, storage and requests are pairs the backend has issued.     *)
TypeOK ==
  /\ owner \in Seq(Users) /\ Len(owner) <= MaxPairs
  /\ live \subseteq Pairs
  /\ storage \in Auth /\ storage.pair <= Len(owner)
  /\ store \in [Tabs -> Auth] /\ \A t \in Tabs : store[t].pair <= Len(owner)
  /\ page \in [Tabs -> {"app", "login"}]
  /\ leaving \in [Tabs -> {"app", "login", None}]
  /\ refreshing \in [Tabs -> BOOLEAN]
  /\ signing \in [Tabs -> 0 .. Len(owner)]
  /\ req \in [Tabs -> [Requests -> Request]]
  /\ \A t \in Tabs, r \in Requests : req[t][r].pair <= Len(owner)

(* A page's requests are answered for the account whose token they left with,  *)
(* however often the token is renewed on the way, and although other tabs may  *)
(* have signed in as somebody else: the interceptors read the tab's own store. *)
OwnAnswers == \A t \in Tabs, r \in PageRequests :
  req[t][r].state = "sent" /\ req[t][r].by # None
  => Owner(req[t][r].pair) = req[t][r].by

(* Requests wait only behind a refresh, and a tab has one refresh at a time    *)
(* (isRefreshing and failedQueue of api/client.ts).                            *)
OneRefresh == \A t \in Tabs :
  /\ \A r, q \in Requests :
       req[t][r].state = "renewing" /\ req[t][q].state = "renewing" => r = q
  /\ \A r \in Requests :
       req[t][r].state \in {"queued", "renewing"} => refreshing[t]

(* Tabs overwrite each other's localStorage, token by token; still, a page     *)
(* whose session restoration has ended shows the user its token belongs to.    *)
RightUserShown == \A t \in Tabs :
  /\ leaving[t] = None /\ ~Pending(t, Me)
  /\ store[t].pair # 0 /\ store[t].user # None
  => store[t].user = Owner(store[t].pair)

(* Nobody waits for nobody: behind a raised isRefreshing there is a refresh    *)
(* under way, or the page is being left, or the tab has no session.  (Without  *)
(* a refresh token the first 401 leaves isRefreshing raised and every later    *)
(* 401 of that page waits for ever.)                                           *)
SomebodyRefreshes == \A t \in Tabs :
  refreshing[t] /\ store[t].pair # 0 /\ leaving[t] = None
  => \E r \in Requests : req[t][r].state = "renewing"

(* A 401 is answered by one renewal, and all that wait for it are served.      *)
RenewalsServe == OneRefresh /\ SomebodyRefreshes

(* Seen through the accounts, tabs and localStorage behave as TabAccounts says.*)
Renewal(t) ==
  LET R == {r \in Requests : req[t][r].state = "renewing"} IN
  IF R = {} THEN None ELSE Owner(req[t][CHOOSE r \in R : TRUE].pair)

Accounts == INSTANCE TabAccounts WITH
  who <- [t \in Tabs |-> Owner(store[t].pair)],
  renewing <- [t \in Tabs |-> Renewal(t)],
  jar <- Owner(storage.pair)

ImplementsAccounts == Accounts!Spec
===============================================================================
