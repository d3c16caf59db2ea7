------------------------ MODULE BrowserSession_proofs ------------------------
(* The session of the web client for any number of tabs, users, requests and  *)
(* token pairs: it implements TabAccounts, a tab has one refresh at a time,   *)
(* a page's requests are answered for the account they were sent for, and a   *)
(* page shows the user its token belongs to.                                  *)
EXTENDS BrowserSession, TLAPS

Issued == 0 .. Len(owner)
Person == Users \cup {None}
Stages == {"idle", "sent", "queued", "renewing"}
Auths(ns) == [pair : ns, user : Person]
Asks(ns) ==
  {a \in [state : Stages, pair : ns, by : Person, retry : BOOLEAN] :
     a.state = "renewing" => a.pair # 0}

(* TypeOK with the bound of the pairs put into the types.                     *)
BackendTypes == owner \in Seq(Users) /\ Len(owner) <= MaxPairs /\ live \subseteq 1 .. Len(owner)
StoreTypes == storage \in Auths(Issued) /\ store \in [Tabs -> Auths(Issued)]
PageTypes ==
  /\ page \in [Tabs -> {"app", "login"}]
  /\ leaving \in [Tabs -> {"app", "login", None}]
  /\ refreshing \in [Tabs -> BOOLEAN]
  /\ signing \in [Tabs -> Issued]
RequestTypes == req \in [Tabs -> [Requests -> Asks(Issued)]]

Types == BackendTypes /\ StoreTypes /\ PageTypes /\ RequestTypes

(* A tab has one refresh at a time, and whoever waits waits behind it.        *)
Refreshes(t) ==
  /\ \A r, q \in Requests :
       req[t][r].state = "renewing" /\ req[t][q].state = "renewing" => r = q
  /\ \A r \in Requests : req[t][r].state \in {"queued", "renewing"} => refreshing[t]

(* Only a sign-in page signs in, with the pair it received, and it has sent   *)
(* none of the requests of other pages.                                       *)
SignIns(t) ==
  /\ req[t][SignInMe] # Idle => page[t] = "login" /\ signing[t] # 0
  /\ page[t] = "login" => \A r \in PageRequests : req[t][r] = Idle

(* Whatever a page but the sign-in page holds and sends is one account's.     *)
OneAccount(t) ==
  /\ \A r \in Requests : req[t][r].by # None => req[t][r].pair # 0
  /\ page[t] = "app" =>
       \E u \in Person :
         /\ Owner(store[t].pair) \in {u, None}
         /\ \A r \in Requests : req[t][r].by \in {u, None} /\ Owner(req[t][r].pair) \in {u, None}

Apart == \A t \in Tabs : Refreshes(t) /\ SignIns(t) /\ OneAccount(t)
-------------------------------------------------------------------------------
Failed(t, r) == FailRequest(t, r) \/ RejectRetried(t, r)

AskStep(t, r) ==
  \/ Issue(t, r) \/ Succeed(t, r) \/ Failed(t, r) \/ WaitForRefresh(t, r)
  \/ NothingToRefresh(t, r) \/ BeginRefresh(t, r) \/ EndRefresh(t, r) \/ FailRefresh(t, r)

TabStep(t) ==
  \/ \E r \in Requests : AskStep(t, r)
  \/ \E u \in Users : SubmitLogin(t, u)
  \/ \E p \in {"app", "login"} : Load(t, p)
  \/ Logout(t)

LEMMA Steps ==
  ASSUME Types, [Next]_vars
  PROVE  (\E t \in Tabs : TabStep(t)) \/ (\E n \in live : Expire(n)) \/ UNCHANGED vars
<1>1. ASSUME NEW t \in Tabs, Leave(t)
      PROVE  \E p \in {"app", "login"} : Load(t, p)
  BY <1>1 DEF Leave, Types, PageTypes
<1>2. ASSUME NEW t \in Tabs, NEW r \in Requests,
             Issue(t, r) \/ Answer(t, r) \/ Intercept(t, r) \/ Refreshed(t, r)
      PROVE  AskStep(t, r)
  BY <1>2 DEF Answer, Intercept, Refreshed, AskStep, Failed
<1> QED BY <1>1, <1>2 DEF Next, TabStep, Follow

(* Whose a pair is never changes, and none but an issued pair is anybody's.   *)
LEMMA OwnerType ==
  ASSUME Types, NEW n \in Issued
  PROVE  Owner(n) \in Person /\ (n = 0 <=> Owner(n) = None)
BY SessionAssumption DEF Types, BackendTypes, Issued, Owner, Person

LEMMA Grown ==
  ASSUME Types, NEW u \in Users, IssuePair(u)
  PROVE  /\ Len(owner') = Len(owner) + 1
         /\ owner' \in Seq(Users) /\ Len(owner') <= MaxPairs
         /\ \A n \in Nat : n = Len(owner) + 1 => Owner(n)' = u
         /\ \A n \in Issued : Owner(n)' = Owner(n)
         /\ live' \subseteq 1 .. Len(owner')
<1>1. owner' = Append(owner, u) /\ owner \in Seq(Users)
  BY DEF IssuePair, Types, BackendTypes
<1>2. Len(owner') = Len(owner) + 1 /\ owner' \in Seq(Users) /\ Len(owner) \in Nat
  BY <1>1
<1>3. Len(owner') <= MaxPairs /\ live' \subseteq 1 .. Len(owner')
  <2>1. Len(owner) < MaxPairs /\ live' = live \cup {Len(owner) + 1}
           /\ live \subseteq 1 .. Len(owner)
    BY DEF IssuePair, Types, BackendTypes
  <2>2. Len(owner') <= MaxPairs
    BY <1>2, <2>1, SessionAssumption
  <2>3. ASSUME NEW n \in live' PROVE n \in 1 .. (Len(owner) + 1)
    <3>1. n \in live \/ n = Len(owner) + 1
      BY <2>1
    <3>2. n \in live => n \in 1 .. Len(owner)
      BY <2>1
    <3> QED BY <1>2, <3>1, <3>2
  <2> QED BY <1>2, <2>2, <2>3
<1>4. owner'[Len(owner) + 1] = u /\ \A n \in 1 .. Len(owner) : owner'[n] = owner[n]
  BY <1>1
<1> QED BY <1>2, <1>3, <1>4 DEF Owner, Issued

LEMMA Backend ==
  ASSUME Types, [Next]_vars
  PROVE  /\ BackendTypes'
         /\ Issued \subseteq Issued'
         /\ \A n \in Issued : Owner(n)' = Owner(n)
<1>1. CASE UNCHANGED backend
  BY <1>1 DEF backend, Types, BackendTypes, Issued, Owner
<1>2. ASSUME NEW u \in Users, IssuePair(u)
      PROVE  BackendTypes' /\ Issued \subseteq Issued' /\ \A n \in Issued : Owner(n)' = Owner(n)
  BY <1>2, Grown DEF Types, BackendTypes, Issued
<1>3. ASSUME NEW t \in Tabs, NEW r \in Requests, AskStep(t, r)
      PROVE  UNCHANGED backend \/ \E u \in Users : IssuePair(u)
  <2>1. CASE EndRefresh(t, r)
    <3>1. req[t][r].state = "renewing" /\ req[t][r] \in Asks(Issued)
      BY <2>1 DEF EndRefresh, Types, RequestTypes
    <3>2. req[t][r].pair \in Issued /\ req[t][r].pair # 0
      BY <3>1 DEF Asks
    <3> QED BY <2>1, <3>2, OwnerType DEF EndRefresh, Person
  <2> QED
    BY <1>3, <2>1
    DEF AskStep, Issue, Succeed, Failed, FailRequest, RejectRetried, WaitForRefresh,
        NothingToRefresh, BeginRefresh, FailRefresh
<1>4. ASSUME NEW t \in Tabs, TabStep(t)
      PROVE  UNCHANGED backend \/ \E u \in Users : IssuePair(u)
  BY <1>3, <1>4 DEF TabStep, SubmitLogin, Load, Fresh, Logout
<1>5. ASSUME NEW n \in live, Expire(n)
      PROVE  BackendTypes' /\ Issued \subseteq Issued' /\ \A i \in Issued : Owner(i)' = Owner(i)
  BY <1>5 DEF Expire, Types, BackendTypes, Issued, Owner
<1> QED BY Steps, <1>1, <1>2, <1>4, <1>5 DEF vars, backend
-------------------------------------------------------------------------------
LEMMA StoreTypesNext == ASSUME Types, [Next]_vars PROVE StoreTypes'
<1> USE DEF Types
<1>1. Auths(Issued) \subseteq Auths(Issued)' /\ 0 \in Issued'
  BY Backend DEF Auths, BackendTypes, Issued
<1>2. Anonymous \in Auths(Issued)'
  BY <1>1 DEF Anonymous, Auths, Person
<1>3. CASE UNCHANGED <<store, storage>>
  BY <1>1, <1>3 DEF StoreTypes
<1>4. ASSUME NEW t \in Tabs, ClearSession(t) PROVE StoreTypes'
  BY <1>1, <1>2, <1>4 DEF ClearSession, StoreTypes
<1>5. ASSUME NEW t \in Tabs, NEW u \in Person, SetUser(t, u) PROVE StoreTypes'
  BY <1>1, <1>5 DEF SetUser, StoreTypes, Auths
<1>6. ASSUME NEW t \in Tabs, NEW n \in Issued', SetTokens(t, n) PROVE StoreTypes'
  <2>1. [storage EXCEPT !.pair = n] \in Auths(Issued)'
    BY <1>1 DEF StoreTypes, Auths
  <2>2. [store[t] EXCEPT !.pair = n] \in Auths(Issued)'
    BY <1>1 DEF StoreTypes, Auths
  <2>3. store' = [store EXCEPT ![t] = [store[t] EXCEPT !.pair = n]]
    BY <1>6 DEF SetTokens
  <2> QED BY <1>1, <1>6, <2>1, <2>2, <2>3 DEF SetTokens, StoreTypes
<1>7. ASSUME NEW t \in Tabs, NEW u \in Person, NEW n \in Issued', SetAuth(t, u, n)
      PROVE  StoreTypes'
  BY <1>1, <1>7 DEF SetAuth, StoreTypes, Auths
<1>8. ASSUME NEW t \in Tabs, NEW p, Load(t, p) PROVE StoreTypes'
  <2>1. StoredAuth \in Auths(Issued)'
    BY <1>1, <1>2 DEF StoredAuth, StoreTypes
  <2> QED BY <1>1, <1>8, <2>1 DEF Load, Fresh, StoreTypes
<1>9. ASSUME NEW t \in Tabs, NEW r \in Requests, AskStep(t, r) PROVE StoreTypes'
  <2>1. req[t][r].pair \in Issued /\ signing[t] \in Issued'
    BY Backend DEF RequestTypes, PageTypes, Asks
  <2>2. CASE Succeed(t, r)
    BY <1>3, <1>5, <1>7, <2>1, <2>2, OwnerType DEF Succeed
  <2>3. CASE EndRefresh(t, r)
    <3>1. Owner(req[t][r].pair) \in Users
      <4>1. req[t][r] \in Asks(Issued) /\ req[t][r].state = "renewing"
        BY <2>3 DEF EndRefresh, RequestTypes
      <4> QED BY <2>1, <4>1, OwnerType DEF Asks, Person
    <3>2. Len(owner) + 1 \in Issued'
      BY <2>3, <3>1, Grown DEF EndRefresh, Issued, BackendTypes
    <3> QED BY <1>6, <2>3, <3>2 DEF EndRefresh
  <2>4. CASE Failed(t, r) \/ NothingToRefresh(t, r) \/ FailRefresh(t, r)
    BY <1>3, <1>4, <2>4
    DEF Failed, FailRequest, RejectRetried, Reject, NothingToRefresh, FailRefresh
  <2>5. CASE Issue(t, r) \/ WaitForRefresh(t, r) \/ BeginRefresh(t, r)
    BY <1>3, <2>5 DEF Issue, WaitForRefresh, BeginRefresh
  <2> QED BY <1>9, <2>2, <2>3, <2>4, <2>5 DEF AskStep
<1>10. ASSUME NEW t \in Tabs, TabStep(t) PROVE StoreTypes'
  BY <1>3, <1>4, <1>8, <1>9, <1>10 DEF TabStep, SubmitLogin, Logout
<1>11. ASSUME NEW n \in live, Expire(n) PROVE StoreTypes'
  BY <1>3, <1>11 DEF Expire
<1> QED BY Steps, <1>3, <1>10, <1>11 DEF vars

LEMMA PageTypesNext == ASSUME Types, [Next]_vars PROVE PageTypes'
<1> USE DEF Types
<1>1. Issued \subseteq Issued' /\ 0 \in Issued'
  BY Backend DEF BackendTypes, Issued
<1>2. ASSUME NEW t \in Tabs, NEW r \in Requests, AskStep(t, r) PROVE PageTypes'
  <2>1. signing' \in {signing, [signing EXCEPT ![t] = 0]}
    BY <1>2
    DEF AskStep, Issue, Succeed, Failed, FailRequest, RejectRetried, Reject, AfterSignIn,
        WaitForRefresh, NothingToRefresh, BeginRefresh, EndRefresh, FailRefresh
  <2>2. signing' \in [Tabs -> Issued']
    BY <1>1, <2>1 DEF PageTypes
  <2>3. \E b \in BOOLEAN : refreshing' = [refreshing EXCEPT ![t] = b]
    <3>1. CASE Issue(t, r) \/ Succeed(t, r) \/ Failed(t, r) \/ WaitForRefresh(t, r)
      <4>1. refreshing' = refreshing
        BY <3>1 DEF Issue, Succeed, Failed, FailRequest, RejectRetried, Reject, WaitForRefresh
      <4>2. refreshing = [refreshing EXCEPT ![t] = refreshing[t]] /\ refreshing[t] \in BOOLEAN
        BY DEF PageTypes
      <4> QED BY <4>1, <4>2
    <3>2. CASE NothingToRefresh(t, r) \/ BeginRefresh(t, r)
      BY <3>2 DEF NothingToRefresh, BeginRefresh
    <3>3. CASE EndRefresh(t, r) \/ FailRefresh(t, r)
      BY <3>3 DEF EndRefresh, FailRefresh
    <3> QED BY <1>2, <3>1, <3>2, <3>3 DEF AskStep
  <2>4. page' = page /\ \/ leaving' = leaving
                        \/ \E p \in {"app", "login"} : leaving' = [leaving EXCEPT ![t] = p]
    BY <1>2
    DEF AskStep, Issue, Succeed, Failed, FailRequest, RejectRetried, Reject, WaitForRefresh,
        NothingToRefresh, BeginRefresh, EndRefresh, FailRefresh
  <2> QED BY <2>2, <2>3, <2>4 DEF PageTypes
<1>3. ASSUME NEW t \in Tabs, NEW u \in Users, SubmitLogin(t, u) PROVE PageTypes'
  <2>1. Len(owner) + 1 \in Issued'
    BY <1>3, Grown DEF SubmitLogin, Issued, BackendTypes
  <2> QED BY <1>1, <1>3, <2>1 DEF SubmitLogin, PageTypes
<1>4. ASSUME NEW t \in Tabs, NEW p \in {"app", "login"}, Load(t, p) PROVE PageTypes'
  BY <1>1, <1>4 DEF Load, Fresh, PageTypes
<1>5. ASSUME NEW t \in Tabs, Logout(t) PROVE PageTypes'
  BY <1>1, <1>5 DEF Logout, PageTypes
<1>6. CASE (\E n \in live : Expire(n)) \/ UNCHANGED vars
  BY <1>1, <1>6 DEF Expire, vars, PageTypes
<1> QED BY Steps, <1>2, <1>3, <1>4, <1>5, <1>6 DEF TabStep

(* What is asked after a step: the requests of the tab that took it, replaced *)
(* by a row of well-typed requests.                                           *)
LEMMA RowTypes ==
  ASSUME Types, Issued \subseteq Issued', NEW t \in Tabs, NEW row \in [Requests -> Asks(Issued)'],
         req' = [req EXCEPT ![t] = row]
  PROVE  RequestTypes'
BY DEF Types, RequestTypes, Asks

LEMMA Asked ==
  ASSUME NEW a, NEW ns, a \in Asks(ns)
  PROVE  /\ a.state \in Stages /\ a.pair \in ns /\ a.by \in Person /\ a.retry \in BOOLEAN
         /\ \A n \in ns : [a EXCEPT !.state = "sent", !.pair = n] \in Asks(ns)
         /\ [a EXCEPT !.state = "queued"] \in Asks(ns)
         /\ \A n \in ns \ {0} :
              [a EXCEPT !.state = "renewing", !.retry = TRUE, !.pair = n] \in Asks(ns)
BY DEF Asks, Stages

LEMMA RequestTypesNext == ASSUME Types, [Next]_vars PROVE RequestTypes'
<1> USE DEF Types
<1>1. Issued \subseteq Issued' /\ 0 \in Issued /\ Asks(Issued) \subseteq Asks(Issued)'
  BY Backend DEF Asks, BackendTypes, Issued
<1>2. Idle \in Asks(Issued)
  BY <1>1 DEF Idle, Asks, Stages, Person
<1>3. ASSUME NEW t \in Tabs, NEW rs, req' = [req EXCEPT ![t] = Rejected(t, rs)]
      PROVE  RequestTypes'
  <2>1. Rejected(t, rs) \in [Requests -> Asks(Issued)']
    BY <1>1, <1>2 DEF Rejected, RequestTypes
  <2> QED BY <1>1, <1>3, <2>1, RowTypes
<1>4. ASSUME NEW t \in Tabs, NEW r \in Requests, NEW a \in Asks(Issued)',
             req' = [req EXCEPT ![t][r] = a]
      PROVE  RequestTypes'
  <2>1. [req[t] EXCEPT ![r] = a] \in [Requests -> Asks(Issued)']
    BY <1>1 DEF RequestTypes
  <2> QED BY <1>1, <1>4, <2>1, RowTypes
<1>5. CASE UNCHANGED req
  BY <1>1, <1>5 DEF RequestTypes
<1>6. ASSUME NEW t \in Tabs, NEW r \in Requests, AskStep(t, r) PROVE RequestTypes'
  <2>1. req[t][r] \in Asks(Issued) /\ store[t].pair \in Issued
    BY DEF RequestTypes, StoreTypes, Auths
  <2>2. CASE Issue(t, r)
    <3>1. Sent(t, Owner(store[t].pair)) \in Asks(Issued)
      BY <2>1, OwnerType DEF Sent, Attached, Idle, Asks, Stages
    <3> QED BY <1>1, <1>4, <2>2, <3>1 DEF Issue
  <2>3. CASE Succeed(t, r)
    BY <1>1, <1>2, <1>4, <2>3 DEF Succeed
  <2>4. CASE Failed(t, r) \/ NothingToRefresh(t, r) \/ FailRefresh(t, r)
    BY <1>3, <2>4 DEF Failed, FailRequest, RejectRetried, Reject, NothingToRefresh, FailRefresh
  <2>5. CASE WaitForRefresh(t, r)
    <3>1. req' = [req EXCEPT ![t][r] = [req[t][r] EXCEPT !.state = "queued"]]
      BY <2>5 DEF WaitForRefresh
    <3> QED BY <1>1, <1>4, <2>1, <3>1, Asked
  <2>6. CASE BeginRefresh(t, r)
    <3>1. req' = [req EXCEPT ![t][r] = [req[t][r] EXCEPT !.state = "renewing", !.retry = TRUE,
                                                         !.pair = store[t].pair]]
      BY <2>6 DEF BeginRefresh
    <3>2. store[t].pair \in Issued \ {0}
      BY <2>1, <2>6 DEF BeginRefresh
    <3>3. [req[t][r] EXCEPT !.state = "renewing", !.retry = TRUE, !.pair = store[t].pair]
            \in Asks(Issued)
      BY <2>1, <3>2, Asked
    <3> QED BY <1>1, <1>4, <3>1, <3>3
  <2>7. CASE EndRefresh(t, r)
    <3>1. Owner(req[t][r].pair) \in Users
      BY <2>1, <2>7, OwnerType DEF EndRefresh, Asks, Person
    <3> DEFINE n == Len(owner) + 1
    <3>2. n \in Issued'
      BY <2>7, <3>1, Grown DEF EndRefresh, Issued, BackendTypes
    <3>3. req' = [req EXCEPT ![t] = Resent(t, Waiting(t) \cup {r}, n)]
      BY <2>7 DEF EndRefresh
    <3> HIDE DEF n
    <3>4. ASSUME NEW q \in Requests
          PROVE  [req[t][q] EXCEPT !.state = "sent", !.pair = n] \in Asks(Issued)'
      <4>1. req[t][q] \in Asks(Issued)'
        BY <1>1 DEF RequestTypes
      <4> QED BY <3>2, <4>1 DEF Asks, Stages
    <3>5. Resent(t, Waiting(t) \cup {r}, n) \in [Requests -> Asks(Issued)']
      BY <1>1, <3>4 DEF Resent, RequestTypes
    <3> QED BY <1>1, <3>3, <3>5, RowTypes
  <2> QED BY <1>6, <2>2, <2>3, <2>4, <2>5, <2>6, <2>7 DEF AskStep
<1>7. ASSUME NEW t \in Tabs, NEW u \in Users, SubmitLogin(t, u) PROVE RequestTypes'
  <2> DEFINE n == Len(owner) + 1
             a == [Sent(t, u) EXCEPT !.pair = IF @ # 0 THEN @ ELSE n]
  <2>1. n \in Issued'
    BY <1>7, Grown DEF SubmitLogin, Issued, BackendTypes
  <2>2. store[t].pair \in Issued'
    BY <1>1 DEF StoreTypes, Auths
  <2>3. a \in Asks(Issued)'
    BY <1>1, <2>1, <2>2 DEF Sent, Attached, Idle, Asks, Stages, Person
  <2>4. req' = [req EXCEPT ![t][SignInMe] = a] /\ SignInMe \in Requests
    BY <1>7 DEF SubmitLogin, Requests
  <2> HIDE DEF a, n
  <2> QED BY <1>4, <2>3, <2>4
<1>8. ASSUME NEW t \in Tabs, NEW p, Load(t, p) PROVE RequestTypes'
  <2> DEFINE me == IF StoredAuth.pair = 0 THEN Idle
                   ELSE [Idle EXCEPT !.state = "sent", !.pair = StoredAuth.pair,
                                     !.by = Owner(StoredAuth.pair)]
  <2>1. StoredAuth.pair \in Issued
    BY <1>1 DEF StoredAuth, Anonymous, StoreTypes, Auths
  <2>2. me \in Asks(Issued)
    BY <1>2, <2>1, OwnerType DEF Idle, Asks, Stages
  <2>3. req' = [req EXCEPT ![t] = [r \in Requests |-> IF r = Me THEN me ELSE Idle]]
    BY <1>8 DEF Load, Fresh
  <2> HIDE DEF me
  <2>4. [r \in Requests |-> IF r = Me THEN me ELSE Idle] \in [Requests -> Asks(Issued)']
    BY <1>1, <1>2, <2>2
  <2> QED BY <1>1, <2>3, <2>4, RowTypes
<1>9. CASE (\E t \in Tabs : Logout(t)) \/ (\E n \in live : Expire(n)) \/ UNCHANGED vars
  BY <1>5, <1>9 DEF Logout, Expire, vars
<1> QED BY Steps, <1>6, <1>7, <1>8, <1>9 DEF TabStep

LEMMA TypesNext == Types /\ [Next]_vars => Types'
BY Backend, StoreTypesNext, PageTypesNext, RequestTypesNext DEF Types

LEMMA TypesInit == Init => Types
<1> SUFFICES ASSUME Init PROVE Types
  OBVIOUS
<1>1. owner = <<>> /\ Issued = {0}
  BY DEF Init, Issued
<1>2. BackendTypes
  BY <1>1, SessionAssumption DEF Init, BackendTypes
<1>3. StoreTypes
  BY <1>1 DEF Init, StoreTypes, Auths, Anonymous, Person
<1>4. PageTypes
  BY <1>1 DEF Init, PageTypes
<1>5. Idle \in Asks(Issued)
  BY <1>1 DEF Idle, Asks, Stages, Person
<1>6. RequestTypes
  BY <1>5 DEF Init, RequestTypes
<1> QED BY <1>2, <1>3, <1>4, <1>6 DEF Types

LEMMA TypesOK == Types => TypeOK
<1> SUFFICES ASSUME Types PROVE TypeOK
  OBVIOUS
<1> USE DEF Types
<1>1. Issued \subseteq 0 .. MaxPairs
  BY SessionAssumption DEF BackendTypes, Issued
<1>2. owner \in Seq(Users) /\ Len(owner) <= MaxPairs /\ live \subseteq Pairs
  BY DEF BackendTypes, Pairs
<1>3. Auths(Issued) \subseteq Auth /\ \A a \in Auths(Issued) : a.pair <= Len(owner)
  BY <1>1 DEF Auths, Auth, Person, Issued, BackendTypes
<1>4. Asks(Issued) \subseteq Request /\ \A a \in Asks(Issued) : a.pair <= Len(owner)
  BY <1>1 DEF Asks, Request, Person, Stages, Issued, BackendTypes
<1> QED BY <1>2, <1>3, <1>4 DEF TypeOK, StoreTypes, PageTypes, RequestTypes, Issued
-------------------------------------------------------------------------------
(* Nothing happens in a tab while another one takes a step.                   *)
Untouched(s) ==
  /\ req'[s] = req[s] /\ store'[s] = store[s] /\ page'[s] = page[s]
  /\ leaving'[s] = leaving[s] /\ refreshing'[s] = refreshing[s] /\ signing'[s] = signing[s]

LEMMA OtherTabs ==
  ASSUME Types, NEW t \in Tabs, TabStep(t), NEW s \in Tabs \ {t}
  PROVE  Untouched(s)
<1> USE DEF Types, StoreTypes, PageTypes, RequestTypes, Untouched
<1>1. ASSUME NEW r \in Requests, AskStep(t, r) PROVE Untouched(s)
  <2>1. CASE Succeed(t, r)
    BY <2>1 DEF Succeed, SetUser, SetAuth
  <2>2. CASE Failed(t, r) \/ NothingToRefresh(t, r) \/ FailRefresh(t, r)
    BY <2>2
    DEF Failed, FailRequest, RejectRetried, Reject, NothingToRefresh, FailRefresh, ClearSession,
        AfterSignIn
  <2>3. CASE Issue(t, r) \/ WaitForRefresh(t, r) \/ BeginRefresh(t, r)
    BY <2>3 DEF Issue, WaitForRefresh, BeginRefresh
  <2>4. CASE EndRefresh(t, r)
    BY <2>4 DEF EndRefresh, SetTokens
  <2> QED BY <1>1, <2>1, <2>2, <2>3, <2>4 DEF AskStep
<1>2. ASSUME NEW u \in Users, SubmitLogin(t, u) PROVE Untouched(s)
  BY <1>2 DEF SubmitLogin
<1>3. ASSUME NEW p, Load(t, p) PROVE Untouched(s)
  BY <1>3 DEF Load, Fresh
<1>4. CASE Logout(t)
  BY <1>4 DEF Logout, ClearSession
<1> QED BY <1>1, <1>2, <1>3, <1>4 DEF TabStep

TabApart(t) == Refreshes(t) /\ SignIns(t) /\ OneAccount(t)

(* A step that sends nothing and takes no session but away.                   *)
LEMMA StaysApart ==
  ASSUME Types, [Next]_vars, NEW t \in Tabs, TabApart(t), page'[t] = page[t],
         \A r \in Requests : req'[t][r] \in {req[t][r], Idle},
         store'[t].pair \in {store[t].pair, 0},
         signing'[t] = signing[t] \/ req'[t][SignInMe] = Idle,
         \/ refreshing'[t] = refreshing[t] \/ refreshing'[t]
         \/ \A r \in Requests : req'[t][r].state \notin {"queued", "renewing"}
  PROVE  TabApart(t)'
<1> USE DEF Types
<1>1. Idle.state = "idle" /\ Idle.by = None /\ Idle.pair = 0
  BY DEF Idle
<1>2. Refreshes(t)'
  BY <1>1 DEF TabApart, Refreshes, PageTypes
<1>3. SignIns(t)'
  BY DEF TabApart, SignIns, Requests
<1>4. 0 \in Issued /\ Owner(0)' = None /\ store[t].pair \in Issued
        /\ \A r \in Requests : req[t][r].pair \in Issued
  BY DEF Owner, Issued, BackendTypes, StoreTypes, Auths, RequestTypes, Asks
<1>5. OneAccount(t)'
  <2>1. \A r \in Requests : req'[t][r].by # None => req'[t][r].pair # 0
    BY <1>1 DEF TabApart, OneAccount
  <2>2. CASE page[t] = "app"
    <3>1. PICK u \in Person :
            /\ Owner(store[t].pair) \in {u, None}
            /\ \A r \in Requests : req[t][r].by \in {u, None} /\ Owner(req[t][r].pair) \in {u, None}
      BY <2>2 DEF TabApart, OneAccount
    <3>2. Owner(store[t].pair)' \in {u, None}
      BY <1>4, <3>1, Backend DEF Owner
    <3>3. ASSUME NEW r \in Requests
          PROVE  req'[t][r].by \in {u, None} /\ Owner(req[t][r].pair)' \in {u, None}
      BY <1>1, <1>4, <3>1, Backend DEF Owner
    <3> QED BY <2>1, <3>2, <3>3 DEF OneAccount
  <2> QED BY <2>1, <2>2 DEF OneAccount
<1> QED BY <1>2, <1>3, <1>5 DEF TabApart

LEMMA IdleIs == Idle.state = "idle" /\ Idle.by = None /\ Idle.pair = 0 /\ Idle.retry = FALSE
BY DEF Idle

LEMMA AnswersApart ==
  ASSUME Types, [Next]_vars, NEW t \in Tabs, TabApart(t), NEW r \in Requests,
         Succeed(t, r) \/ Failed(t, r) \/ NothingToRefresh(t, r) \/ FailRefresh(t, r)
  PROVE  TabApart(t)'
<1> USE DEF Types, StoreTypes, PageTypes, RequestTypes
<1>1. CASE Succeed(t, r) /\ r # SignInMe
  <2>1. /\ page' = page /\ signing' = signing /\ refreshing' = refreshing
        /\ req' = [req EXCEPT ![t][r] = Idle]
        /\ store'[t].pair = store[t].pair
    BY <1>1 DEF Succeed, SetUser, Auths
  <2> QED BY <2>1, StaysApart
<1>2. CASE Succeed(t, SignInMe) /\ r = SignInMe
  <2>1. SignInMe \notin PageRequests \cup {Me}
    BY SessionAssumption DEF SignInMe, Me
  <2>2. req[t][SignInMe].state = "sent" /\ page' = page /\ refreshing' = refreshing
          /\ req' = [req EXCEPT ![t][SignInMe] = Idle] /\ signing' = [signing EXCEPT ![t] = 0]
    BY <1>2, <2>1 DEF Succeed
  <2>3. page[t] = "login" /\ SignInMe \in Requests
    BY <2>2, IdleIs DEF TabApart, SignIns, Requests
  <2>4. \A q \in Requests : req'[t][q] \in {req[t][q], Idle}
    BY <2>2
  <2>5. Refreshes(t)'
    BY <2>2, <2>4, IdleIs DEF TabApart, Refreshes
  <2>6. SignIns(t)'
    BY <2>2, <2>3, <2>4 DEF TabApart, SignIns, Requests
  <2>7. OneAccount(t)'
    BY <2>2, <2>3, <2>4, IdleIs DEF TabApart, OneAccount
  <2> QED BY <2>5, <2>6, <2>7 DEF TabApart
<1>3. ASSUME NEW rs, req' = [req EXCEPT ![t] = Rejected(t, rs)],
             signing' = AfterSignIn(t, rs), page' = page,
             UNCHANGED store \/ ClearSession(t),
             \/ refreshing'[t] = refreshing[t] \/ refreshing'[t]
             \/ \A q \in Requests : req'[t][q].state \notin {"queued", "renewing"}
      PROVE  TabApart(t)'
  <2>1. \A q \in Requests : req'[t][q] \in {req[t][q], Idle}
    BY <1>3 DEF Rejected
  <2>2. store'[t].pair \in {store[t].pair, 0}
    BY <1>3 DEF ClearSession, Anonymous
  <2>3. signing'[t] = signing[t] \/ req'[t][SignInMe] = Idle
    BY <1>3 DEF AfterSignIn, Rejected, Requests
  <2> QED BY <1>3, <2>1, <2>2, <2>3, StaysApart
<1>4. CASE Failed(t, r)
  BY <1>3, <1>4 DEF Failed, FailRequest, RejectRetried, Reject
<1>5. CASE NothingToRefresh(t, r)
  BY <1>3, <1>5 DEF NothingToRefresh
<1>6. CASE FailRefresh(t, r)
  <2>1. req' = [req EXCEPT ![t] = Rejected(t, Waiting(t) \cup {r})]
          /\ signing' = AfterSignIn(t, Waiting(t) \cup {r}) /\ page' = page /\ ClearSession(t)
          /\ req[t][r].state = "renewing"
    BY <1>6 DEF FailRefresh
  <2>2. ASSUME NEW q \in Requests
        PROVE  req'[t][q].state \notin {"queued", "renewing"}
    BY <2>1, IdleIs DEF Rejected, Waiting, TabApart, Refreshes
  <2> QED BY <1>3, <2>1, <2>2
<1> QED BY <1>1, <1>2, <1>4, <1>5, <1>6

LEMMA AccountKept ==
  ASSUME NEW t \in Tabs, TabApart(t), owner' = owner, page' = page, store' = store,
         \A q \in Requests :
           /\ req'[t][q].by \in {req[t][q].by, Owner(store[t].pair)}
           /\ req'[t][q].pair \in {req[t][q].pair, store[t].pair}
           /\ req'[t][q].by # None => req'[t][q].pair # 0
  PROVE  OneAccount(t)'
<1>1. CASE page[t] = "app"
  <2>1. PICK u \in Person :
          /\ Owner(store[t].pair) \in {u, None}
          /\ \A q \in Requests : req[t][q].by \in {u, None} /\ Owner(req[t][q].pair) \in {u, None}
    BY <1>1 DEF TabApart, OneAccount
  <2>2. \A n : Owner(n)' = Owner(n)
    BY DEF Owner
  <2>3. Owner(store[t].pair)' \in {u, None}
    BY <2>1 DEF Owner
  <2>4. ASSUME NEW q \in Requests
        PROVE  req'[t][q].by \in {u, None} /\ Owner(req[t][q].pair)' \in {u, None}
    <3>1. req'[t][q].by \in {u, None}
      BY <2>1
    <3>2. CASE req'[t][q].pair = req[t][q].pair
      <4>1. Owner(req[t][q].pair)' = Owner(req[t][q].pair)
        BY <3>2 DEF Owner
      <4> QED BY <2>1, <3>1, <4>1
    <3>3. CASE req'[t][q].pair = store[t].pair
      <4>1. Owner(req[t][q].pair)' = Owner(store[t].pair)
        BY <3>3 DEF Owner
      <4> QED BY <2>1, <3>1, <4>1
    <3> QED BY <3>2, <3>3
  <2> QED BY <2>3, <2>4 DEF OneAccount
<1>2. CASE page[t] # "app"
  BY <1>2 DEF OneAccount
<1> QED BY <1>1, <1>2

LEMMA RequestsApart ==
  ASSUME Types, [Next]_vars, NEW t \in Tabs, TabApart(t), NEW r \in Requests,
         Issue(t, r) \/ WaitForRefresh(t, r) \/ BeginRefresh(t, r)
  PROVE  TabApart(t)'
<1> USE DEF Types, StoreTypes, PageTypes, RequestTypes
<1> DEFINE a == req'[t][r]
<1>1. /\ page' = page /\ signing' = signing /\ store' = store /\ owner' = owner
      /\ \A q \in Requests \ {r} : req'[t][q] = req[t][q]
  BY DEF Issue, WaitForRefresh, BeginRefresh, backend
<1>2. req[t][r] \in Asks(Issued) /\ store[t].pair \in Issued
  BY DEF Auths
<1>3. CASE Issue(t, r)
  <2>1. a = Sent(t, Owner(store[t].pair)) /\ r \in PageRequests /\ page[t] = "app"
          /\ refreshing' = refreshing
    BY <1>3 DEF Issue
  <2>2. a.state = "sent" /\ a.pair = store[t].pair /\ a.by = Owner(store[t].pair)
    BY <2>1 DEF Sent, Attached, Idle
  <2> HIDE DEF a
  <2>3. Refreshes(t)'
    BY <1>1, <2>1, <2>2 DEF a, TabApart, Refreshes
  <2>4. SignIns(t)'
    BY <1>1, <2>1, SessionAssumption DEF TabApart, SignIns, Requests
  <2>5. OneAccount(t)'
    <3>1. a.by # None => a.pair # 0
      BY <1>2, <2>2, OwnerType
    <3>2. \A q \in Requests \ {r} : req'[t][q].by # None => req'[t][q].pair # 0
      BY <1>1 DEF TabApart, OneAccount
    <3> QED BY <1>1, <2>2, <3>1, <3>2, AccountKept DEF a
  <2> QED BY <2>3, <2>4, <2>5 DEF TabApart
<1>4. CASE WaitForRefresh(t, r)
  <2>1. a.state = "queued" /\ a.pair = req[t][r].pair /\ a.by = req[t][r].by
          /\ refreshing' = refreshing /\ refreshing[t] /\ req[t][r].state = "sent"
    BY <1>2, <1>4 DEF WaitForRefresh, Unauthorized, Asks
  <2> HIDE DEF a
  <2>2. Refreshes(t)'
    BY <1>1, <2>1 DEF a, TabApart, Refreshes
  <2>3. SignIns(t)'
    BY <1>1, <2>1, IdleIs DEF a, TabApart, SignIns, Requests
  <2>4. OneAccount(t)'
    <3>1. \A q \in Requests : req'[t][q].by # None => req'[t][q].pair # 0
      BY <1>1, <2>1 DEF a, TabApart, OneAccount
    <3> QED BY <1>1, <2>1, <3>1, AccountKept DEF a
  <2> QED BY <2>2, <2>3, <2>4 DEF TabApart
<1>5. CASE BeginRefresh(t, r)
  <2>1. a.state = "renewing" /\ a.pair = store[t].pair /\ a.by = req[t][r].by
          /\ refreshing'[t] /\ ~refreshing[t] /\ req[t][r].state = "sent" /\ store[t].pair # 0
    BY <1>2, <1>5 DEF BeginRefresh, Unauthorized, Asks
  <2> HIDE DEF a
  <2>2. Refreshes(t)'
    BY <1>1, <2>1 DEF a, TabApart, Refreshes
  <2>3. SignIns(t)'
    BY <1>1, <2>1, IdleIs DEF a, TabApart, SignIns, Requests
  <2>4. OneAccount(t)'
    <3>1. \A q \in Requests : req'[t][q].by # None => req'[t][q].pair # 0
      BY <1>1, <2>1 DEF a, TabApart, OneAccount
    <3> QED BY <1>1, <2>1, <3>1, AccountKept DEF a
  <2> QED BY <2>2, <2>3, <2>4 DEF TabApart
<1> QED BY <1>3, <1>4, <1>5

(* The new pair is issued to the account whose refresh token was posted, so   *)
(* that whatever waited goes on for the account it left with.                 *)
LEMMA RenewalApart ==
  ASSUME Types, [Next]_vars, NEW t \in Tabs, TabApart(t), NEW r \in Requests, EndRefresh(t, r)
  PROVE  /\ TabApart(t)'
         /\ \E n \in Issued' \ {0} :
              /\ store'[t].pair = n /\ storage'.pair = n
              /\ Owner(n)' = Owner(req[t][r].pair) /\ Owner(n)' \in Users
              /\ \A q \in Requests : req'[t][q] \in
                   {req[t][q], [req[t][q] EXCEPT !.state = "sent", !.pair = n]}
              /\ \A q \in Requests : req'[t][q].state \notin {"queued", "renewing"}
<1> USE DEF Types, StoreTypes, PageTypes, RequestTypes
<1>1. req[t][r].state = "renewing" /\ req[t][r] \in Asks(Issued)
  BY DEF EndRefresh
<1>2. Owner(req[t][r].pair) \in Users /\ req[t][r].pair \in Issued
  BY <1>1, OwnerType DEF Asks, Person
<1>3. PICK n \in Nat : n = Len(owner) + 1
  BY DEF BackendTypes
<1>4. n \in Issued' \ {0} /\ Owner(n)' = Owner(req[t][r].pair)
  BY <1>2, <1>3, Grown DEF EndRefresh, Issued, BackendTypes
<1>5. SetTokens(t, n) /\ req' = [req EXCEPT ![t] = Resent(t, Waiting(t) \cup {r}, n)]
        /\ page' = page /\ signing' = signing
  BY <1>3 DEF EndRefresh
<1>6. store'[t].pair = n /\ storage'.pair = n
  BY <1>5 DEF SetTokens, Auths
<1>7. ASSUME NEW q \in Requests
      PROVE  /\ req'[t][q] \in {req[t][q], [req[t][q] EXCEPT !.state = "sent", !.pair = n]}
             /\ req'[t][q].state \notin {"queued", "renewing"}
             /\ req'[t][q].by = req[t][q].by
             /\ req'[t][q].pair \in {req[t][q].pair, n}
             /\ req[t][q] = Idle => req'[t][q] = Idle
  <2>1. req[t][q] \in Asks(Issued)
    OBVIOUS
  <2>2. CASE q \in Waiting(t) \cup {r}
    <3>1. req'[t][q] = [req[t][q] EXCEPT !.state = "sent", !.pair = n]
      BY <1>5, <2>2 DEF Resent
    <3>2. req[t][q].state \in {"queued", "renewing"}
      BY <1>1, <2>2 DEF Waiting
    <3> QED BY <2>1, <3>1, <3>2, IdleIs DEF Asks
  <2>3. CASE q \notin Waiting(t) \cup {r}
    <3>1. req'[t][q] = req[t][q]
      BY <1>5, <2>3 DEF Resent
    <3>2. req[t][q].state \notin {"queued", "renewing"}
      BY <1>1, <2>3 DEF Waiting, TabApart, Refreshes
    <3> QED BY <3>1, <3>2
  <2> QED BY <2>2, <2>3
<1>8. Refreshes(t)'
  BY <1>7 DEF Refreshes
<1>9. SignIns(t)'
  BY <1>5, <1>7 DEF TabApart, SignIns, Requests
<1>10. OneAccount(t)'
  <2>1. \A q \in Requests : req'[t][q].by # None => req'[t][q].pair # 0
    BY <1>4, <1>7 DEF TabApart, OneAccount
  <2>2. CASE page[t] = "app"
    <3>1. PICK u \in Person :
            /\ Owner(store[t].pair) \in {u, None}
            /\ \A q \in Requests : req[t][q].by \in {u, None} /\ Owner(req[t][q].pair) \in {u, None}
      BY <2>2 DEF TabApart, OneAccount
    <3>2. Owner(n)' \in {u, None}
      BY <1>4, <3>1
    <3>3. Owner(store[t].pair)' \in {u, None}
      BY <1>6, <3>2 DEF Owner
    <3>4. ASSUME NEW q \in Requests
          PROVE  req'[t][q].by \in {u, None} /\ Owner(req[t][q].pair)' \in {u, None}
      <4>1. req[t][q].pair \in Issued
        BY DEF Asks
      <4>2. CASE req'[t][q].pair = n
        <5>1. Owner(req[t][q].pair)' = Owner(n)'
          BY <4>2 DEF Owner
        <5> QED BY <1>7, <3>1, <3>2, <5>1
      <4>3. CASE req'[t][q].pair = req[t][q].pair
        <5>1. Owner(req[t][q].pair)' = Owner(req[t][q].pair)
          BY <4>1, <4>3, Backend DEF Owner
        <5> QED BY <1>7, <3>1, <5>1
      <4> QED BY <1>7, <4>2, <4>3
    <3> QED BY <2>1, <3>3, <3>4 DEF OneAccount
  <2> QED BY <1>5, <2>1, <2>2 DEF OneAccount
<1> QED BY <1>2, <1>4, <1>6, <1>7, <1>8, <1>9, <1>10 DEF TabApart

LEMMA PagesApart ==
  ASSUME Types, [Next]_vars, NEW t \in Tabs, TabApart(t),
         \/ \E u \in Users : SubmitLogin(t, u)
         \/ \E p \in {"app", "login"} : Load(t, p)
         \/ Logout(t)
  PROVE  TabApart(t)'
<1> USE DEF Types, StoreTypes, PageTypes, RequestTypes
<1>1. ASSUME NEW u \in Users, SubmitLogin(t, u)
      PROVE  TabApart(t)'
  <2>1. /\ page' = page /\ page[t] = "login" /\ refreshing' = refreshing /\ signing[t] = 0
        /\ SignInMe \in Requests /\ \A q \in Requests \ {SignInMe} : req'[t][q] = req[t][q]
    BY <1>1 DEF SubmitLogin, Requests
  <2>2. signing'[t] = Len(owner) + 1 /\ Len(owner) \in Nat
    BY <1>1 DEF SubmitLogin, BackendTypes
  <2>3. req'[t][SignInMe].state = "sent" /\ req'[t][SignInMe].pair # 0
    <3> DEFINE was == Sent(t, u)
               now == IF was.pair # 0 THEN was.pair ELSE Len(owner) + 1
    <3>1. was.state = "sent" /\ now # 0
      BY <2>2 DEF Sent, Idle
    <3>2. req'[t][SignInMe] = [was EXCEPT !.pair = now]
      BY <1>1, <2>1 DEF SubmitLogin
    <3>3. was \in [state : {"sent"}, pair : {was.pair}, by : {was.by}, retry : {FALSE}]
      BY DEF Sent, Idle
    <3> HIDE DEF was, now
    <3> QED BY <3>1, <3>2, <3>3
  <2>4. Refreshes(t)'
    BY <2>1, <2>3 DEF TabApart, Refreshes
  <2>5. SignIns(t)'
    BY <2>1, <2>2, SessionAssumption DEF TabApart, SignIns, Requests
  <2>6. OneAccount(t)'
    BY <2>1, <2>3 DEF TabApart, OneAccount
  <2> QED BY <2>4, <2>5, <2>6 DEF TabApart
<1>2. ASSUME NEW p \in {"app", "login"}, Load(t, p)
      PROVE  TabApart(t)'
  <2>1. /\ page'[t] = p /\ store'[t] = StoredAuth /\ owner' = owner
        /\ \A q \in Requests : q # Me => req'[t][q] = Idle
    BY <1>2 DEF Load, Fresh, backend
  <2>2. StoredAuth.pair \in Issued
    BY DEF StoredAuth, Anonymous, Auths, Issued, BackendTypes
  <2>3. \/ req'[t][Me] = Idle
        \/ req'[t][Me] = [Idle EXCEPT !.state = "sent", !.pair = StoredAuth.pair,
                                      !.by = Owner(StoredAuth.pair)]
           /\ StoredAuth.pair # 0
    BY <1>2 DEF Load, Fresh, Requests
  <2>4. \/ req'[t][Me] = Idle
        \/ /\ req'[t][Me].state = "sent" /\ req'[t][Me].pair = StoredAuth.pair
           /\ req'[t][Me].by = Owner(StoredAuth.pair) /\ StoredAuth.pair # 0
    BY <2>3 DEF Idle
  <2>5. Refreshes(t)'
    BY <2>1, <2>4, IdleIs DEF Refreshes
  <2>6. SignIns(t)'
    BY <2>1, SessionAssumption DEF SignIns, Requests, Me, SignInMe
  <2>7. OneAccount(t)'
    <3>1. PICK u \in Person : u = Owner(StoredAuth.pair)
      BY <2>2, OwnerType
    <3>2. Owner(store[t].pair)' = u
      BY <2>1, <3>1 DEF Owner
    <3>3. ASSUME NEW q \in Requests
          PROVE  /\ req'[t][q].by \in {u, None} /\ Owner(req[t][q].pair)' \in {u, None}
                 /\ req'[t][q].by # None => req'[t][q].pair # 0
      BY <2>1, <2>4, <3>1, IdleIs DEF Owner
    <3> QED BY <3>2, <3>3 DEF OneAccount
  <2> QED BY <2>5, <2>6, <2>7 DEF TabApart
<1>3. CASE Logout(t)
  <2>1. UNCHANGED <<page, refreshing, signing, req>> /\ store'[t].pair = 0
    BY <1>3 DEF Logout, ClearSession, Anonymous
  <2> QED BY <2>1, StaysApart
<1> QED BY <1>1, <1>2, <1>3

LEMMA ApartNext == Types /\ Apart /\ [Next]_vars => Apart'
<1> SUFFICES ASSUME Types, Apart, [Next]_vars, NEW s \in Tabs PROVE TabApart(s)'
  BY DEF Apart, TabApart
<1> USE DEF Types
<1>1. TabApart(s)
  BY DEF Apart, TabApart
<1>2. CASE Untouched(s)
  BY <1>1, <1>2, StaysApart DEF Untouched
<1>3. ASSUME NEW t \in Tabs, TabStep(t) PROVE TabApart(s)'
  <2>1. CASE s # t
    BY <1>2, <1>3, <2>1, OtherTabs
  <2>2. CASE s = t
    BY <1>1, <1>3, <2>2, AnswersApart, RequestsApart, RenewalApart, PagesApart
    DEF TabStep, AskStep
  <2> QED BY <2>1, <2>2
<1>4. CASE (\E n \in live : Expire(n)) \/ UNCHANGED vars
  BY <1>2, <1>4 DEF Expire, vars, Untouched
<1> QED BY Steps, <1>3, <1>4

LEMMA ApartInit == Init => Apart
<1> SUFFICES ASSUME Init, NEW t \in Tabs PROVE TabApart(t)
  BY DEF Apart, TabApart
<1>1. \A r \in Requests : req[t][r] = Idle
  BY DEF Init
<1>2. store[t].pair = 0 /\ page[t] = "app" /\ Owner(0) = None /\ None \in Person
  BY DEF Init, Anonymous, Owner, Person
<1>3. Refreshes(t) /\ SignIns(t)
  BY <1>1, <1>2, IdleIs DEF Refreshes, SignIns, Requests
<1>4. OneAccount(t)
  BY <1>1, <1>2, IdleIs DEF OneAccount
<1> QED BY <1>3, <1>4 DEF TabApart

LEMMA Always == Spec => [](Types /\ Apart)
<1>1. Init => Types /\ Apart
  BY TypesInit, ApartInit
<1>2. Types /\ Apart /\ [Next]_vars => (Types /\ Apart)'
  BY TypesNext, ApartNext
<1> QED BY <1>1, <1>2, PTL DEF Spec

(* Tokens, users and requests keep their types, and no token is used that was *)
(* never issued, for any number of tabs, users, requests and renewals.        *)
THEOREM TypeCorrect == Spec => []TypeOK
BY Always, TypesOK, PTL

(* A tab renews its session once for all the requests that met a 401.         *)
THEOREM RefreshesOnce == Spec => []OneRefresh
<1>1. Apart => OneRefresh
  BY DEF Apart, Refreshes, OneRefresh
<1> QED BY Always, <1>1, PTL

(* Whatever other tabs sign in, out and renew, the requests of a page are     *)
(* answered for the account they left with.                                   *)
THEOREM AnsweredAsSent == Spec => []OwnAnswers
<1>1. Types /\ Apart => OwnAnswers
  <2> SUFFICES ASSUME Types, Apart, NEW t \in Tabs, NEW r \in PageRequests,
                      req[t][r].state = "sent", req[t][r].by # None
               PROVE  Owner(req[t][r].pair) = req[t][r].by
    BY DEF OwnAnswers
  <2>1. r \in Requests /\ req[t][r] \in Asks(Issued) /\ page[t] \in {"app", "login"}
    BY DEF Types, RequestTypes, PageTypes, Requests
  <2>2. page[t] = "app"
    BY <2>1, IdleIs DEF Apart, SignIns
  <2>3. req[t][r].pair # 0
    BY <2>1 DEF Apart, OneAccount
  <2>4. Owner(req[t][r].pair) # None
    BY <2>1, <2>3, OwnerType DEF Asks
  <2> QED BY <2>1, <2>2, <2>4 DEF Apart, OneAccount
<1> QED BY Always, <1>1, PTL

(* Who takes a tab's session, sends it elsewhere or lowers isRefreshing       *)
(* leaves nobody waiting; whatever else happens, the refresh goes on.         *)
SomebodyIn(t) ==
  refreshing[t] /\ store[t].pair # 0 /\ leaving[t] = None
  => \E r \in Requests : req[t][r].state = "renewing"

LEMMA SomebodyNext ==
  Types /\ Apart /\ SomebodyRefreshes /\ [Next]_vars => SomebodyRefreshes'
<1> SUFFICES ASSUME Types, Apart, SomebodyRefreshes, [Next]_vars, NEW s \in Tabs
             PROVE  SomebodyIn(s)'
  BY DEF SomebodyRefreshes, SomebodyIn
<1> USE DEF Types, StoreTypes, PageTypes, RequestTypes
<1>1. SomebodyIn(s)
  BY DEF SomebodyRefreshes, SomebodyIn
<1>2. ASSUME NEW t \in Tabs, NEW r \in Requests, AskStep(t, r)
      PROVE  leaving'[s] = leaving[s] \/ leaving'[s] # None
  BY <1>2, SessionAssumption
  DEF AskStep, Issue, Succeed, Failed, FailRequest, RejectRetried, WaitForRefresh,
      NothingToRefresh, BeginRefresh, EndRefresh, FailRefresh
<1>3. ASSUME NEW t \in Tabs, TabStep(t), s # t
      PROVE  SomebodyIn(s)'
  <2>1. Untouched(s)
    BY <1>3, OtherTabs
  <2> QED BY <1>1, <2>1 DEF SomebodyIn, Untouched
<1>4. ASSUME NEW r \in Requests, AskStep(s, r)
      PROVE  SomebodyIn(s)'
  <2>1. CASE Succeed(s, r) /\ r # SignInMe
    <3>1. req[s][r].state = "sent" /\ req' = [req EXCEPT ![s][r] = Idle]
            /\ refreshing' = refreshing /\ store'[s].pair = store[s].pair
      BY <2>1 DEF Succeed, SetUser, Auths
    <3> QED BY <1>1, <1>2, <1>4, <3>1 DEF SomebodyIn
  <2>2. CASE Succeed(s, r) /\ r = SignInMe
    <3>1. leaving'[s] # None
      BY <2>2, SessionAssumption DEF Succeed, Me, SignInMe
    <3> QED BY <3>1 DEF SomebodyIn
  <2>3. CASE Failed(s, r)
    <3>1. req[s][r].state = "sent" /\ req' = [req EXCEPT ![s] = Rejected(s, {r})]
            /\ refreshing' = refreshing /\ (store' = store \/ ClearSession(s))
      BY <2>3 DEF Failed, FailRequest, RejectRetried, Reject, Unauthorized
    <3>2. \A q \in Requests : req[s][q].state = "renewing" => req'[s][q] = req[s][q]
      BY <3>1 DEF Rejected
    <3>3. store'[s].pair \in {store[s].pair, 0}
      BY <3>1 DEF ClearSession, Anonymous
    <3> QED BY <1>1, <1>2, <1>4, <3>1, <3>2, <3>3 DEF SomebodyIn
  <2>4. CASE Issue(s, r) \/ WaitForRefresh(s, r)
    <3>1. req[s][r].state # "renewing" /\ \A q \in Requests \ {r} : req'[s][q] = req[s][q]
      BY <2>4, IdleIs DEF Issue, WaitForRefresh, Unauthorized
    <3>2. UNCHANGED <<refreshing, store, leaving>>
      BY <2>4 DEF Issue, WaitForRefresh
    <3> QED BY <1>1, <3>1, <3>2 DEF SomebodyIn
  <2>5. CASE NothingToRefresh(s, r)
    BY <2>5 DEF NothingToRefresh, ClearSession, Anonymous, SomebodyIn
  <2>6. CASE BeginRefresh(s, r)
    <3>1. [req[s][r] EXCEPT !.state = "renewing", !.retry = TRUE, !.pair = store[s].pair].state
            = "renewing"
      BY DEF Asks
    <3>2. req' = [req EXCEPT ![s][r] = [req[s][r] EXCEPT !.state = "renewing", !.retry = TRUE,
                                                         !.pair = store[s].pair]]
      BY <2>6 DEF BeginRefresh
    <3> QED BY <3>1, <3>2 DEF SomebodyIn
  <2>7. CASE EndRefresh(s, r) \/ FailRefresh(s, r)
    BY <2>7 DEF EndRefresh, FailRefresh, SomebodyIn
  <2> QED BY <1>4, <2>1, <2>2, <2>3, <2>4, <2>5, <2>6, <2>7 DEF AskStep
<1>5. CASE \E u \in Users : SubmitLogin(s, u)
  <2>1. req[s][SignInMe] = Idle /\ \A q \in Requests \ {SignInMe} : req'[s][q] = req[s][q]
    BY <1>5 DEF SubmitLogin, Apart, SignIns
  <2>2. UNCHANGED <<refreshing, store, leaving>>
    BY <1>5 DEF SubmitLogin
  <2> QED BY <1>1, <2>1, <2>2, IdleIs DEF SomebodyIn
<1>6. CASE (\E p \in {"app", "login"} : Load(s, p)) \/ Logout(s)
  BY <1>6 DEF Load, Fresh, Logout, ClearSession, Anonymous, SomebodyIn
<1>7. CASE (\E n \in live : Expire(n)) \/ UNCHANGED vars
  BY <1>1, <1>7 DEF Expire, vars, SomebodyIn
<1> QED BY Steps, <1>3, <1>4, <1>5, <1>6, <1>7 DEF TabStep

(* While a page that has a session stays, behind a raised isRefreshing there  *)
(* always is a refresh that will lower it.                                    *)
THEOREM NobodyWaitsAlone == Spec => []SomebodyRefreshes
<1>1. Init => SomebodyRefreshes
  BY DEF Init, SomebodyRefreshes
<1>2. Types /\ Apart /\ SomebodyRefreshes /\ [Next]_vars => SomebodyRefreshes'
  BY SomebodyNext
<1> QED BY <1>1, <1>2, Always, PTL DEF Spec

THEOREM OneRenewalServesAll == Spec => []RenewalsServe
BY RefreshesOnce, NobodyWaitsAlone, PTL DEF RenewalsServe
-------------------------------------------------------------------------------
(* What a page shows and what it may still come to show.  A refresh renews    *)
(* the session the page has; one whose session the failed restoration took    *)
(* away shows nobody when the refresh gives it another.  The restoration that *)
(* is still asked for is the one of the account the page has.                 *)
OwnRenewal(t) == \A r \in Requests : req[t][r].state = "renewing" =>
  IF store[t].pair = 0 THEN ~Pending(t, Me) /\ store[t].user = None
  ELSE req[t][r].pair = store[t].pair

OwnProfile(t) == store[t].pair # 0 =>
  IF Pending(t, Me) THEN Owner(req[t][Me].pair) = Owner(store[t].pair)
  ELSE store[t].user \in {None, Owner(store[t].pair)}

ShownIn(t) == leaving[t] = None => OwnRenewal(t) /\ OwnProfile(t)

Shown == \A t \in Tabs : ShownIn(t)

(* A step that leaves a tab its session and its restoration, and begins no    *)
(* refresh.                                                                   *)
LEMMA StaysShown ==
  ASSUME Types, [Next]_vars, NEW t \in Tabs, ShownIn(t),
         leaving'[t] = leaving[t], store'[t] = store[t],
         \A r \in Requests :
           req'[t][r].state = "renewing" =>
             req[t][r].state = "renewing" /\ req'[t][r].pair = req[t][r].pair,
         Pending(t, Me)' <=> Pending(t, Me),
         Pending(t, Me) => req'[t][Me].pair = req[t][Me].pair
  PROVE  ShownIn(t)'
<1> USE DEF Types, StoreTypes, RequestTypes
<1>1. SUFFICES ASSUME leaving[t] = None PROVE OwnRenewal(t)' /\ OwnProfile(t)'
  BY DEF ShownIn
<1>2. OwnRenewal(t) /\ OwnProfile(t)
  BY <1>1 DEF ShownIn
<1>3. Me \in Requests /\ req[t][Me].pair \in Issued /\ store[t].pair \in Issued
  BY DEF Requests, Asks, Auths
<1>4. Owner(store[t].pair)' = Owner(store[t].pair)
  BY <1>3, Backend DEF Owner
<1>5. OwnRenewal(t)'
  BY <1>2 DEF OwnRenewal
<1>6. CASE Pending(t, Me)
  <2>1. Owner(req[t][Me].pair)' = Owner(req[t][Me].pair)
    BY <1>3, <1>6, Backend DEF Owner
  <2>2. OwnProfile(t)'
    BY <1>2, <1>4, <1>6, <2>1 DEF OwnProfile
  <2> QED BY <1>5, <2>2
<1>7. CASE ~Pending(t, Me)
  BY <1>2, <1>4, <1>5, <1>7 DEF OwnProfile
<1> QED BY <1>6, <1>7

(* Without a session a tab shows nobody, whatever it asks.                    *)
LEMMA GoneShown ==
  ASSUME NEW t \in Tabs, store'[t] = Anonymous,
         \/ \A r \in Requests : req'[t][r].state # "renewing"
         \/ ~Pending(t, Me)'
  PROVE  ShownIn(t)'
BY DEF ShownIn, OwnRenewal, OwnProfile, Anonymous, Pending

LEMMA AnswersShown ==
  ASSUME Types, Apart, [Next]_vars, NEW t \in Tabs, ShownIn(t), NEW r \in Requests,
         Succeed(t, r) \/ Failed(t, r)
  PROVE  ShownIn(t)'
<1> USE DEF Types, StoreTypes, RequestTypes
<1>1. req[t][r].state = "sent" /\ \A q \in Requests : req'[t][q] = IF q = r THEN Idle ELSE req[t][q]
  BY DEF Succeed, Failed, FailRequest, RejectRetried, Unauthorized, Reject, Rejected
<1>2. \A q \in Requests : req'[t][q].state = "renewing" =>
        req[t][q].state = "renewing" /\ req'[t][q] = req[t][q]
  BY <1>1, IdleIs
<1>3. Me \in Requests
  BY DEF Requests
<1>4. ASSUME r # Me PROVE req'[t][Me] = req[t][Me]
  BY <1>1, <1>3, <1>4
<1>5. CASE Succeed(t, r) /\ r = Me
  <2>1. store'[t] = [store[t] EXCEPT !.user = Owner(req[t][Me].pair)] /\ leaving' = leaving
    BY <1>5, SessionAssumption DEF Succeed, SetUser, Me, SignInMe
  <2>2. store'[t].pair = store[t].pair /\ store'[t].user = Owner(req[t][Me].pair)
    BY <2>1 DEF Auths
  <2>3. Pending(t, Me) /\ ~Pending(t, Me)'
    BY <1>1, <1>3, <1>5, IdleIs DEF Pending
  <2>4. Owner(store[t].pair)' = Owner(store[t].pair)
    <3>1. store[t].pair \in Issued
      BY DEF Auths
    <3> QED BY <2>2, <3>1, Backend DEF Owner
  <2>5. OwnRenewal(t) /\ OwnProfile(t) => OwnRenewal(t)' /\ OwnProfile(t)'
    BY <1>2, <2>2, <2>3, <2>4 DEF OwnRenewal, OwnProfile
  <2> QED BY <2>1, <2>5 DEF ShownIn
<1>6. CASE Succeed(t, r) /\ r = SignInMe
  BY <1>6, SessionAssumption DEF Succeed, Me, SignInMe, PageTypes, ShownIn
<1>7. CASE Failed(t, r) /\ r = Me
  <2>1. store'[t] = Anonymous
    BY <1>7 DEF Failed, FailRequest, RejectRetried, Reject, ClearSession
  <2>2. ~Pending(t, Me)'
    BY <1>1, <1>3, <1>7, IdleIs DEF Pending
  <2> QED BY <2>1, <2>2, GoneShown
<1>8. CASE (Succeed(t, r) /\ r \in PageRequests) \/ (Failed(t, r) /\ r # Me)
  <2>1. r # Me /\ store' = store /\ leaving' = leaving
    BY <1>8, SessionAssumption
    DEF Succeed, Failed, FailRequest, RejectRetried, Reject, Me, SignInMe
  <2> QED BY <1>2, <1>4, <2>1, StaysShown DEF Pending
<1> QED BY <1>5, <1>6, <1>7, <1>8 DEF Requests

LEMMA RequestsShown ==
  ASSUME Types, Apart, [Next]_vars, NEW t \in Tabs, ShownIn(t), NEW r \in Requests,
         Issue(t, r) \/ WaitForRefresh(t, r) \/ BeginRefresh(t, r)
  PROVE  ShownIn(t)'
<1> USE DEF Types, StoreTypes, RequestTypes
<1>1. store' = store /\ leaving' = leaving /\ \A q \in Requests \ {r} : req'[t][q] = req[t][q]
  BY DEF Issue, WaitForRefresh, BeginRefresh
<1>2. Me \in Requests /\ req[t][r] \in Asks(Issued) /\ store[t].pair \in Issued
  BY DEF Requests, Auths
<1>3. CASE Issue(t, r)
  <2>1. r # Me /\ req'[t][r].state = "sent"
    BY <1>3, SessionAssumption DEF Issue, Sent, Idle
  <2> QED BY <1>1, <1>2, <2>1, StaysShown DEF Pending
<1>4. CASE WaitForRefresh(t, r)
  <2>1. req[t][r].state = "sent" /\ req'[t][r].state = "queued"
          /\ req'[t][r].pair = req[t][r].pair
    BY <1>2, <1>4 DEF WaitForRefresh, Unauthorized, Asks
  <2> QED BY <1>1, <1>2, <2>1, StaysShown DEF Pending
<1>5. CASE BeginRefresh(t, r)
  <2>1. /\ req[t][r].state = "sent" /\ ~refreshing[t] /\ store[t].pair # 0
        /\ req'[t][r].state = "renewing" /\ req'[t][r].pair = store[t].pair
    BY <1>2, <1>5 DEF BeginRefresh, Unauthorized, Asks
  <2>2. \A q \in Requests : req'[t][q].state = "renewing" => q = r
    BY <1>1, <2>1 DEF Apart, Refreshes
  <2>3. OwnRenewal(t)'
    BY <1>1, <2>1, <2>2 DEF OwnRenewal
  <2>4. Owner(store[t].pair)' = Owner(store[t].pair)
    BY <1>1, <1>2, Backend DEF Owner
  <2>5. (Pending(t, Me)' <=> Pending(t, Me))
    BY <1>1, <1>2, <2>1 DEF Pending
  <2>6. OwnProfile(t) => OwnProfile(t)'
    <3>1. CASE r = Me
      <4>1. Owner(req[t][Me].pair)' = Owner(store[t].pair)'
        BY <1>1, <2>1, <3>1 DEF Owner
      <4> QED BY <2>1, <2>5, <3>1, <4>1 DEF OwnProfile, Pending
    <3>2. CASE r # Me
      <4>1. Owner(req[t][Me].pair)' = Owner(req[t][Me].pair)
        <5>1. req[t][Me].pair \in Issued /\ req'[t][Me] = req[t][Me]
          BY <1>1, <1>2, <3>2 DEF Asks
        <5> QED BY <5>1, Backend DEF Owner
      <4> QED BY <1>1, <2>4, <2>5, <4>1 DEF OwnProfile
    <3> QED BY <3>1, <3>2
  <2> QED BY <1>1, <2>3, <2>6 DEF ShownIn
<1> QED BY <1>3, <1>4, <1>5

(* The renewed session is the one the page had, or the page shows nobody yet; *)
(* a restoration sent before with the old token asks for the same account.    *)
LEMMA RenewalShown ==
  ASSUME Types, Apart, [Next]_vars, NEW t \in Tabs, ShownIn(t), NEW r \in Requests, EndRefresh(t, r)
  PROVE  ShownIn(t)'
<1> USE DEF Types, StoreTypes, RequestTypes
<1>1. leaving' = leaving /\ req[t][r].state = "renewing" /\ TabApart(t)
  BY DEF EndRefresh, Apart, TabApart
<1>2. PICK n \in Issued' \ {0} :
        /\ store'[t].pair = n
        /\ Owner(n)' = Owner(req[t][r].pair)
        /\ \A q \in Requests : req'[t][q] \in
             {req[t][q], [req[t][q] EXCEPT !.state = "sent", !.pair = n]}
        /\ \A q \in Requests : req'[t][q].state \notin {"queued", "renewing"}
  BY <1>1, RenewalApart
<1>3. SUFFICES ASSUME leaving[t] = None PROVE OwnProfile(t)'
  BY <1>1, <1>2 DEF ShownIn, OwnRenewal
<1>4. OwnRenewal(t) /\ OwnProfile(t) /\ Me \in Requests
  BY <1>3 DEF ShownIn, Requests
<1>5. store'[t].user = store[t].user
  BY DEF EndRefresh, SetTokens, Auths
<1>6. Owner(store[t].pair)' = Owner(req[t][r].pair)
  BY <1>2 DEF Owner
<1>7. store[t].pair # 0 => Owner(store[t].pair)' = Owner(store[t].pair)
  <2>1. store[t].pair # 0 => req[t][r].pair = store[t].pair
    BY <1>1, <1>4 DEF OwnRenewal
  <2> QED BY <1>6, <2>1
<1>8. CASE Pending(t, Me)
  <2>1. store[t].pair # 0
    BY <1>1, <1>4, <1>8 DEF OwnRenewal
  <2>2. Owner(req[t][Me].pair) = Owner(store[t].pair)
    BY <1>4, <1>8, <2>1 DEF OwnProfile
  <2>3. Owner(req[t][Me].pair)' = Owner(store[t].pair)'
    <3>1. req[t][Me] \in Asks(Issued) /\ req[t][Me].pair \in Issued
      BY <1>4 DEF Asks
    <3>2. CASE req'[t][Me] = req[t][Me]
      <4>1. Owner(req[t][Me].pair)' = Owner(req[t][Me].pair)
        BY <3>1, <3>2, Backend DEF Owner
      <4> QED BY <1>7, <2>1, <2>2, <4>1
    <3>3. CASE req'[t][Me] = [req[t][Me] EXCEPT !.state = "sent", !.pair = n]
      <4>1. req'[t][Me].pair = n
        BY <3>1, <3>3 DEF Asks
      <4> QED BY <1>2, <4>1 DEF Owner
    <3> QED BY <1>2, <1>4, <3>2, <3>3
  <2>4. Pending(t, Me)'
    <3>1. req[t][Me] \in Asks(Issued)
      BY <1>4
    <3> QED BY <1>2, <1>4, <1>8, <3>1 DEF Pending, Asks
  <2> QED BY <2>3, <2>4 DEF OwnProfile
<1>9. CASE ~Pending(t, Me)
  <2>1. ~Pending(t, Me)'
    <3>1. Me \notin Waiting(t) \cup {r}
      BY <1>1, <1>9 DEF Waiting, Pending
    <3>2. req'[t][Me] = req[t][Me]
      BY <1>4, <3>1 DEF EndRefresh, Resent
    <3> QED BY <1>9, <3>2 DEF Pending
  <2>2. store[t].pair = 0 => store[t].user = None
    BY <1>1, <1>4 DEF OwnRenewal
  <2>3. store[t].pair # 0 => store[t].user \in {None, Owner(store[t].pair)}
    BY <1>4, <1>9 DEF OwnProfile
  <2> QED BY <1>5, <1>7, <2>1, <2>2, <2>3 DEF OwnProfile
<1> QED BY <1>8, <1>9

LEMMA LossShown ==
  ASSUME Types, Apart, [Next]_vars, NEW t \in Tabs, NEW r \in Requests,
         NothingToRefresh(t, r) \/ FailRefresh(t, r)
  PROVE  ShownIn(t)'
<1> USE DEF Types, StoreTypes, RequestTypes
<1>1. store'[t] = Anonymous
  BY DEF NothingToRefresh, FailRefresh, ClearSession
<1>2. ASSUME NEW rs, req' = [req EXCEPT ![t] = Rejected(t, rs)],
             \A q \in Requests : req[t][q].state = "renewing" => q \in rs
      PROVE  \A q \in Requests : req'[t][q].state # "renewing"
  BY <1>2, IdleIs DEF Rejected
<1>3. CASE NothingToRefresh(t, r)
  <2>1. \A q \in Requests : req[t][q].state # "renewing"
    BY <1>3 DEF NothingToRefresh, Apart, Refreshes
  <2>2. \A q \in Requests : req'[t][q].state # "renewing"
    BY <1>2, <1>3, <2>1 DEF NothingToRefresh
  <2> QED BY <1>1, <2>2, GoneShown
<1>4. CASE FailRefresh(t, r)
  <2>1. req[t][r].state = "renewing" /\ req' = [req EXCEPT ![t] = Rejected(t, Waiting(t) \cup {r})]
    BY <1>4 DEF FailRefresh
  <2>2. \A q \in Requests : req[t][q].state = "renewing" => q = r
    BY <2>1 DEF Apart, Refreshes
  <2>3. \A q \in Requests : req'[t][q].state # "renewing"
    BY <1>2, <2>1, <2>2
  <2> QED BY <1>1, <2>3, GoneShown
<1> QED BY <1>3, <1>4

LEMMA PagesShown ==
  ASSUME Types, Apart, [Next]_vars, NEW t \in Tabs, ShownIn(t),
         \/ \E u \in Users : SubmitLogin(t, u)
         \/ \E p \in {"app", "login"} : Load(t, p)
         \/ Logout(t)
  PROVE  ShownIn(t)'
<1> USE DEF Types, StoreTypes, RequestTypes
<1>1. ASSUME NEW u \in Users, SubmitLogin(t, u) PROVE ShownIn(t)'
  <2>1. store' = store /\ leaving' = leaving
          /\ \A q \in Requests \ {SignInMe} : req'[t][q] = req[t][q]
    BY <1>1 DEF SubmitLogin
  <2>2. req'[t][SignInMe].state # "renewing"
    <3> DEFINE was == Sent(t, u)
               now == IF was.pair # 0 THEN was.pair ELSE Len(owner) + 1
    <3>1. req'[t][SignInMe] = [was EXCEPT !.pair = now]
      BY <1>1 DEF SubmitLogin, Requests
    <3>2. was \in [state : {"sent"}, pair : {was.pair}, by : {was.by}, retry : {FALSE}]
      BY DEF Sent, Idle
    <3> HIDE DEF was, now
    <3> QED BY <3>1, <3>2
  <2>3. Me \in Requests \ {SignInMe}
    BY DEF Requests, Me, SignInMe
  <2>4. \A q \in Requests : req'[t][q].state = "renewing" =>
          req[t][q].state = "renewing" /\ req'[t][q].pair = req[t][q].pair
    BY <2>1, <2>2
  <2> QED BY <2>1, <2>3, <2>4, StaysShown DEF Pending
<1>2. ASSUME NEW p \in {"app", "login"}, Load(t, p) PROVE ShownIn(t)'
  <2> DEFINE me == IF StoredAuth.pair = 0 THEN Idle
                   ELSE [Idle EXCEPT !.state = "sent", !.pair = StoredAuth.pair,
                                     !.by = Owner(StoredAuth.pair)]
  <2>1. store'[t] = StoredAuth /\ Me \in Requests
          /\ req'[t] = [q \in Requests |-> IF q = Me THEN me ELSE Idle]
    BY <1>2 DEF Load, Fresh, Requests
  <2>2. StoredAuth.pair # 0 => me.state = "sent" /\ me.pair = StoredAuth.pair
    BY DEF Idle
  <2>3. me.state # "renewing"
    BY DEF Idle
  <2> HIDE DEF me
  <2>4. \A q \in Requests : req'[t][q].state # "renewing"
    BY <2>1, <2>3, IdleIs
  <2>5. store'[t].pair # 0 => req'[t][Me].state = "sent" /\ req'[t][Me].pair = store'[t].pair
    BY <2>1, <2>2
  <2>6. OwnProfile(t)'
    BY <2>5 DEF OwnProfile, Pending, Owner
  <2> QED BY <2>4, <2>6 DEF ShownIn, OwnRenewal
<1>3. CASE Logout(t)
  BY <1>3, SessionAssumption DEF Logout, PageTypes, ShownIn
<1> QED BY <1>1, <1>2, <1>3

LEMMA ShownNext == Types /\ Apart /\ Shown /\ [Next]_vars => Shown'
<1> SUFFICES ASSUME Types, Apart, Shown, [Next]_vars, NEW s \in Tabs PROVE ShownIn(s)'
  BY DEF Shown
<1>1. ShownIn(s)
  BY DEF Shown
<1>2. CASE Untouched(s)
  BY <1>1, <1>2, StaysShown DEF Untouched, Pending
<1>3. ASSUME NEW t \in Tabs, TabStep(t) PROVE ShownIn(s)'
  <2>1. CASE s # t
    BY <1>2, <1>3, <2>1, OtherTabs
  <2>2. CASE s = t
    BY <1>1, <1>3, <2>2, AnswersShown, RequestsShown, RenewalShown, LossShown, PagesShown
    DEF TabStep, AskStep
  <2> QED BY <2>1, <2>2
<1>4. CASE (\E n \in live : Expire(n)) \/ UNCHANGED vars
  BY <1>2, <1>4 DEF Expire, vars, Untouched
<1> QED BY Steps, <1>3, <1>4

(* Although tabs overwrite each other's localStorage, token by token, a page  *)
(* whose restoration has ended shows the user whose token it has.             *)
THEOREM OwnUserShown == Spec => []RightUserShown
<1>1. Init => Shown
  BY IdleIs DEF Init, Shown, ShownIn, OwnRenewal, OwnProfile, Anonymous
<1>2. Types /\ Apart /\ Shown /\ [Next]_vars => Shown'
  BY ShownNext
<1>3. Shown => RightUserShown
  BY DEF Shown, ShownIn, OwnProfile, RightUserShown
<1> QED BY <1>1, <1>2, <1>3, Always, PTL DEF Spec
-------------------------------------------------------------------------------
(* The account whose session a tab renews is that of its one refresh.         *)
Who == [t \in Tabs |-> Owner(store[t].pair)]
Renewing == [t \in Tabs |-> Renewal(t)]

RenewalRead == \A t \in Tabs : Refreshes(t) =>
  /\ \A r \in Requests :
       req[t][r].state = "renewing" => Renewal(t) = Owner(req[t][r].pair)
  /\ (\A r \in Requests : req[t][r].state # "renewing") => Renewal(t) = None

LEMMA RenewalIs == RenewalRead
<1> SUFFICES ASSUME NEW t \in Tabs, Refreshes(t)
             PROVE  /\ \A r \in Requests :
                         req[t][r].state = "renewing" => Renewal(t) = Owner(req[t][r].pair)
                    /\ (\A r \in Requests : req[t][r].state # "renewing") => Renewal(t) = None
  BY DEF RenewalRead
<1> DEFINE R == {r \in Requests : req[t][r].state = "renewing"}
<1>1. Renewal(t) = IF R = {} THEN None ELSE Owner(req[t][CHOOSE r \in R : TRUE].pair)
  BY DEF Renewal
<1>2. ASSUME NEW r \in Requests, req[t][r].state = "renewing"
      PROVE  Renewal(t) = Owner(req[t][r].pair)
  <2>1. r \in R /\ \A q \in R : q = r
    BY <1>2 DEF Refreshes
  <2>2. (CHOOSE q \in R : TRUE) = r
    BY <2>1
  <2> QED BY <1>1, <2>1, <2>2
<1>3. (\A r \in Requests : req[t][r].state # "renewing") => R = {}
  OBVIOUS
<1> QED BY <1>1, <1>2, <1>3

LEMMA RenewalIsNext == RenewalRead'
BY RenewalIs, PTL

LEMMA RenewalKept ==
  ASSUME Types, [Next]_vars, NEW t \in Tabs, Refreshes(t), Refreshes(t)',
         \A q \in Requests :
           /\ req'[t][q].state = "renewing" <=> req[t][q].state = "renewing"
           /\ req[t][q].state = "renewing" => req'[t][q].pair = req[t][q].pair
  PROVE  Renewal(t)' = Renewal(t)
<1>1. CASE \A q \in Requests : req[t][q].state # "renewing"
  BY <1>1, RenewalIs, RenewalIsNext DEF RenewalRead
<1>2. ASSUME NEW q \in Requests, req[t][q].state = "renewing"
      PROVE  Renewal(t)' = Renewal(t)
  <2>1. Renewal(t) = Owner(req[t][q].pair)
    BY <1>2, RenewalIs DEF RenewalRead
  <2>2. Renewal(t)' = Owner(req[t][q].pair)'
    BY <1>2, RenewalIsNext DEF RenewalRead
  <2>3. req[t][q].pair \in Issued /\ req'[t][q].pair = req[t][q].pair
    BY <1>2 DEF Types, RequestTypes, Asks
  <2>4. Owner(req[t][q].pair)' = Owner(req[t][q].pair)
    BY <2>3, Backend DEF Owner
  <2> QED BY <2>1, <2>2, <2>4
<1> QED BY <1>1, <1>2

(* A step of a tab moves no account but the tab's and the browser's.          *)
LEMMA OneTabMoves ==
  ASSUME Types, Apart, Apart', [Next]_vars, NEW t \in Tabs, TabStep(t)
  PROVE  /\ Who' = [Who EXCEPT ![t] = Owner(store[t].pair)']
         /\ Renewing' = [Renewing EXCEPT ![t] = Renewal(t)']
<1>1. ASSUME NEW s \in Tabs \ {t}
      PROVE  Owner(store[s].pair)' = Owner(store[s].pair) /\ Renewal(s)' = Renewal(s)
  <2>1. Untouched(s)
    BY OtherTabs
  <2>2. store[s].pair \in Issued /\ store'[s].pair = store[s].pair
    BY <2>1 DEF Untouched, Types, StoreTypes, Auths
  <2>3. Owner(store[s].pair)' = Owner(store[s].pair)
    BY <2>2, Backend DEF Owner
  <2>4. Renewal(s)' = Renewal(s)
    BY <2>1, RenewalKept DEF Untouched, Apart
  <2> QED BY <2>3, <2>4
<1>2. Who' = [s \in Tabs |-> Owner(store[s].pair)'] /\ Renewing' = [s \in Tabs |-> Renewal(s)']
  BY DEF Who, Renewing
<1> QED BY <1>1, <1>2 DEF Who, Renewing

(* What a step of a tab is, seen through the accounts: nothing, a sign-in, a  *)
(* sign-out, the beginning or the end of a renewal, or a page load.           *)
Jar == Owner(storage.pair)

Moves(t, who1, renewal1, jar1) ==
  LET who0 == Owner(store[t].pair)
      renewal0 == Renewal(t)
  IN \/ who1 = who0 /\ renewal1 = renewal0 /\ jar1 = Jar
     \/ who1 \in Users /\ jar1 = who1 /\ renewal1 = renewal0
     \/ who1 = None /\ jar1 = None /\ renewal1 \in {renewal0, None}
     \/ /\ who0 # None /\ renewal0 = None /\ renewal1 = who0
        /\ who1 = who0 /\ jar1 = Jar
     \/ renewal0 # None /\ who1 = renewal0 /\ jar1 = renewal0 /\ renewal1 = None
     \/ who1 \in {Jar, None} /\ renewal1 = None /\ jar1 = Jar

Moved(t) == Moves(t, Owner(store[t].pair)', Renewal(t)', Jar')

LEMMA AskMoves ==
  ASSUME Types, Types', Apart, Apart', [Next]_vars, NEW t \in Tabs, NEW r \in Requests,
         AskStep(t, r)
  PROVE  Moved(t)
<1> USE DEF Types, StoreTypes, PageTypes, RequestTypes
<1>1. Refreshes(t) /\ Refreshes(t)' /\ SignIns(t)
  BY DEF Apart
<1>2. req[t][r] \in Asks(Issued) /\ store[t].pair \in Issued /\ storage.pair \in Issued
        /\ storage'.pair \in Issued'
  BY DEF Auths
<1>3. ASSUME store'[t].pair = store[t].pair
      PROVE  Owner(store[t].pair)' = Owner(store[t].pair)
  BY <1>2, <1>3, Backend DEF Owner
<1>4. ASSUME storage'.pair = storage.pair
      PROVE  Jar' = Jar
  BY <1>2, <1>4, Backend DEF Owner, Jar
<1>5. ASSUME ClearSession(t)
      PROVE  Owner(store[t].pair)' = None /\ Jar' = None
  BY <1>5 DEF ClearSession, Anonymous, Owner, Jar
<1>6. CASE Succeed(t, r)
  <2>1. req[t][r].state = "sent" /\ req' = [req EXCEPT ![t][r] = Idle]
    BY <1>6 DEF Succeed
  <2>2. Renewal(t)' = Renewal(t)
    BY <1>1, <2>1, IdleIs, RenewalKept
  <2>3. CASE r # SignInMe
    <3>1. store'[t].pair = store[t].pair /\ storage'.pair = storage.pair
      BY <1>6, <2>3 DEF Succeed, SetUser, Auths
    <3> QED BY <1>3, <1>4, <2>2, <3>1 DEF Moved, Moves
  <2>4. CASE r = SignInMe
    <3>1. SetAuth(t, Owner(req[t][r].pair), signing[t])
      BY <1>6, <2>4, SessionAssumption DEF Succeed, Me, SignInMe
    <3>2. store'[t].pair = signing[t] /\ storage'.pair = signing[t]
      BY <3>1 DEF SetAuth
    <3>3. signing[t] \in Issued /\ signing[t] # 0
      BY <1>1, <2>1, <2>4, IdleIs DEF SignIns
    <3>4. Owner(signing[t]) \in Users
      BY <3>3, OwnerType DEF Person
    <3>5. Owner(store[t].pair)' = Owner(signing[t]) /\ Jar' = Owner(signing[t])
      BY <3>2, <3>3, Backend DEF Owner, Jar
    <3> QED BY <2>2, <3>4, <3>5 DEF Moved, Moves
  <2> QED BY <2>3, <2>4
<1>7. CASE Failed(t, r) \/ NothingToRefresh(t, r)
  <2>1. req[t][r].state = "sent" /\ req' = [req EXCEPT ![t] = Rejected(t, {r})]
    BY <1>7
    DEF Failed, FailRequest, RejectRetried, Reject, NothingToRefresh, Unauthorized
  <2>2. \A q \in Requests : req'[t][q] = IF q = r THEN Idle ELSE req[t][q]
    BY <2>1 DEF Rejected
  <2>3. Renewal(t)' = Renewal(t)
    BY <1>1, <2>1, <2>2, IdleIs, RenewalKept
  <2>4. UNCHANGED <<storage, store>> \/ ClearSession(t)
    BY <1>7 DEF Failed, FailRequest, RejectRetried, Reject, NothingToRefresh
  <2> QED BY <1>3, <1>4, <1>5, <2>3, <2>4 DEF Moved, Moves
<1>8. CASE FailRefresh(t, r)
  <2>1. ClearSession(t) /\ req[t][r].state = "renewing"
          /\ req' = [req EXCEPT ![t] = Rejected(t, Waiting(t) \cup {r})]
    BY <1>8 DEF FailRefresh
  <2>2. \A q \in Requests : req'[t][q].state # "renewing"
    BY <1>1, <2>1, IdleIs DEF Rejected, Refreshes
  <2>3. Renewal(t)' = None
    BY <1>1, <2>2, RenewalIsNext DEF RenewalRead
  <2> QED BY <1>5, <2>1, <2>3 DEF Moved, Moves
<1>9. CASE Issue(t, r) \/ WaitForRefresh(t, r)
  <2>1. UNCHANGED <<storage, store>> /\ req[t][r].state # "renewing"
    BY <1>9, IdleIs DEF Issue, WaitForRefresh, Unauthorized
  <2>2. req'[t][r].state # "renewing" /\ \A q \in Requests \ {r} : req'[t][q] = req[t][q]
    <3>1. CASE Issue(t, r)
      <4>1. Sent(t, Owner(store[t].pair)).state = "sent"
        BY DEF Sent, Idle
      <4> QED BY <3>1, <4>1 DEF Issue
    <3>2. CASE WaitForRefresh(t, r)
      <4>1. [req[t][r] EXCEPT !.state = "queued"].state = "queued"
        BY <1>2 DEF Asks
      <4>2. req' = [req EXCEPT ![t][r] = [req[t][r] EXCEPT !.state = "queued"]]
        BY <3>2 DEF WaitForRefresh
      <4> QED BY <4>1, <4>2
    <3> QED BY <1>9, <3>1, <3>2
  <2>3. Renewal(t)' = Renewal(t)
    BY <1>1, <2>1, <2>2, RenewalKept
  <2> QED BY <1>3, <1>4, <2>1, <2>3 DEF Moved, Moves
<1>10. CASE BeginRefresh(t, r)
  <2>1. UNCHANGED <<storage, store>> /\ store[t].pair # 0 /\ ~refreshing[t]
    BY <1>10 DEF BeginRefresh
  <2>2. req'[t][r].state = "renewing" /\ req'[t][r].pair = store[t].pair
    BY <1>2, <1>10 DEF BeginRefresh, Asks
  <2>3. \A q \in Requests : req[t][q].state # "renewing"
    BY <1>1, <2>1 DEF Refreshes
  <2>4. Renewal(t) = None
    BY <1>1, <2>3, RenewalIs DEF RenewalRead
  <2>5. Renewal(t)' = Owner(req[t][r].pair)'
    BY <1>1, <2>2, RenewalIsNext DEF RenewalRead
  <2>6. Owner(req[t][r].pair)' = Owner(store[t].pair)
    BY <1>2, <2>2, Backend DEF Owner
  <2>7. Owner(store[t].pair) # None
    BY <1>2, <2>1, OwnerType
  <2> QED BY <1>3, <1>4, <2>1, <2>4, <2>5, <2>6, <2>7 DEF Moved, Moves
<1>11. CASE EndRefresh(t, r)
  <2>1. TabApart(t)
    BY DEF Apart, TabApart
  <2>2. PICK n \in Issued' \ {0} :
          /\ store'[t].pair = n /\ storage'.pair = n
          /\ Owner(n)' = Owner(req[t][r].pair) /\ Owner(n)' \in Users
          /\ \A q \in Requests : req'[t][q].state \notin {"queued", "renewing"}
    BY <1>11, <2>1, RenewalApart
  <2>3. Renewal(t) = Owner(req[t][r].pair)
    BY <1>1, <1>11, RenewalIs DEF EndRefresh, RenewalRead
  <2>4. Renewal(t)' = None
    BY <1>1, <2>2, RenewalIsNext DEF RenewalRead
  <2>5. Owner(store[t].pair)' = Owner(n)' /\ Jar' = Owner(n)'
    BY <2>2 DEF Owner, Jar
  <2>6. Owner(n)' # None
    BY <2>2, SessionAssumption
  <2> QED BY <2>2, <2>3, <2>4, <2>5, <2>6 DEF Moved, Moves
<1> QED BY <1>6, <1>7, <1>8, <1>9, <1>10, <1>11 DEF AskStep

LEMMA PageMoves ==
  ASSUME Types, Types', Apart, Apart', [Next]_vars, NEW t \in Tabs,
         \/ \E u \in Users : SubmitLogin(t, u)
         \/ \E p \in {"app", "login"} : Load(t, p)
         \/ Logout(t)
  PROVE  Moved(t)
<1> USE DEF Types, StoreTypes, PageTypes, RequestTypes
<1>1. Refreshes(t) /\ Refreshes(t)' /\ SignIns(t)
  BY DEF Apart
<1>2. store[t].pair \in Issued /\ storage.pair \in Issued
  BY DEF Auths
<1>3. CASE \E u \in Users : SubmitLogin(t, u)
  <2>1. UNCHANGED <<storage, store>> /\ req[t][SignInMe] = Idle
    BY <1>1, <1>3 DEF SubmitLogin, SignIns
  <2>2. \A q \in Requests \ {SignInMe} : req'[t][q] = req[t][q]
    BY <1>3 DEF SubmitLogin
  <2>3. req'[t][SignInMe].state # "renewing"
    <3>1. PICK u \in Users : SubmitLogin(t, u)
      BY <1>3
    <3> DEFINE was == Sent(t, u)
               now == IF was.pair # 0 THEN was.pair ELSE Len(owner) + 1
    <3>2. req'[t][SignInMe] = [was EXCEPT !.pair = now]
      BY <3>1 DEF SubmitLogin, Requests
    <3>3. was \in [state : {"sent"}, pair : {was.pair}, by : {was.by}, retry : {FALSE}]
      BY DEF Sent, Idle
    <3> HIDE DEF was, now
    <3> QED BY <3>2, <3>3
  <2>4. Renewal(t)' = Renewal(t)
    BY <1>1, <2>1, <2>2, <2>3, IdleIs, RenewalKept
  <2>5. Owner(store[t].pair)' = Owner(store[t].pair) /\ Jar' = Jar
    BY <1>2, <2>1, Backend DEF Owner, Jar
  <2> QED BY <2>4, <2>5 DEF Moved, Moves
<1>4. ASSUME NEW p \in {"app", "login"}, Load(t, p)
      PROVE  Moved(t)
  <2>1. store'[t] = StoredAuth /\ owner' = owner /\ storage' = storage
    BY <1>4 DEF Load, Fresh, backend
  <2>2. \A q \in Requests : req'[t][q].state # "renewing"
    BY <1>4 DEF Load, Fresh, Idle
  <2>3. Renewal(t)' = None
    BY <1>1, <2>2, RenewalIsNext DEF RenewalRead
  <2>4. StoredAuth.pair \in {storage.pair, 0}
    BY DEF StoredAuth, Anonymous
  <2>5. Owner(store[t].pair)' \in {Jar, None} /\ Jar' = Jar
    BY <2>1, <2>4 DEF Owner, Jar
  <2> QED BY <2>3, <2>5 DEF Moved, Moves
<1>5. CASE Logout(t)
  <2>1. req' = req /\ store'[t].pair = 0 /\ storage'.pair = 0
    BY <1>5 DEF Logout, ClearSession, Anonymous
  <2>2. Renewal(t)' = Renewal(t)
    BY <1>1, <2>1, RenewalKept
  <2>3. Owner(store[t].pair)' = None /\ Jar' = None
    BY <2>1 DEF Owner, Jar
  <2> QED BY <2>2, <2>3 DEF Moved, Moves
<1> QED BY <1>3, <1>4, <1>5

LEMMA StepImplements ==
  ASSUME Types, Types', Apart, Apart', [Next]_vars
  PROVE  Accounts!Next \/ UNCHANGED Accounts!vars
<1>1. ASSUME NEW t \in Tabs, TabStep(t)
      PROVE  Accounts!Next \/ UNCHANGED Accounts!vars
  <2> DEFINE who1 == Owner(store[t].pair)'
             renewal1 == Renewal(t)'
  <2>1. Moves(t, who1, renewal1, Jar')
    BY <1>1, AskMoves, PageMoves DEF TabStep, Moved
  <2>2. Who' = [Who EXCEPT ![t] = who1] /\ Renewing' = [Renewing EXCEPT ![t] = renewal1]
    BY <1>1, OneTabMoves
  <2>3. Who[t] = Owner(store[t].pair) /\ Renewing[t] = Renewal(t)
    BY DEF Who, Renewing
  <2>4. Who = [Who EXCEPT ![t] = Who[t]] /\ Renewing = [Renewing EXCEPT ![t] = Renewing[t]]
    BY DEF Who, Renewing
  <2> HIDE DEF who1, renewal1
  <2>5. \/ Who' = Who /\ Renewing' = Renewing /\ Jar' = Jar
        \/ Accounts!SignIn(t, who1) /\ who1 \in Users
        \/ Accounts!SignOut(t) \/ Accounts!BeginRenewal(t) \/ Accounts!EndRenewal(t)
        \/ Accounts!Load(t)
    BY <2>1, <2>2, <2>3, <2>4
    DEF Moves, Accounts!SignIn, Accounts!SignOut, Accounts!BeginRenewal, Accounts!EndRenewal,
        Accounts!Load, Who, Renewing, Jar
  <2> QED BY <2>5 DEF Accounts!Next, Accounts!vars, Who, Renewing, Jar
<1>2. CASE (\E n \in live : Expire(n)) \/ UNCHANGED vars
  <2>1. UNCHANGED <<owner, store, storage, req>>
    BY <1>2 DEF Expire, vars, backend
  <2> QED BY <2>1 DEF Accounts!vars, Owner, Renewal
<1> QED BY Steps, <1>1, <1>2

(* Tabs that overwrite each other's localStorage, renew, sign in and out and  *)
(* load pages do to the accounts what TabAccounts says, for any number of     *)
(* tabs, users and requests.                                                  *)
THEOREM SessionsImplementAccounts == Spec => ImplementsAccounts
<1>1. Init => Accounts!Init
  <2> SUFFICES ASSUME Init PROVE Accounts!Init
    OBVIOUS
  <2>1. \A t \in Tabs : Refreshes(t) /\ \A r \in Requests : req[t][r].state # "renewing"
    BY ApartInit, IdleIs DEF Init, Apart
  <2>2. \A t \in Tabs : Renewal(t) = None
    BY <2>1, RenewalIs DEF RenewalRead
  <2> QED BY <2>2 DEF Init, Accounts!Init, Anonymous, Owner
<1>2. Types /\ Types' /\ Apart /\ Apart' /\ [Next]_vars => [Accounts!Next]_(Accounts!vars)
  BY StepImplements
<1> QED BY <1>1, <1>2, Always, PTL DEF Spec, ImplementsAccounts, Accounts!Spec
===============================================================================
