------------------------------ MODULE TabAccounts ------------------------------
(* What the pages of one browser promise about accounts.  A page keeps the     *)
(* account it was loaded with until its user signs in or out or the page is    *)
(* loaded again; renewing a session never moves a page to another account, and *)
(* a page that is loaded gets the browser's account or none.                   *)
CONSTANTS Tabs, Users, None

VARIABLES
  who,       \* who[t]: the account tab t acts for, or None
  renewing,  \* renewing[t]: the account whose session tab t is renewing, or None
  jar        \* the account whose session the browser keeps, or None

vars == <<who, renewing, jar>>

Init ==
  /\ who = [t \in Tabs |-> None]
  /\ renewing = [t \in Tabs |-> None]
  /\ jar = None

SignIn(t, u) ==
  /\ who' = [who EXCEPT ![t] = u]
  /\ jar' = u
  /\ UNCHANGED renewing

SignOut(t) ==
  /\ who' = [who EXCEPT ![t] = None]
  /\ jar' = None
  /\ \/ UNCHANGED renewing
     \/ renewing' = [renewing EXCEPT ![t] = None]

BeginRenewal(t) ==
  /\ who[t] # None
  /\ renewing[t] = None
  /\ renewing' = [renewing EXCEPT ![t] = who[t]]
  /\ UNCHANGED <<who, jar>>

(* The renewed session is kept for the browser, whatever it held meanwhile.    *)
EndRenewal(t) ==
  /\ renewing[t] # None
  /\ who' = [who EXCEPT ![t] = renewing[t]]
  /\ jar' = renewing[t]
  /\ renewing' = [renewing EXCEPT ![t] = None]

Load(t) ==
  /\ who' \in {[who EXCEPT ![t] = a] : a \in {jar, None}}
  /\ renewing' = [renewing EXCEPT ![t] = None]
  /\ UNCHANGED jar

Next == \E t \in Tabs :
  \/ \E u \in Users : SignIn(t, u)
  \/ SignOut(t) \/ BeginRenewal(t) \/ EndRenewal(t) \/ Load(t)

Spec == Init /\ [][Next]_vars
===============================================================================
