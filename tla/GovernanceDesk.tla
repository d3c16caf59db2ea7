---------------------------- MODULE GovernanceDesk ----------------------------
(* The administrator's dashboard: six tabs, each with a list that is loaded   *)
(* when the tab, a filter or a search changes and again after every decision. *)
(* Loads and decisions overlap and are answered in any order.  What a filter  *)
(* hides is data: the model lets the administrator act on every row loaded.   *)
EXTENDS Naturals, FiniteSets

CONSTANTS
  Requests,      \* applications of universities and companies
  Institutions,  \* institutions proposed for the master list
  Problems,
  Visited,       \* tabs the administrator visits
  MaxDecisions,  \* bound on the decisions taken
  MaxLoads,      \* bound on the lists asked for
  NoItem

Tabs == {"requests", "institution_requests", "institution_master", "moderation",
         "audit", "analytics"}

ASSUME VisitedAssumption == Visited \subseteq Tabs /\ "requests" \in Visited

Items == Requests \cup Institutions \cup Problems
Statuses == {"submitted", "solved"}  \* standing for the eight

VARIABLES
  tab, rows,     \* rows[t]: what the tab lists, and whether a later load was begun
  loading,       \* isLoading
  processing,    \* processingId
  dialog,        \* the dialog open, if any, and the status chosen in it
  importing,     \* isUploading
  loads, calls,  \* requests on their way
  store,         \* what the backend has stored for each item
  log,           \* decisions in the audit log
  begun, asked,  \* decisions begun, lists asked for
  lost           \* a decision was stored but its answer lost

listVars == <<tab, rows, loading, loads, asked>>
buttonVars == <<processing, dialog, importing>>
callVars == <<calls, begun, lost>>
backendVars == <<store, log>>
deskVars == <<listVars, buttonVars, callVars, backendVars>>

TabOf(i) ==
  IF i \in Requests THEN "requests"
  ELSE IF i \in Institutions THEN "institution_requests" ELSE "moderation"

Closed == [item |-> NoItem, to |-> NoItem]

MasterList == {i \in Institutions : store[i].status = "approved"}
Analytics == [s \in Statuses |-> Cardinality({p \in Problems : store[p].status = s})]

(* What a tab's list is of.                                                   *)
Reading(t) ==
  CASE t = "institution_master" -> MasterList
    [] t = "audit" -> log
    [] t = "analytics" -> Analytics
    [] OTHER -> [i \in {i \in Items : TabOf(i) = t} |-> store[i]]

Load(t) == [tab |-> t, seen |-> NoItem, last |-> TRUE]

DeskInit ==
  /\ tab \in Visited /\ rows = [t \in Tabs |-> [seen |-> NoItem, newest |-> FALSE]]
  /\ loading = TRUE /\ processing = NoItem /\ dialog = Closed /\ importing = FALSE
  /\ loads = {Load(tab)} /\ calls = {}
  /\ store = [i \in Items |-> [status |-> IF i \in Problems THEN "submitted" ELSE "pending",
                               verified |-> FALSE]]
  /\ log = 0 /\ begun = 0 /\ asked = 1 /\ lost = FALSE
-------------------------------------------------------------------------------
(* loadData: nothing aborts or outdates the loads before it.                  *)
LoadData(t) ==
  /\ loads' = {[l EXCEPT !.last = @ /\ l.tab # t] : l \in loads} \cup {Load(t)}
  /\ rows' = [rows EXCEPT ![t].newest = FALSE]
  /\ loading' = TRUE /\ asked' = asked + 1

NoDialog == dialog = Closed  \* a dialog covers the page
CanLoad == asked < MaxLoads

ChangeTab(t) ==
  /\ NoDialog /\ CanLoad /\ t # tab /\ tab' = t
  /\ LoadData(t)
  /\ UNCHANGED <<buttonVars, callVars, backendVars>>

(* A filter, the search or "Refresh Desk".                                    *)
Refresh ==
  /\ NoDialog /\ CanLoad
  /\ LoadData(tab)
  /\ UNCHANGED <<tab, buttonVars, callVars, backendVars>>

ReadList(l) ==
  /\ l.seen = NoItem
  /\ loads' = (loads \ {l}) \cup {[l EXCEPT !.seen = Reading(l.tab)]}
  /\ UNCHANGED <<tab, rows, loading, asked, buttonVars, callVars, backendVars>>

(* The list is replaced by whichever answer arrives, and is shown from the    *)
(* first answer on.                                                           *)
Listed(l) ==
  /\ l.seen # NoItem
  /\ loads' = loads \ {l} /\ loading' = FALSE
  /\ rows' = [rows EXCEPT ![l.tab] = [seen |-> l.seen, newest |-> l.last]]
  /\ UNCHANGED <<tab, asked, buttonVars, callVars, backendVars>>

ListFails(l) ==
  /\ loads' = loads \ {l} /\ loading' = FALSE
  /\ UNCHANGED <<tab, rows, asked, buttonVars, callVars, backendVars>>
-------------------------------------------------------------------------------
(* The row of an item, where the list is shown.                               *)
Row(i) == rows[TabOf(i)].seen[i]
OnScreen(i) == NoDialog /\ tab = TabOf(i) /\ ~loading /\ rows[tab].seen # NoItem

Decide(i, do, to) ==
  /\ begun < MaxDecisions /\ begun' = begun + 1
  /\ calls' = calls \cup {[item |-> i, do |-> do, to |-> to, stored |-> FALSE]}
  /\ processing' = i
  /\ UNCHANGED <<listVars, importing, backendVars, lost>>

Decidable(i) == OnScreen(i) /\ Row(i).status = "pending" /\ processing # i

ApproveRequest(i) ==
  i \in Requests /\ Decidable(i) /\ Decide(i, "approve", NoItem) /\ UNCHANGED dialog

ApproveInstitution(i) ==
  i \in Institutions /\ Decidable(i) /\ Decide(i, "approve", NoItem) /\ UNCHANGED dialog

OpenReject(i) ==
  /\ Decidable(i) /\ dialog' = [item |-> i, to |-> NoItem]
  /\ UNCHANGED <<listVars, processing, importing, callVars, backendVars>>

(* The dialog stays open until the answer.                                    *)
DialogFree(i) == dialog.item = i /\ processing # i

RejectRequest(i) ==
  i \in Requests /\ DialogFree(i) /\ Decide(i, "reject", NoItem) /\ UNCHANGED dialog

RejectInstitution(i) ==
  i \in Institutions /\ DialogFree(i) /\ Decide(i, "reject", NoItem) /\ UNCHANGED dialog

(* The call repeats the status of the row.                                    *)
ToggleVerify(p) ==
  /\ p \in Problems /\ OnScreen(p) /\ processing # p
  /\ Decide(p, IF Row(p).verified THEN "unverify" ELSE "verify", Row(p).status)
  /\ UNCHANGED dialog

OpenStatus(p) ==
  /\ p \in Problems /\ OnScreen(p)
  /\ dialog' = [item |-> p, to |-> Row(p).status]
  /\ UNCHANGED <<listVars, processing, importing, callVars, backendVars>>

ChooseStatus(s) ==
  /\ dialog.item \in Problems /\ s # dialog.to
  /\ dialog' = [dialog EXCEPT !.to = s]
  /\ UNCHANGED <<listVars, processing, importing, callVars, backendVars>>

SaveStatus(p) ==
  /\ p \in Problems /\ DialogFree(p) /\ dialog.to # NoItem
  /\ Decide(p, "status", dialog.to) /\ UNCHANGED dialog

CancelDialog ==
  /\ dialog # Closed /\ processing # dialog.item /\ dialog' = Closed
  /\ UNCHANGED <<listVars, processing, importing, callVars, backendVars>>

(* handleFileUpload: a dataset for the master list; the institutions proposed *)
(* are not its matter.                                                        *)
ImportDataset ==
  /\ NoDialog /\ tab = "institution_master" /\ ~importing /\ importing' = TRUE
  /\ UNCHANGED <<listVars, processing, dialog, callVars, backendVars>>

Imported(ok) ==
  /\ importing /\ (ok => CanLoad) /\ importing' = FALSE
  /\ IF ok THEN LoadData("institution_master") ELSE UNCHANGED listVars
  /\ UNCHANGED <<tab, processing, dialog, callVars, backendVars>>
-------------------------------------------------------------------------------
(* The backend refuses only to approve twice.                                 *)
Verdict(c) ==
  [status |-> CASE c.do = "approve" -> "approved" [] c.do = "reject" -> "rejected" [] OTHER -> c.to,
   verified |-> IF c.do = "verify" THEN TRUE
                ELSE IF c.do = "unverify" THEN FALSE ELSE store[c.item].verified]

StoreDecision(c) ==
  /\ ~c.stored /\ ~(c.do = "approve" /\ store[c.item].status = "approved")
  /\ store' = [store EXCEPT ![c.item] = Verdict(c)] /\ log' = log + 1
  /\ calls' = (calls \ {c}) \cup {[c EXCEPT !.stored = TRUE]}
  /\ UNCHANGED <<listVars, buttonVars, begun, lost>>

(* A rejection or a status closes the dialog of its kind, whichever item it   *)
(* is open for by now.                                                        *)
SameDialog(c) ==
  dialog # Closed /\ TabOf(dialog.item) = TabOf(c.item) /\ c.do \in {"reject", "status"}

\* Mutant of Decided: the tab shown by now is loaded again.
Decided_TabOfNow(c) ==
  /\ c.stored /\ CanLoad
  /\ calls' = calls \ {c} /\ processing' = NoItem
  /\ dialog' = IF SameDialog(c) THEN Closed ELSE dialog
  /\ LoadData(tab)
  /\ UNCHANGED <<tab, importing, backendVars, begun, lost>>

(* The tab the decision was taken in is loaded again, and the buttons of      *)
(* whatever is under way are freed.                                           *)
Decided(c) ==
  /\ c.stored /\ CanLoad
  /\ calls' = calls \ {c} /\ processing' = NoItem
  /\ dialog' = IF SameDialog(c) THEN Closed ELSE dialog
  /\ LoadData(TabOf(c.item))
  /\ UNCHANGED <<tab, importing, backendVars, begun, lost>>

(* Refused, failed, or the answer is lost.                                    *)
DecisionFails(c) ==
  /\ calls' = calls \ {c} /\ processing' = NoItem /\ lost' = (lost \/ c.stored)
  /\ UNCHANGED <<listVars, dialog, importing, backendVars, begun>>
-------------------------------------------------------------------------------
DeskNext ==
  \/ Refresh \/ CancelDialog \/ ImportDataset
  \/ \E t \in Visited : ChangeTab(t)
  \/ \E l \in loads : ReadList(l) \/ Listed(l) \/ ListFails(l)
  \/ \E i \in Items : ApproveRequest(i) \/ ApproveInstitution(i) \/ OpenReject(i)
       \/ RejectRequest(i) \/ RejectInstitution(i)
       \/ ToggleVerify(i) \/ OpenStatus(i) \/ SaveStatus(i)
  \/ \E s \in Statuses : ChooseStatus(s)
  \/ \E ok \in BOOLEAN : Imported(ok)
  \/ \E c \in calls : StoreDecision(c) \/ Decided(c) \/ DecisionFails(c)

DeskSpec == DeskInit /\ [][DeskNext]_deskVars
-------------------------------------------------------------------------------
(* Once nothing is under way, the newest list of a tab shows what is stored   *)
(* of its own items, after any overlap of decisions and loads, of this tab    *)
(* and others: every decision, also one answered after the administrator went *)
(* elsewhere, is followed by a load that read after it.                       *)
ListCurrent ==
  \A t \in {"requests", "institution_requests", "moderation"} :
    calls = {} /\ loads = {} /\ ~lost /\ rows[t].newest => rows[t].seen = Reading(t)

(* The flags that hide the lists and disable the buttons are down when the    *)
(* requests they stand for are over, whatever failed.                         *)
FlagsFall ==
  /\ loads = {} => ~loading
  /\ calls = {} => processing = NoItem
===============================================================================
