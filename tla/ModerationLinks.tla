---------------------------- MODULE ModerationLinks ---------------------------
(* The panel the moderation list shows under each problem, second part: the   *)
(* links to similar problems, which the administrator merges or dismisses.    *)
(* It is on screen with the result of the analysis, and comes and goes with   *)
(* the panel; what it puts into the query cache stays.                        *)
EXTENDS Naturals, FiniteSets, QueryCache

CONSTANTS
  Candidates, Strong,  \* what a search finds, and those of it above the threshold
  MaxTried,            \* bound on the searches, merges and dismissals begun
  Nothing

ASSUME CandidatesAssumption == Strong \subseteq Candidates

(* What a search or the list of the links answers.                            *)
LinkLists == UNION {[S -> {"pending", "confirmed", "dismissed"}] : S \in SUBSET Candidates}
ASSUME LinksAssumption == NoData \notin LinkLists

VARIABLES
  panel,        \* the component's own state
  tried,        \* searches and resolutions begun
  links,        \* the cached query of the links
  stale,        \* it was invalidated while nothing showed it
  preview,      \* the cached answer of the "preview" search
  scans,        \* searches on their way
  resolutions,  \* merges and dismissals on their way
  link,         \* stored problem_duplicate_links
  merged,       \* the problem this one was merged into
  crossed,      \* the fetch under way read before a dismissal
  tainted       \* so did the answer that is cached

cacheVars == <<links, stale, preview, crossed, tainted>>
storeVars == <<link, merged>>
linkVars == <<panel, tried, cacheVars, scans, resolutions, storeVars>>

NoPanel == [mounted |-> FALSE, shown |-> FALSE, running |-> FALSE, merging |-> Nothing,
         dismissing |-> Nothing, compared |-> Nothing]

LinksInit ==
  /\ panel = NoPanel /\ tried = 0
  /\ links = [Opened EXCEPT !.fetch = "idle"] /\ stale = TRUE /\ preview = NoData
  /\ scans = {} /\ resolutions = {} /\ merged = Nothing
  /\ link = [c \in Candidates |-> "none"] /\ crossed = FALSE /\ tainted = FALSE

(* The links are fetched unless the cache holds them and they are less than a *)
(* minute old.                                                                *)
OpenPanel ==
  /\ ~panel.mounted /\ panel' = [NoPanel EXCEPT !.mounted = TRUE]
  /\ \/ links' = IF links.fetch = "idle" THEN Refetch(links) ELSE links
     \/ ~stale /\ links.data # NoData /\ links' = links
  /\ stale' = FALSE /\ crossed' = (crossed /\ links.fetch # "idle")
  /\ UNCHANGED <<tried, preview, scans, resolutions, link, merged, tainted>>

ClosePanel ==
  /\ panel.mounted /\ panel' = NoPanel
  /\ scans' = {[s EXCEPT !.live = FALSE] : s \in scans}
  /\ resolutions' = {[r EXCEPT !.live = FALSE] : r \in resolutions}
  /\ UNCHANGED <<tried, cacheVars, storeVars>>

(* The result of the analysis is there, or it is made anew.                   *)
ShowOrHide ==
  /\ panel.mounted /\ panel.compared = Nothing
  /\ panel' = [panel EXCEPT !.shown = ~@]
  /\ UNCHANGED <<tried, cacheVars, scans, resolutions, storeVars>>
-------------------------------------------------------------------------------
Shown == IF links.data = NoData THEN {} ELSE DOMAIN links.data

Scan(kind) ==
  [kind |-> kind, n |-> tried, live |-> TRUE, found |-> NoData, crossed |-> FALSE]

BeginScan(kind) ==
  /\ tried < MaxTried /\ tried' = tried + 1
  /\ scans' = scans \cup {Scan(kind)}

(* Without links to show, the same search is made for a preview, and again    *)
(* when the panel comes back after five minutes.                              *)
Preview ==
  /\ panel.mounted /\ ~panel.running /\ Shown = {}
  /\ \A s \in scans : s.kind # "preview"
  /\ BeginScan("preview")
  /\ UNCHANGED <<panel, links, stale, preview, resolutions, link,
                 merged, crossed, tainted>>

RunDuplicateCheck ==
  /\ panel.shown /\ panel.compared = Nothing /\ ~panel.running /\ BeginScan("check")
  /\ panel' = [panel EXCEPT !.running = TRUE]
  /\ UNCHANGED <<cacheVars, resolutions, storeVars>>

(* What a search stores and answers: those above the threshold are linked,    *)
(* the others are listed as pending without a link.                           *)
Found ==
  [c \in {c \in Candidates : ~(c \in Strong /\ link[c] = "dismissed")} |->
     IF c \in Strong /\ link[c] = "confirmed" THEN "confirmed" ELSE "pending"]

StoreScan(s) ==
  /\ s.found = NoData
  /\ link' = [c \in Candidates |->
                IF c \in Strong /\ link[c] = "none" THEN "pending" ELSE link[c]]
  /\ scans' = (scans \ {s}) \cup {[s EXCEPT !.found = Found]}
  /\ UNCHANGED <<panel, tried, cacheVars, resolutions, merged>>

Freed(s) == IF s.kind = "check" /\ s.live /\ panel.mounted
            THEN [panel EXCEPT !.running = FALSE] ELSE panel

(* The answer of a check becomes the list of links; a fetch goes on.          *)
Scanned(s) ==
  /\ s.found # NoData /\ scans' = scans \ {s} /\ panel' = Freed(s)
  /\ IF s.kind = "check"
     THEN /\ links' = [links EXCEPT !.data = s.found, !.failed = FALSE]
          /\ tainted' = s.crossed /\ stale' = FALSE /\ preview' = preview
     ELSE preview' = s.found /\ UNCHANGED <<links, tainted, stale>>
  /\ UNCHANGED <<tried, resolutions, link, merged, crossed>>

ScanFails(s) ==
  /\ scans' = scans \ {s} /\ panel' = Freed(s)
  /\ UNCHANGED <<tried, cacheVars, resolutions, storeVars>>

FetchLinks ==
  /\ Asked(links)
  /\ links' = Reads(links, [c \in {c \in Candidates : link[c] # "none"} |-> link[c]])
  /\ crossed' = FALSE
  /\ UNCHANGED <<panel, tried, stale, preview, scans, resolutions,
                 link, merged, tainted>>

LinksFetched ==
  /\ Answered(links) /\ links' = Shows(links) /\ tainted' = crossed /\ stale' = FALSE
  /\ UNCHANGED <<panel, tried, preview, scans, resolutions, link,
                 merged, crossed>>

LinksMissed ==
  /\ links.fetch # "idle" /\ links' = Misses(links)
  /\ UNCHANGED <<panel, tried, stale, preview, scans, resolutions,
                 link, merged, crossed, tainted>>
-------------------------------------------------------------------------------
(* The comparison shows the link as it was when it was opened.                *)
OfferedInComparison ==
  {c \in {panel.compared.candidate} : panel.compared.status = "pending"}

(* What is offered for merging or dismissing: the comparison covers the rest. *)
Offered ==
  IF ~panel.shown THEN {}
  ELSE IF panel.compared # Nothing THEN OfferedInComparison
  ELSE {c \in Shown : links.data[c] = "pending"}

Compare(c) ==
  /\ panel.shown /\ panel.compared = Nothing /\ c \in Shown
  /\ panel' = [panel EXCEPT !.compared = [candidate |-> c, status |-> links.data[c]]]
  /\ UNCHANGED <<tried, cacheVars, scans, resolutions, storeVars>>

CloseComparison ==
  /\ panel.shown /\ panel.compared # Nothing
  /\ panel' = [panel EXCEPT !.compared = Nothing]
  /\ UNCHANGED <<tried, cacheVars, scans, resolutions, storeVars>>

Resolve(do, c) ==
  /\ tried < MaxTried /\ tried' = tried + 1
  /\ resolutions' = resolutions \cup
       {[do |-> do, c |-> c, n |-> tried, live |-> TRUE, stored |-> FALSE]}
  /\ UNCHANGED <<cacheVars, scans, storeVars>>

Merge(c) ==
  /\ c \in Offered /\ panel.merging # c /\ Resolve("merge", c)
  /\ panel' = [panel EXCEPT !.merging = c]

Dismiss(c) ==
  /\ c \in Offered /\ panel.dismissing # c /\ Resolve("dismiss", c)
  /\ panel' = [panel EXCEPT !.dismissing = c]

Store(r) == resolutions' = (resolutions \ {r}) \cup {[r EXCEPT !.stored = TRUE]}

StoreMerge(r) ==
  /\ r.do = "merge" /\ ~r.stored /\ merged = Nothing /\ Store(r)
  /\ link' = [link EXCEPT ![r.c] = "confirmed"] /\ merged' = r.c
  /\ UNCHANGED <<panel, tried, cacheVars, scans>>

(* A candidate below the threshold has no link to dismiss.                    *)
StoreDismissal(r) ==
  /\ r.do = "dismiss" /\ ~r.stored /\ link[r.c] # "none" /\ Store(r)
  /\ link' = [link EXCEPT ![r.c] = "dismissed"]
  /\ crossed' = (crossed \/ Answered(links))
  /\ scans' = {[s EXCEPT !.crossed = @ \/ s.found # NoData] : s \in scans}
  /\ UNCHANGED <<panel, tried, links, stale, preview, merged, tainted>>

FreedOf(r) ==
  IF ~r.live THEN panel
  ELSE IF r.do = "merge" THEN [panel EXCEPT !.merging = Nothing]
  ELSE [panel EXCEPT !.dismissing = Nothing]

\* Mutant of Resolved: the links are not fetched again.
Resolved_NotRefetched(r) ==
  /\ r.stored /\ resolutions' = resolutions \ {r}
  /\ panel' = IF r.live THEN [FreedOf(r) EXCEPT !.compared = Nothing] ELSE panel
  /\ UNCHANGED <<tried, cacheVars, scans, storeVars>>

(* Only a query some panel shows is fetched again at once.                    *)
Resolved(r) ==
  /\ r.stored /\ resolutions' = resolutions \ {r}
  /\ panel' = IF r.live THEN [FreedOf(r) EXCEPT !.compared = Nothing] ELSE panel
  /\ IF panel.mounted THEN links' = Refetch(links) /\ stale' = FALSE
     ELSE links' = links /\ stale' = TRUE
  /\ UNCHANGED <<tried, preview, scans, link, merged, crossed, tainted>>

(* Refused, failed, or the answer is lost.                                    *)
ResolutionFails(r) ==
  /\ resolutions' = resolutions \ {r} /\ panel' = FreedOf(r)
  /\ tainted' = (tainted \/ (r.stored /\ r.do = "dismiss"))
  /\ UNCHANGED <<tried, links, stale, preview, scans, link, merged, crossed>>
-------------------------------------------------------------------------------
LinksNext ==
  \/ OpenPanel \/ ClosePanel \/ ShowOrHide \/ Preview \/ RunDuplicateCheck
  \/ FetchLinks \/ LinksFetched \/ LinksMissed \/ CloseComparison
  \/ \E s \in scans : StoreScan(s) \/ Scanned(s) \/ ScanFails(s)
  \/ \E c \in Candidates : Compare(c) \/ Merge(c) \/ Dismiss(c)
  \/ \E r \in resolutions : StoreMerge(r) \/ StoreDismissal(r) \/ Resolved(r)
       \/ ResolutionFails(r)

LinksSpec == LinksInit /\ [][LinksNext]_linkVars
-------------------------------------------------------------------------------
(* What the administrator dismissed is not offered again, by a search begun   *)
(* later, by the preview, or by the cache after the list took the panel away. *)
(* (A search or a fetch that read before the dismissal and arrives after it   *)
(* does offer it; so does the list after a lost answer, and a search for a    *)
(* candidate below the threshold, of which no link is looked up.)             *)
DismissedNotOffered ==
  \A c \in Strong :
    /\ resolutions = {} /\ links.fetch = "idle" /\ ~links.failed /\ ~stale /\ ~tainted
    /\ link[c] = "dismissed" /\ panel.compared = Nothing
    => c \notin Offered
===============================================================================
