# SamadhanX: a formal model of the collaboration platform

SamadhanX takes reports of civic problems from citizens, lets administrators
moderate and de-duplicate them, students form solution pods on them, faculty
mentor and review the pods, and industry partners fund them. The backend
(`backend/app`) is a FastAPI application on PostgreSQL with Celery workers for AI
analyses, duplicate detection and e-mail, and Redis for caches and rate limits.
The frontend (`frontend/src`) is a React application that keeps the server's
answers in a query cache and each user's session in the browser.

This directory holds TLA+ modules of the parts of both that decide something, TLC
configurations that check them on small instances, and TLAPS proofs of what
matters most.

Three facts about the code shape every module.

* **A request is a transaction of its own, READ COMMITTED, without locks.**
  `core/deps.py` gives each request one session and commits it at the end; no
  query uses `FOR UPDATE`, no row has a version column, and few of the rules are
  backed by a unique constraint. A handler therefore *loads and checks*, and
  *writes and commits* later, when other requests may have committed in between.
* **SQLAlchemy writes a column only when the assigned value differs from the one
  it loaded.** Assigning the status a row already had is no write, so whatever
  another request committed in between survives. The effects in the models take
  the loaded value as a parameter (`seen`, `reopens`) for this reason.
* **A page of the client acts on what it read last.** Between the answer a page
  shows, the request it sends and the answer to that, every other request of the
  page may be sent, stored and answered, in any order, and any answer may be lost.
  A request of a page is therefore *sent*, *stored* and *answered* in three steps,
  of which the last two may fail, and every list is *asked for*, *read* and *shown*.

## 1. Inventory

| component | state | operations | talks to |
|---|---|---|---|
| Solution pods (`project_service`, `review_service`) | `problems.status`, `solution_projects` (status, lead, mentor, university), `project_members`, `project_reviews` | pick a problem, add a member, submit for review, review | problems, faculty, industry (a pod in pilot is on offer) |
| Faculty (`endpoints/faculty.py`) | `faculty_mentor_id`, `university_id` of pods | adopt, relinquish, review | pods |
| Student workspace (`endpoints/student.py`) | `impact_reports`, answers to offers | pick, report impact, answer an offer, engineering log, recommendations | pods, industry |
| Industry (`industry_service`, `industry_repository`) | `industry_supports`, `funded_project_comments` | offer, withdraw, comment; legacy intent and status update | pods (vetting), student workspace |
| Duplicates (`ai_engine/services/duplicate_service.py`) | `problem_duplicate_links`, `problems.duplicate_of_id`, embeddings | detect, dismiss, merge | problems, endorsements, Celery |
| Problems and moderation (`problem_service`, `endpoints/admin.py`) | `problems`, `problem_endorsements`, comments, media | submit, moderate, endorse, delete, comment | everything above |
| AI analyses (`ai_orchestrator`, `tasks/ai_moderation_task.py`) | `problem_ai_analyses`, `problems.ai_insight`, Celery messages | analyse on submission, on demand, retry | problems, Celery |
| Accounts, OTP, tokens (`endpoints/auth.py`) | `users`, `otps` | register, verify, resend, login, refresh, approve | Redis, e-mail, the browser session |
| Faculty invitations (`endpoints/university.py`, `auth.py`) | `faculty_invitations`, `users` | invite, resend, revoke, accept, create directly | e-mail |
| Institutions | `institution_master`, requests, sync runs | request, verify, synchronise | Celery, the administrator's desk |
| Recommendations, chat, social, notifications, rate limits, other AI services | caches, messages, connections, counters | mostly one row per request | Redis, providers |
| Browser session (`api/client.ts`, `store/authStore.ts`, `LoginPage`) | tokens and user per tab and in `localStorage`, `isRefreshing`, `failedQueue` | sign in and out, attach a token, renew it on 401, replay, restore on page load | `/auth`, every page |
| Query cache (`lib/queryClient.ts`, the library behind it) | answers by key, fetches under way | fetch, invalidate, set | every page |
| Own profile (`ProfilePage`, `useProfile`) | dialog, `isSaving`, `isUploadingAvatar` | edit, save, upload a photo | cache, top bar |
| Reporting (`CreateProblemCard`, `useDuplicateCheck`, `SmartProblemAssistant`) | form, uploads, warning, chat session and draft | type, attach, locate, search for similar, chat, publish | problems, assistant and duplicate services |
| Feed post (`ProblemPost`, `PostActions`, `PostComments`, `PostHeader`) | heart, bookmark, thread, edit dialog | like, save, comment, edit, delete | cache, problems |
| Administrator's desk (`AdminDashboard`, `AIModerationCard`, `useAIAnalysis`) | lists, `processingId`, analysis, links | decide, verify, change status, analyse, search, merge, dismiss | problems, institutions, analyses, duplicates |
| Pod workspace (`ProjectWorkspacePage`) | three queries, five mutations, a draft | submit, log an update, add a member, answer an offer, report impact | pods, offers |
| Mentor's desk (`FacultyDashboard`, `AIReviewAssistantModal`) | lists, review form and its draft, suggestions | adopt, review, analyse, insert | pods, reviews, the review service |
| Other pages | forms and lists | send once, read once | the endpoints above |

What is hard in them, and what makes them correct:

* **Pods.** Reviews, submissions, adoptions and moderation of the same pod
  overlap. A pod must not be offered to industry without an approval, its status
  must follow the newest verdict, it must have one mentor and one university that
  fit, and a closed problem must not get new pods.
* **Offers.** Two generations of endpoints on one table; a withdrawal and an
  answer race. An answer must be final, only funders may comment, and a funder
  must keep access.
* **Duplicates.** A background search, dismissals, merges, endorsements and
  deletions touch the same rows. Merging must be acyclic and final, take the
  supporters along, and human dismissals must outlive automatic reruns.
* **Analyses.** Celery tasks are queued before the commit they depend on; workers
  die, requests time out, tasks are retried. Each submission must be analysed,
  once per task, and nothing unfinished may be shown.
* **Invitations.** Two universities may invite one address; acceptances,
  withdrawals, renewals and the expiry written by a look at a link overlap. One
  account must come of them, of the right university, the mailed link must work,
  and an acceptance must last.
* **Browser session.** Any number of requests meet an expired token at once, one
  renewal must serve them all, and tabs overwrite each other's `localStorage`. No
  request may be answered for another account than it left with, and none may wait
  for a renewal nobody makes.
* **Pages.** Overlapping mutations, snapshots put into the cache, and fetches that
  read before and arrive after them. At rest a page must show what is stored; a
  spinner must end; nothing may be published, dispatched or decided twice, or for
  another row than the one on screen; text typed must not be lost.

`PROJECT.json` lists every component with its sources, and the hazards line by
line.

## 2. Modules

```
PodRows  <-- PodContract                    OfferRows <-- OfferContract
   ^             ^                              ^              ^
   '-- PodWorkflow ...INSTANCE...'              '-- OfferWorkflow ...INSTANCE...'
          ^                                             ^
   PodWorkflow_proofs, MCPodWorkflow            OfferWorkflow_proofs, MCOffers

DuplicateMerge <-- DuplicateMerge_proofs, MCDuplicates
AIModeration   <-- AIModeration_proofs, MCAIModeration

BrowserSession ...INSTANCE... TabAccounts
   ^
   BrowserSession_proofs, MCBrowserSession

QueryCache <-- ProfilePage, MentorDesk              FacultyInvitations
                    '-- MCPeople ------------------------'
           <-- FeedPost, PodWorkspace, ModerationLinks
                    '-- MCProblems <-- ReportCard, GovernanceDesk, ModerationAnalysis
ReportForm <-- ReportAssistant <-- ReportCard
ProfilePage, MentorDesk, FacultyInvitations <-- People_proofs
FeedPost <-- FeedPost_proofs;   MCProblems, FeedPost_proofs <-- Problems_proofs
```

### Backend

Pods and offers are split three ways. The `...Rows` module has the tables as
variables and, for every handler, what it checks (`...Guard`) and what it writes
(`...Effect`). The `...Contract` module runs each handler in one step: it is the
abstract specification, the behaviour of a deployment that serves one request at
a time. The `...Workflow` module runs each handler in two steps, `Begin...` (load
and check, remembered in `request[w]` for session `w`) and `Finish...` (write and
commit), with `Rollback` possible in between. With one session the workflow
implements the contract (`ImplementsContract` of the pods, `ImplementsOfferContract`:
the read and the rollback stutter, the commit is the handler); with two, the run shows what is left of its promises.

**PodRows** — `problemStatus`, `pods` and the columns of a pod, `members`,
`reviews` (the decisions recorded), `verdict` (the newest one that is not
"pending"), `reports`. `PickEffect` creates the pod with its lead as a member and
moves the problem on from the two statuses the code names; `StatusAfter` is the
transition table of `review_service.py`; `ReviewGuard` has no condition on the
pod's status because the code has none. Nothing in the program sets a pod to
`completed`; the tests write it into the table, so `CompleteEffect` is marked
external and taken from a pod in pilot.

**OfferRows** — `offer` (the table), `vetted` (pods in a faculty-approved status),
`comments`, and the history variable `funded` (who ever had an offer accepted
where), which no action reads. `LegacyPods` are the pods on which somebody still
uses the legacy endpoints, which check nothing; the promises are stated for the
others. `VettingEffect` is the shadow of `PodRows!ReviewEffect`.

**DuplicateMerge** — `status`, `duplicateOf`, `link`, `endorsed`, `problems` (rows
not deleted) and the requests in flight. Commits that insert an existing row,
refer to a deleted problem or update a deleted row are refused by the database, so
the effects have these conditions and such a request can only roll back. `Chain`
is what the loop of `merge_problems` over `duplicate_of_id` visits: the least set that
holds the problem merged into and is closed under merging.

**AIModeration** — one problem with its Celery messages (`task`), analyses
(`analysis`, versions included), the insight shown, and the sessions that analyse:
the worker and administrators. An analysis is load, insert RUNNING and commit,
outcome and commit, read back and answer, as in `analyze_problem_moderation`: a fault
between the last two makes the task start over with nothing RUNNING to stop it
(`ai_orchestrator.py:145-146`, `ai_moderation_task.py:61`). A message is acknowledged
when taken (Celery's default), retried with a bound, and delivered again only after
a delay of 10 s and more, which is taken to outlast the submitting request.
`faults`, `overlapped` and `unheard` are history variables: the first counts crashes,
time-outs and refused messages and bounds them, the second records whether two
analyses have ever overlapped, the third which outcomes were committed and then struck
by a fault; no outcome depends on the last two.

**FacultyInvitations** — the invitations of one address (`invitation`, oldest
first), who made its account (`holder`), and what each request in flight is about
to write (`handled`). Loading keeps of a row only what decides the writing: whether
a renewal puts the status back to pending, the status a revocation or an expiry
writes. Links are numbered in the order of their commits. `AddressFree` is the
unique constraint on `users.email`, which alone decides between two acceptances.
Deleting the account frees the address and leaves the invitation accepted; `former`
is a history variable that remembers such rows.

### Web client

**QueryCache** is what the pages rely on of the query library: a query is the data
shown, its failure, and the fetch under way, which is *asked* before and *read*
after the server looked at its rows. `Refetch` (invalidation) gives a fetch up for a
new one; `SetData` does not, so a snapshot may be overrun by an older fetch.

**BrowserSession** — token pairs are numbered (`owner`, `live`); `storage` is the
`localStorage` all tabs share, `store[t]` the memory of a tab, and `req[t][r]` a
request with the pair it left with. `Intercept` is the response interceptor on a
401: the first request raises `refreshing[t]`, the others queue, `Refreshed` replays
them or ends the session. Every link of the client loads a page anew (`Leave`), which
restores the session from storage. **TabAccounts** is its abstract specification:
who each tab acts for, what it renews, and whose session the browser keeps. That a
page never changes accounts except by signing in or out, renewing what it had, or
loading anew is what the refinement says; that a renewal's result overwrites the
browser's session even when another account has signed in meanwhile is part of it,
because the code does that.

**ProfilePage** — the stored profile, the queries of the page and of the top bar, the
dialog, and the saves and uploads on their way, in the four views the page has.
`Fields`, `Shown` and `SaveRefetches` say per view what is edited, what is shown from
which query and what a save invalidates, where the four differ.

**ReportForm, ReportAssistant, ReportCard** — the report card: the form with its
debounced search for similar reports (answers kept by the key the hook builds),
uploads, location and publishing; the assistant's session, draft, attachments and
restarts; and the card that switches between them.

**FeedPost** — one post: the stored problem, the list query it is shown from, the
thread, `PostActions`' own copies (heart, number, bookmark), the comment box, the edit
dialog and the requests under way (`acts`). The lists are cached by tab and category:
`other` is one not shown, with the fetch it may still have under way and, in `outdated`,
whether it has been invalidated; `SelectFeed` goes back to it as it was left or opens a
new one. A post that both lists show keeps its state, as React keeps an element of the
same key; otherwise it is mounted anew from the row the list has, an old one perhaps.
`blur` records which parts something has put out of step that the code does not repair
(a lost answer, a post mounted from an old row or with a request on its way, an answer
of the other list that is older than the change): it only grows, no action reads it,
and the properties name their exceptions through it.

**PodWorkspace** — the stored pod, offers and impact report; three queries; five
mutations with one request each; and mentors, partners and the operator changing the
rows meanwhile. A submission, an answer to an offer and a report are checked in one step
and stored in another, over whatever was committed in between. `missed` and `overrun` are history variables like `blur`.

**GovernanceDesk, ModerationAnalysis, ModerationLinks** — the administrator's page:
the lists of the tabs with loads and decisions that overlap; the panel of a problem's
analysis, mounted and unmounted by every reload of the list; and the panel of its
duplicate links, whose cache outlives it.

**MentorDesk** — the three lists, adoptions checked in one step and stored in another,
pods that others adopt or give back at any time, the review form with its draft, and the
assistant that writes into it. A draft is the set of pods its text is about, which is all that
"for the pod under review" needs.

**MCPeople** and **MCProblems** put parts side by side that do not share state: the
variable `part` chooses one at the start and the others stay as they are. This is one
run over several independent systems, not a composition. `MCProblems` starts from the
richest of the states its modules allow: the reader's own post, liked, in a list left
before; a completed pod whose offers are withdrawn (the pod in progress has them pending).

Names are those of the source: handlers, columns and enum values are spelled as
the code spells them. `PROJECT.json` maps every definition to the lines it stands
for. A definition named `Something_Variant` is a deliberately wrong version of
`Something`, kept to show that the properties notice.

## 3. Runs

| run | instance | what it shows |
|---|---|---|
| `overlap` | 1 student, 1 faculty member, 1 pod, 2 sessions | types; `VettedByReview` survives every overlap |
| `serial` | 2 faculty members of different universities, 1 student without one, 1 administrator, 1 session | the two-step handlers implement the contract; `VettedMatchesVerdict`, `MentorFromPodUniversity` |
| `offers_serial` | 2 partners, 1 current and 1 legacy pod, 3 offers, 1 session | the handlers implement `OfferContract` (`ImplementsOfferContract`); `AnswersAreFinal` |
| `offers_overlap` | 1 partner, 2 pods, 3 offers, 2 sessions | `CommentsFromFunders`, `PendingWithinSessions` |
| `merge_serial` | 3 problems, 1 endorser, 1 session | `NoMergeCycle`, `EndorsersFollow` |
| `merge_overlap` | 2 problems, 1 endorser, 2 sessions | `MergedHasLink`, `DismissalDurable` |
| `analyses` | the worker, 2 administrators, 2 + 2 analyses, 2 faults | `InsightFromCompleted`, `OneTaskAnalysis`, `OrphansFromFaults`, `VersionsInOrder`, and the liveness property `SubmissionAnalysed` |
| `session` | 2 tabs, 2 accounts, 3 token pairs, one request of the page besides sign-in and restoration | the refinement of `TabAccounts`; `RenewalsServe`, `OwnAnswers`, `RightUserShown` |
| `people` | each of: the four profile views, 2 saves or uploads; a mentor with 2 pods, 2 requests; 2 universities, 2 sessions, 3 links | `PageSettles`; `DashboardKeepsUp`, `SuggestionsOfPod`; `AcceptedOwns`, `AcceptanceLasts` |
| `problems` | each of: a report filled twice, with 2 searches or 2 assistant sessions; a post in 2 lists, 2 requests or changes of list; a pod workspace, 2 requests and one step of others; the desk, 2 decisions and 3 loads; 3 analyses; 2 candidates, 3 searches or resolutions | report: `WarningMatchesText`, `PublishedOnce`, `OneConversation`; post: `PostKeepsUp`, `CopiesAgree`; workspace: `OwnChangesShown`; administrator: `ListCurrent`, `NewestRunShown`, `DismissedNotOffered`; all of them: `SpinnersEnd` |
| `search_lost`, `old_feedback` | smallest instance; that of `problems` | counterexamples, section 4 |

`SpinnersEnd` says of the report's assistant, a post and the analysis panel that a spinner
or a disabled button is up exactly while the request it stands for is under way, and of
the administrator's lists only that none stays up once nothing is under way: there the
first of several loads lowers the flag (`AdminDashboard.tsx:167`), and any decision frees
the buttons of all (`:198`). It is the conjunction of what each module says of its own
flags (`ThinkingEnds`, `PostBusy`, `PanelAnswers`, `FlagsFall`).
The type invariants of offers, duplicates, analyses and sessions are proved, not run.

**Bounds.** Two sessions are enough for a lost update or a stale check, which
involve one reader and one writer; the workflow has no rule that counts sessions.
`PendingWithinSessions` is the exception, it counts them, and is stated in terms
of `Workers`. One pod is enough where a property speaks of one pod. Three problems
make a chain of two merges, the shortest on which looking at the first hop only is
wrong. Three offers let a partner be declined, accepted and offer again. Two analyses
of the task suffice to violate "at most one"; two by administrators let one overtake the
other, or one be abandoned and one follow. Two faults allow a crash of a retry. Two
tabs, one of which signs in as somebody else while the other renews, are the smallest
case of tabs in each other's way; three pairs are a sign-in, a second one and a
renewal, in any order. On a page two requests of its own, one overtaking the other,
cross the fetches both start; three links renew one invitation twice at once. The last
exception of `PostKeepsUp`, an answer of the list left that is older than the change, is
within that bound only if that list's fetch is under way at the start, which the run
does not begin with: it takes a third step, for which the proof stands in.
Every counter is bounded by a CONSTANT a guard uses: `PodIds`, `OfferIds`, `TaskRuns`,
`AdminRuns`, `MaxFaults`; `MaxPairs`; `MaxCalls` (saves and uploads of a profile page),
`MaxAsked` (requests of the mentor's desk), `MaxLinks`; `MaxFills`, `MaxAnswers`,
`MaxSessions` (reports begun, searches, assistant sessions); `MaxActs` (requests on
a post and lists left); `MaxRequests`, `MaxElsewhere` (workspace, steps of others);
`MaxDecisions`, `MaxLoads`; `MaxRuns`; `MaxTried`. `MaxTags` stands for the limits of
10 interests and 25 skills. `ReviewInputs` and `ModerationInputs` choose
what reviewers and administrators send; the decision "pending" changes nothing but
the set of reviews and is left out of the runs. Symmetry is used over sessions,
endorsers, offers, partners, tabs, accounts and inviting universities, which no definition tells apart, and never
in a run with a liveness property. (The predicates of its action properties are
symmetric, too.)

**Deadlock.** It is checked in `overlap`, `serial`, the two offer runs and `session`.
It is off where the system of the instance comes to an end: in the two merge runs every
problem may have been deleted; in `analyses` and `search_lost` the bounded analyses, in
`people`, `problems` and `old_feedback` the bounded requests of a page may be used up.

**Fairness.** In `AIModeration`, requests end (`EndSubmission`), Celery
delivers what is queued to a worker that runs, and an analysis that is running is
inserted, settles and is answered (every exception is caught and stored; a run that hits
the time limit of its task or request is a fault). Nothing is assumed of people: administrators need not analyse
anything, and faults need not occur. `SubmissionAnalysed` is claimed for behaviours
without faults, as a killed worker loses its message.
`BrowserSession` states the fairness of its scheduling too: the browser answers or
times out every request (the client's limit is 15 s), runs its callbacks, and finishes a
page load. Its properties are safety properties and do not use it; that nobody waits
for ever is stated as `RenewalsServe`, which says what is being waited for. The
pages' modules have none: what they say holds "when nothing is on its way any more",
and their users need not do anything.

## 4. Where the code and its documentation disagree

Two runs end in a counterexample to something a comment or a label of the
repository says:

* `search_lost`: the search for duplicates is queued before the submission
  commits; delivered early it answers "problem_not_found", which is no error, so it
  is not retried and the problem is never searched. (The analysis queued beside it
  raises in the same situation and is retried: `SubmissionAnalysed` holds.)
* `old_feedback`: the workspace's banner, labelled "Latest faculty review
  feedback", shows the first of the reviews in an order the backend does not state
  (`ProjectWorkspacePage.tsx:278`, `models/project.py:61`): after a second review it is
  the first one.

What follows was met while modelling. Most of it is visible in the models: a serial
property fails with a second session, or a property of a page names the exception.

**Pods, offers, duplicates** (set `Workers = {w1, w2}` in the serial configuration):

* `VettedMatchesVerdict`: a review assigns the status its decision stands for. If
  the pod had that status when loaded, nothing is written; an approval that commits in
  between then leaves the pod in pilot although the newest decision is "changes
  requested". A submission checked before a review commits likewise writes "review"
  over the verdict (`project_service.py:245`).
* `MentorFromPodUniversity`: two faculty members adopt a free pod at once; the later
  commit replaces the earlier mentor, and the university is written only by the one
  that loaded none (`endpoints/faculty.py:249-270`).
* `ImplementsContract`, `ImplementsOfferContract`: a problem is closed, or loses its
  approval, between the check and the commit of a pod or an offer; a double click creates two pods.
* `AnswersAreFinal`: a withdrawal and an acceptance that overlap both succeed, the
  later commit wins (`industry_service.py:264`, `:277`).
* `FundersHaveAccess` (of `OfferContract`; in one session, add it to `offers_serial` as
  an INVARIANT): only a *pending* offer blocks another one, so a partner whose offer was
  accepted may offer again, and after a second acceptance `has_accepted_offer` meets two
  rows where it expects at most one and raises: the partner is locked out of the pod
  it funds.
* `NoMergeCycle`: two merges in opposite directions both pass the cycle check and
  leave two problems merged into each other. `EndorsersFollow`: an endorsement given
  while a merge is in flight stays with the merged problem; without overlap, merging
  into a problem that has itself been merged leaves the endorsements there, as the
  transfer stops at the target and does not follow its chain.
* Rejecting a pod frees its lead for another pod on the same problem, and a later
  review may reopen the first: two active pods (`review_service.py:96`).
* A failure after an outcome's commit, of the `refresh` that follows it for one, has the
  task analyse again: the guard of a retry looks for RUNNING only
  (`ai_orchestrator.py:145-146`, `ai_moderation_task.py:61`). `OneTaskAnalysis` and
  `InsightFromCompleted` name this exception.
* An administrator's analysis that overlaps another may finish later with a lower
  version and replace the newer insight; RUNNING rows left by a crash or a
  time-out stay for good, and the Celery task skips as long as one is there.
* `docs/error-codes.md` speaks of at most 6 members (line 79), of students only
  (line 74) and of a link that cannot be reviewed twice (line 140); the code has none
  of these checks. It speaks of one active pod per *lead* (line 69) where the code
  counts membership as well. No code sets a pod to `completed` or a problem to `solved`
  in response to an impact report, though the submitter is told that it is.

**Invitations** (`university.py`, `auth.py`): invite, revoke, invite, resend of the first
leaves two pending invitations, and every later invite of the address fails on a query
that expects one row (`:71`). An expiry that was read before a resend is written after
it and leaves a mailed, working link on an expired row. An acceptance that overlaps a
revocation succeeds, and the row says "revoked". Of two overlapping resends the link
mailed last may be the one that is not stored. Deleting an account leaves its invitation
accepted and frees the address for another one (`settings.py:34-41`).

**Browser session**: without a refresh token the first 401 leaves `isRefreshing` raised
and later ones wait for ever (`client.ts:72-78`). The request interceptor replaces the
Authorization header that the sign-in page sets (`LoginPage.tsx:34-36`,
`client.ts:18-21`). A renewal answered after the user signed out stores its pair again,
until the page is left.

**Profile page**: a comment says that emptied fields are cleared (`ProfilePage.tsx:142`),
but `v || undefined` leaves them out of the request. The completion of a save closes
the dialog even if it was closed and opened anew since. In the citizen and shared
views an upload takes the mutation hook over and frees "Save" while a save is under
way, so that two saves may be stored in the wrong order.

**Reporting**: the location found overwrites a place typed meanwhile; an upload or a
location that arrives after publishing goes into the next report; what was typed while
publishing is erased; the category is sent with the duplicate search but is not part of
its key; a report whose answer was lost is published again by the retry; a restart of
the assistant that fails leaves the old session under an empty chat.

**Feed post**: a comment whose request crosses a fetch of the thread vanishes or is
doubled; an own comment is cached already formatted and formatted again ("Community
Innovator", "Recently"); heart, number and bookmark are copied once and not corrected by
later lists, also when a tab gone back to within a minute, or before its fetch ends, mounts
the post from the row it had; the bookmark shows the answer that comes last. The edit dialog takes a
second save before the first is answered, which may be stored first. A feed that fails to
load looks empty. Several paths the navigation offers (`/report`, `/verification`,
`/universities`, `/solutions`) have no route and lead to the feed.

**Administrator**: an older list that arrives last is shown until the next load; one
`processingId` stands for all decisions; the badge button writes the status of its row
back, over a status decided meanwhile; the category accepted on the analysis card is
never sent. "Run Duplicate Check" lists candidates below the threshold as pending links
with invented ids, whose dismissal answers 404 (`AIModerationCard.tsx:92`), and its answer
may offer a dismissed link again.

**Workspace and mentor's desk**: a refetch that fails replaces the workspace by "Pod Not
Found"; the copy of the pod in a submission's answer may hide an update or be overrun by
an older fetch; an impact report whose answer was lost can be neither repeated nor
edited until a reload. A submission or an answer given up and sent again, or overlapping
a review or a withdrawal, is written over what was committed after its check
(`project_service.py:233-250`, `student.py:294-339`), and so is an adoption over another
mentor's (`faculty.py:242-298`): the models have these steps and no property denies them. Cancelling the review form keeps draft and decision, so that the
text about one pod is dispatched for the next; the first of two adoptions to end frees
the other's button. "Both sides update" (`FacultyDashboard.tsx`) holds for the caches of
one's own browser only.

## 5. What is proved

TLAPS checks the proofs for every value of the constants that satisfies the named
assumptions. Every safety property and action property that a run checks, and all three
refinements, are stated by a theorem; `tlapm <module>` checks each module on its own.

The assumptions are of three kinds. Some say of the model's stand-ins that they differ
from real values, as the code's `null` and `undefined` do: `NoneAssumption`,
`SessionsAssumption`, `SessionAssumption`, `SendersAssumption`, `MentorAssumption`,
`DashboardAssumption`, `LinksAssumption`, `WorkspaceAssumption`, `ProfileAssumption`,
`PostAssumption` and `RunsAssumption` (of `ModerationAnalysis`). Some type the inputs:
`RolesAssumption`, `InputsAssumption`, `RunsAssumption` and `FaultsAssumption` (of
`AIModeration`), `LegacyAssumption`, `CandidatesAssumption`, `VisitedAssumption`,
`TextsAssumption`, `PlacesAssumption`. And `OfferIdsAssumption` and `WorkersAssumption` say
that offers and sessions are finitely many, which the theorem that counts them needs. The
bounds of the runs (requests, pairs, runs, faults) are constants too, so the theorems
hold for any of their values.

Theorems whose name begins with `Serial` have the hypothesis `OneSession`, that requests
are served one at a time. It cannot be dropped: with two sessions each of these
properties is false, as section 4 says, and so they tell which promises are lost to
overlap alone.

**PodWorkflow_proofs**, for any number of overlapping requests:

* `TypeCorrect`. `BeginTyped` gives the record every load puts in flight,
  `CommitTyped` that every commit of a typed record keeps the rows typed.
* `OnlyVettedPods` (`VettedByReview`). The property is not inductive: a request
  that has found its pod completed has still to insert the report, so the
  strengthening `IInv` adds that the pod of every impact report in flight has an
  approval on record. Approvals are never removed, and a review writes "pilot"
  only together with one.

With one session, from `SerialInv`: the types, that what a request in flight has checked
and loaded still holds (`Fresh`), and that a vetted pod has its approval on record and as
its newest verdict (`FollowsVerdict`):

* `SerialImplementsContract` (`ImplementsContract`). The operator may complete a pod
  between the halves of a review; that the approval of such a pod is then a stutter
  needs `FollowsVerdict`.
* `SerialVerdicts` (`VettedMatchesVerdict`) and `SerialMentors`
  (`MentorFromPodUniversity`: the university an adoption writes, if any, is decided by
  the one it loaded, which `Fresh` says is still the pod's).

**OfferWorkflow_proofs**, for any number of sessions:

* `TypeCorrect` needs that the offer of a status write in flight exists
  (`OffersInFlight`); `OnlyFundersComment` (`CommentsFromFunders`) that the pairs of
  comments in flight and of approved offers are among the funders.
* `PendingBounded` (`PendingWithinSessions`): with n sessions, at most n offers of a partner
  are pending on a pod. `PendingInv` counts a session that has passed the check for
  duplicates as an offer already, since it will insert one; that nothing else makes an
  offer pending on a pod without legacy endpoints is its second conjunct. The counting
  uses the library's facts on finite sets.

With one session, from `SerialInv` (the same idea of `Fresh`): `SerialImplementsContract`
(`ImplementsOfferContract`) and `SerialAnswersFinal` (`AnswersAreFinal`), one lemma per handler
(`HandlersKeepAnswers`) on the steps of the contract that the workflow implements.

**DuplicateMerge_proofs**: `TypeCorrect`, `MergesOnRecord` (`MergedHasLink`, inductive with
the types, resting on the unique constraint for links and the foreign key) and
`DismissalsLast` (the action property `DismissalDurable`). With one session,
`SerialNoCycle` (`NoMergeCycle`) and `SerialEndorsersFollow` (`EndorsersFollow`). A chain is
the set of problems in every closed set, so that no induction along it is needed: to
show that p is not on the chain of t it is enough to name one closed set that has what
t is merged into and not p (`ApartIsOffChain`). The check of a merge gives such a set for
its target, and it stays closed with the merged problem added (`MergeKeepsAcyclic`).

**AIModeration_proofs**. `TypeOK` is not inductive by itself: finishing an analysis
changes the status of a row, which is a row again only if there was one. `OwnRows`
adds that a running session's row exists, is RUNNING and is its own, and that the row of
a stored outcome is settled and its own until it is answered. Effects of the
steps on sessions and rows are lemmas (`LoadEffect`, `InsertEffect`,
`StoreEffect`, `FinishEffect`, `AbortEffect`); each invariant then has one step for each.

* `ShownWasCompleted` (`InsightFromCompleted`), from `OwnRows`.
* `TaskAnalysesOnce` (`OneTaskAnalysis`), from `TaskOnce`, which speaks of the task's rows
  no fault struck after their outcome (`Heard`): the worker is busy only with a message
  it has taken, has loaded only if there is no such row, and such a row is RUNNING, or
  about to be answered, until the task is over. The guard that skips while something is
  RUNNING then stops every retry, except after such a fault.
* `InsightIsLatest` (`VersionsInOrder`), from `Ordered`: as long as analyses do not
  overlap, a loaded version is above all existing ones and the running row is the
  latest.
* `OrphansAreFaults` (`OrphansFromFaults`): a step adds at most one abandoned row,
  and only if it is a fault.

**BrowserSession_proofs**. `Types` gives every variable its type, and `Apart` adds what
keeps tabs and accounts apart: one refresh per tab, with everything that waits behind a
raised flag (`Refreshes`); a sign-in only on the sign-in page (`SignIns`); and that all a
page other than that one holds and sends belongs to one account (`OneAccount`).

* `RefreshesOnce`, `NobodyWaitsAlone` and both as `OneRenewalServesAll`
  (`RenewalsServe`).
* `AnsweredAsSent` (`OwnAnswers`), from `OneAccount`.
* `OwnUserShown` (`RightUserShown`). What a page shows after a restoration is decided by
  what is under way before: the invariant `Shown` adds that a restoration asks for the
  account the page has (`OwnProfile`), and that a refresh renews the session the page
  has, or one a failed restoration took away, with nobody shown until the page is
  loaded anew (`OwnRenewal`). A page being left is exempt, as the property says:
  a renewal answered after the sign-out does bring the old pair back.
* `SessionsImplementAccounts` (`ImplementsAccounts`): tabs, `localStorage` and renewals do
  to the accounts what `TabAccounts` says, by one lemma per action; `RenewalRead` says
  which account is being renewed in terms of the tab's one refresh.

The pages share one argument. A property says that at rest the page shows what is
stored; the invariant says where the news is while it is not at rest: a request that is
stored and whose answer will start a fetch, a fetch that is asked and has not read, one
that has read the stored rows, or the data shown; or else a history variable records
the exception the property names. One lemma per step then shows that the news passes
from one of these places to the next and is never lost.

**FeedPost_proofs**. `ListKeepsUp` (`PostKeepsUp`) rests on `RowInSight`, which is this
argument for the list shown and for the other one, which may be behind if it is marked so
or has no answer, since it is then fetched when it is shown again. `ButtonsFollow` (`PostBusy`) needs that at most one request of each button is
live (`OneEach`), that none is when the post is off the page (`OffPage`), and that a closed
thread posts nothing (`ClosedIdle`). `CopiesFollow` (`CopiesAgree`) rests on `CopiesInv`:
heart, number and bookmark follow what is stored up to the requests of their own button
(`HeartFollows`, `BookmarkFollows`), as the post is only mounted from what is stored unless
`blur` says otherwise (`InPlace`); the thread, and a fetch of it that has read, hold
the stored comments up to those stored and not answered, each of which has its own
number (`Numbered`, `ThreadFollows`).

**People_proofs**:

* Mentor's desk. `SuggestionsApart` (`SuggestionsOfPod`) rests on `AboutOwnPod`, that what the assistant shows and the live
  analysis are about the pod whose form is open. `DeskAtRest` (`DashboardKeepsUp`) rests on
  `DeskInv`: the argument above (`Current`), and that nothing is sent from a page
  that has shown no list yet (`Loaded`), so that a first fetch never holds back the one
  that follows a success.
* Invitations. `OneAcceptance` (`AcceptedOwns`) from `InviteInv`: that no two acceptances
  stand (are not of an account deleted since) rests on the account, which has one address
  (`OneOwner`). `AcceptanceKept`
  (`AcceptanceLasts`): no request in flight when a row is accepted for good writes it.
* Profile page. `ProfileAtRest` (`PageSettles`) from `ProfileInv`, whose `Agrees` is the
  argument above for each field and each query that shows it, in all four views.
  `ViewFacts` is all that is used of how the views differ.

**Problems_proofs**, the parts of `MCProblems`:

* Report: `WarningFollows` (`WarningMatchesText`) from `SearchInv`, that an answer found
  under a key is about that key and, with no change pending, the key is the one on the
  screen; `SessionsApart` (`OneConversation`) from `ChatInv`, that one answer is awaited at
  most and it is of the session; `StoredOnce` (`PublishedOnce`) from `PublishInv`: no two
  requests publish the same filling of the form and, unless an answer was lost, what is
  on its way or may still be sent is not stored already.
* Administrator: `ListsFollow` (`ListCurrent`) from `DeskListsInv`, the argument above for
  loads that overlap; `DismissedStay` (`DismissedNotOffered`) from `LinksInv`, which
  says it of every answer that may still be shown (`AnswersSpare`); `SpinnerStands` and
  `NewerRunsOnly` (`NewestRunShown`) from `AnalysisInv`, that a live answer holds a run no
  older than the one shown (`AskState`).
* Workspace: `LeadSeesOwnChanges` (`OwnChangesShown`) from `WorkspaceInv`, the argument above
  for pod, offers and impact report (`PodInSight`, `OffersInSight`, `ImpactInSight`).
* `AllSpinnersEnd` (`SpinnersEnd`) of the whole of `MCProblems`: every part steps as it would
  alone (`PartsAlone`), so that it has what is proved of each.

Only model-checked: `SubmissionAnalysed`, as liveness under fairness is out of the
prover's reach (so is anything about ENABLED). The type invariants of the pages have no
runs of their own; the invariants above contain the types their proofs need.

## 6. What the models leave out

* A handler that issues several queries is taken to read in one step. Splitting
  the reads would add overlaps of the kind already found, none that the two-step
  model rules out for the properties of the overlapping runs: these rest on
  constraints and on what a single transaction writes together.
* Notifications, the audit log, milestones and the engineering log: written, never
  read to decide.
* Similarity scores, embeddings, prompts and model answers: a nondeterministic
  choice (`Similar`, the outcome of an analysis).
* Cooldown and cache of analyses on demand: a forced request passes both, so they
  exclude no behaviour.
* Deletion of problems is modelled in `DuplicateMerge`, not in the others:
  a problem with pods cannot be deleted, and an analysis of a deleted problem only
  disappears with it.
* The text of reviews, offers and reports, company names and impact verification.
* Mail: an invitation is mailed right after its commit, in the same step of the model.
* Of the query library: garbage collection, refetches on focus and by age, except where
  the age decides whether a newly enabled query is fetched. They add fetches, which read
  what is stored then.
* Of the pages: wording, validation messages, previews, filters and pagination of the
  lists, voice input, and whatever is only shown. A text is one of two or three, a photo
  one of two, a draft the set of pods it is about.
* Network time: a request is answered, refused or lost at any moment, so a time-out
  needs no clock. One that the page gives up (`client.ts:12`, 15 s) and the server stores
  afterwards counts as one whose answer was lost.
* That a handler's answer may precede its commit: `fastapi>=0.115.0` admits releases that
  end a `yield` dependency, here the session of `core/deps.py`, after the response has
  been sent. The pages' models take what is answered to be stored, which is so with the
  releases that end it before, and where the handler commits itself.
* The filter of a desk's list, and with it that the reload after a decision uses the
  filter of the click; the caps of the mentor's lists (15 reviews, 30 pods).

## 7. Components not modelled

* Of accounts: registration, one-time passwords, resets and approval. Attempts are
  counted and codes replaced without locks, which is the next thing to model.
* Of institutions: the synchronisation with the national directory (batches, a crash
  between them) beside the lists and imports on the administrator's page.
* Recommendations and their cache, chat, connections and public profiles, rate limits:
  candidates for small modules of their own.
* Schemas, configuration and start-up, migrations, notifications and e-mail, the
  remaining AI services: nothing another part relies on is decided there.
* The other pages of the client send one form or read one list, in the pattern of the
  pages modelled; nothing in them overlaps that does not overlap there.

## 8. Plan

Done: pods and their reviews; offers; duplicates; analyses; invitations; the browser's
session; profile, reporting, feed post, workspace, administrator's and mentor's pages;
proofs of all their safety and action properties and of the three refinements.

Next, in the order of importance to the system:

1. **Accounts**: registration, OTP issue, attempts, resend window and expiry, approval by
   an administrator, tokens of suspended accounts; abstract specification: an account is
   active only with a verified address and an approval.
2. **Institution synchronisation**: a sequence of batches with a crash between them,
   idempotent by AISHE code, one run at a time.
3. **Rate limits and caches**: a fixed window counter whose key must not lose its
   expiry; a cached recommendation that must not outlive what invalidates it.
4. **Connections** (requests in both directions at once) and the **timeline** of a problem,
   a pure function, against a reference definition.
5. **Liveness of `BrowserSession`** under its fairness: every request of a page is answered
   or refused, unless the page is left.
6. **Proofs**: a module of lemmas on `QueryCache` that the proofs of the pages could
   share; the theorems of the components above, as they are modelled.
