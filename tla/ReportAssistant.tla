--------------------------- MODULE ReportAssistant ---------------------------
(* The assistant a citizen can report with instead of the form: a chat with a *)
(* session of the backend, the draft it ends with, the citizen's corrections, *)
(* attachments and location, and publishing.  The assistant lives from mount  *)
(* to unmount; requests on their way outlive it without effect, but for the   *)
(* publishing of the report.                                                  *)
EXTENDS ReportForm
LOCAL INSTANCE SequencesExt

CONSTANTS
  Evidence,    \* files attached in the assistant
  MaxSessions  \* bound on the sessions the backend opens

VARIABLES
  opened,     \* sessions the backend has opened
  chat,       \* session, the sessions whose messages are listed, turns
  draft,      \* the session whose draft is under review, or 0, and isComplete
  district,   \* editDistrict
  queried,    \* requests to the session on their way
  thinking,   \* isLoading
  sent,       \* sent[f]: what became of an upload since the last (re)start
  items,      \* mediaItems
  finding     \* the district handleFetchLocation saw when it was called, or "off"

chatVars == <<opened, chat, draft, district, queried, thinking>>
extraVars == <<sent, items, finding>>
assistantVars == <<chatVars, extraVars>>

NoChat == [session |-> 0, listed |-> {}, turns |-> 0]
NoDraft == [of |-> 0, complete |-> FALSE]

Reset ==
  /\ chat' = NoChat /\ draft' = NoDraft /\ district' = None
  /\ sent' = [f \in Evidence |-> "no"] /\ items' = {} /\ finding' = "off"

AssistantInit ==
  /\ opened = 0 /\ queried = {} /\ thinking = FALSE
  /\ chat = NoChat /\ draft = NoDraft /\ district = None
  /\ sent = [f \in Evidence |-> "no"] /\ items = {} /\ finding = "off"

Here == shown = "assistant"

(* The effect that starts a session when the assistant is mounted.            *)
OpenChat ==
  /\ shown' = "assistant"
  /\ fills < MaxFills /\ fills' = fills + 1
  /\ Reset /\ queried' = {[kind |-> "start", session |-> 0]} /\ thinking' = TRUE
  /\ UNCHANGED <<opened, form, check, uploads, uploading, locating, posts, reports, dropped>>

LeaveChat == shown' = "closed" /\ Reset /\ queried' = {} /\ thinking' = FALSE

Close ==
  /\ Here /\ LeaveChat
  /\ UNCHANGED <<opened, form, check, uploads, uploading, locating, posts,
                 reports, fills, dropped>>
-------------------------------------------------------------------------------
Ask(kind) == queried' = queried \cup {[kind |-> kind, session |-> chat.session]} /\ thinking' = TRUE

(* An upload under way will be attached to what comes after the restart.      *)
Cleared == /\ chat' = [chat EXCEPT !.listed = {}] /\ draft' = NoDraft
           /\ items' = {}
           /\ sent' = [f \in Evidence |-> IF sent[f] = "going" THEN "going" ELSE "no"]

\* Mutant of Restart: the button is not disabled while an answer is awaited.
Restart_AnyTime ==
  /\ Here /\ Cleared /\ Ask("start")
  /\ UNCHANGED <<formVars, opened, district, finding>>

Restart ==
  /\ Here /\ ~thinking /\ Cleared /\ Ask("start")
  /\ UNCHANGED <<formVars, opened, district, finding>>

SendMessage ==
  /\ Here /\ chat.session # 0 /\ ~thinking /\ ~draft.complete
  /\ chat' = [chat EXCEPT !.listed = @ \cup {chat.session}]
  /\ Ask("send")
  /\ UNCHANGED <<formVars, opened, draft, district, extraVars>>

(* "Finish & Review", offered from the second turn on.                        *)
Finalize ==
  /\ Here /\ chat.session # 0 /\ ~thinking /\ ~draft.complete /\ chat.turns >= 2
  /\ Ask("finalize")
  /\ UNCHANGED <<formVars, opened, chat, draft, district, extraVars>>

Heard(a) == queried' = queried \ {a} /\ thinking' = FALSE

(* The welcome replaces the messages.                                         *)
SessionStarted(a) ==
  /\ a \in queried /\ a.kind = "start" /\ opened < MaxSessions
  /\ opened' = opened + 1
  /\ chat' = [session |-> opened + 1, listed |-> {opened + 1}, turns |-> 0]
  /\ Heard(a)
  /\ UNCHANGED <<formVars, draft, district, extraVars>>

(* The assistant asks on, or has the draft ready.                             *)
Reviewed(a) == draft' = [of |-> a.session, complete |-> TRUE] /\ district' = "drafted"

ChatAnswered(a, ready) ==
  /\ a \in queried /\ a.kind # "start" /\ (a.kind = "finalize" => ready)
  /\ chat' = [chat EXCEPT !.listed = @ \cup {a.session},
                          !.turns = IF @ < 2 THEN @ + 1 ELSE 2]
  /\ IF ready THEN Reviewed(a) ELSE UNCHANGED <<draft, district>>
  /\ Heard(a)
  /\ UNCHANGED <<formVars, opened, extraVars>>

\* Mutant of AskFails: without the "finally".
AskFails_StillThinking(a) ==
  /\ a \in queried /\ queried' = queried \ {a}
  /\ UNCHANGED <<formVars, opened, chat, draft, district, extraVars, thinking>>

(* After a failed restart the old session goes on under an empty chat.        *)
AskFails(a) ==
  /\ a \in queried /\ Heard(a)
  /\ UNCHANGED <<formVars, opened, chat, draft, district, extraVars>>

BackToChat ==
  /\ Here /\ draft.complete
  /\ draft' = [draft EXCEPT !.complete = FALSE]
  /\ UNCHANGED <<formVars, opened, chat, district, queried, thinking, extraVars>>

EditDistrict(d) ==
  /\ Here /\ draft.complete /\ d # district
  /\ district' = d
  /\ UNCHANGED <<formVars, opened, chat, draft, queried, thinking, extraVars>>
-------------------------------------------------------------------------------
AddFile(f) ==
  /\ Here /\ sent[f] = "no"
  /\ sent' = [sent EXCEPT ![f] = "going"]
  /\ UNCHANGED <<formVars, chatVars, items, finding>>

FileAdded(f) ==
  /\ sent[f] = "going"
  /\ sent' = [sent EXCEPT ![f] = "stored"] /\ items' = items \cup {f}
  /\ UNCHANGED <<formVars, chatVars, finding>>

(* The upload fails, or the citizen removes the file.                         *)
FileGone(f) ==
  /\ sent[f] = "going" \/ (Here /\ f \in items)
  /\ sent' = [sent EXCEPT ![f] = "no"] /\ items' = items \ {f}
  /\ UNCHANGED <<formVars, chatVars, finding>>

LocateMe ==
  /\ Here /\ finding = "off"
  /\ finding' = district
  /\ UNCHANGED <<formVars, chatVars, sent, items>>

(* The handler decides by the district it saw when it was called.             *)
FoundMe(p) ==
  /\ Here /\ finding # "off" /\ finding' = "off"
  /\ district' = IF p # None /\ finding \in {None, "default"} THEN p ELSE district
  /\ UNCHANGED <<formVars, opened, chat, draft, queried, thinking, sent, items>>
-------------------------------------------------------------------------------
Drafted == [fill |-> fills, text |-> "drafted"]

Submit ==
  /\ Here /\ draft.complete /\ (\A i \in DOMAIN posts : posts[i].fill # fills)
  /\ posts' = Append(posts, Drafted)
  /\ UNCHANGED <<shown, form, check, uploads, uploading, locating, reports,
                 fills, dropped, assistantVars>>

(* onSuccess and onClose close whatever the card shows by now.                *)
Submitted(i) ==
  /\ posts[i].fill # form.fill
  /\ posts' = RemoveAt(posts, i) /\ reports' = Append(reports, posts[i].fill)
  /\ LeaveChat
  /\ UNCHANGED <<opened, form, check, uploads, uploading, locating, fills, dropped>>
-------------------------------------------------------------------------------
AssistantNext ==
  \/ Close \/ Restart \/ SendMessage \/ Finalize \/ BackToChat \/ Submit \/ LocateMe
  \/ \E a \in queried :
       \/ SessionStarted(a) \/ AskFails(a)
       \/ \E ready \in BOOLEAN : ChatAnswered(a, ready)
  \/ \E d \in Places : EditDistrict(d)
  \/ \E f \in Evidence : AddFile(f) \/ FileAdded(f) \/ FileGone(f)
  \/ \E p \in Fixes \cup {None} : FoundMe(p)
  \/ \E i \in DOMAIN posts : Submitted(i)
===============================================================================
