------------------------------ MODULE ReportForm ------------------------------
(* The card on the feed with which a citizen reports a problem: the form, its *)
(* attachment and location, the search for similar reports while the citizen  *)
(* types, and publishing.  Title and description are one text; a place is the *)
(* district and state.                                                        *)
EXTENDS Naturals, Sequences, FiniteSets
LOCAL INSTANCE SequencesExt

CONSTANTS
  Texts, Publishable, Searched,  \* Searched: 8 and 30 characters or more,
                                 \* Publishable: 5 and 20
  Places,                        \* what a citizen types
  Files,
  None,                          \* nothing
  MaxFills,                      \* bound on the reports a page is filled with
  MaxAnswers                     \* bound on the searches whose answers are kept

ASSUME TextsAssumption == Searched \subseteq Publishable /\ Publishable \subseteq Texts
ASSUME PlacesAssumption == "default" \in Places  \* what the form starts with

VARIABLES
  shown,      \* "closed", "form" or "assistant": isOpen and creationMode
  form,       \* text, place, coords, media, and the number of the report filled
  check,      \* the debounced search for similar reports
  uploads,    \* files on their way
  uploading, locating,  \* isUploading, isLocating
  posts,      \* reports on their way: which one, and its text
  reports,    \* those the backend has stored, as numbers
  fills,      \* reports begun on this page
  dropped        \* a report was stored and the answer lost

formVars == <<shown, form, check, uploads, uploading, locating, posts,
              reports, fills, dropped>>

(* handleFetchLocation takes the device's position, named by one of two       *)
(* services or else by its coordinates; without one, the network's.  Which    *)
(* one it was makes no difference afterwards.                                 *)
Fixes == {"located"}

Blank(n, place) ==
  [text |-> None, place |-> place, coords |-> FALSE, media |-> None, fill |-> n]

Unsearched == [due |-> FALSE, for |-> None, dismissed |-> FALSE, answers |-> <<>>]

FormInit ==
  /\ shown = "closed"
  /\ form = Blank(1, "default") /\ fills = 1
  /\ check = Unsearched
  /\ uploads = {} /\ uploading = FALSE /\ locating = FALSE
  /\ posts = <<>> /\ reports = <<>> /\ dropped = FALSE

Open == shown = "closed" /\ shown' = "form"
        /\ UNCHANGED <<form, check, uploads, uploading, locating, posts, reports, fills, dropped>>
Cancel == shown = "form" /\ shown' = "closed"
        /\ UNCHANGED <<form, check, uploads, uploading, locating, posts, reports, fills, dropped>>
-------------------------------------------------------------------------------
(* useDuplicateCheck: answers are kept by title, description and district.    *)
\* Mutant of KeyOf: the district is left out, as the category is.
KeyOf_TextOnly(text, place) == <<text>>

KeyOf(text, place) == <<text, place>>

(* A change of the text, the category or the place.                           *)
Changed(c, text) ==
  IF text \in Searched THEN [c EXCEPT !.due = TRUE]
  ELSE [c EXCEPT !.due = FALSE, !.for = None, !.dismissed = FALSE]

Known(k) == k \in DOMAIN check.answers
With(answers, k, a) == [x \in DOMAIN answers \cup {k} |-> IF x = k THEN a ELSE answers[x]]

(* The request of a search nobody waits for any more is aborted.              *)
Kept == [k \in {k \in DOMAIN check.answers : check.answers[k].state # "asked"} |->
           check.answers[k]]

(* 800 ms without a change.                                                   *)
Elapse ==
  LET k == KeyOf(form.text, form.place) IN
  /\ check.due /\ (Known(k) \/ Cardinality(DOMAIN Kept) < MaxAnswers)
  /\ check' = [due |-> FALSE, for |-> <<form.text, form.place>>, dismissed |-> FALSE,
       answers |-> IF Known(k) THEN check.answers ELSE With(Kept, k, [state |-> "asked", of |-> None])]
  /\ UNCHANGED <<shown, form, uploads, uploading, locating, posts, reports, fills, dropped>>

Current == check.answers[KeyOf(check.for[1], check.for[2])]

(* Any failure is answered as "nothing found".                                *)
SearchAnswered(state) ==
  /\ check.for # None /\ Current.state = "asked"
  /\ check' = [check EXCEPT !.answers[KeyOf(check.for[1], check.for[2])] =
                  [state |-> state, of |-> check.for]]
  /\ UNCHANGED <<shown, form, uploads, uploading, locating, posts, reports, fills, dropped>>

(* The search whose similar reports are listed.                               *)
Similar ==
  IF check.dismissed \/ check.for = None \/ Current.state # "found" THEN None
  ELSE Current.of

DismissWarning ==
  /\ shown = "form" /\ Similar # None
  /\ check' = [check EXCEPT !.dismissed = TRUE]
  /\ UNCHANGED <<shown, form, uploads, uploading, locating, posts, reports, fills, dropped>>

(* "Support instead": the form closes and keeps what was typed.               *)
SupportInstead ==
  /\ shown = "form" /\ Similar # None
  /\ shown' = "closed"
  /\ UNCHANGED <<form, check, uploads, uploading, locating, posts, reports, fills, dropped>>
-------------------------------------------------------------------------------
Fill(f) ==
  /\ form' = f /\ check' = Changed(check, f.text)
  /\ UNCHANGED <<shown, uploads, uploading, locating, posts, reports, fills, dropped>>

Type(t) == shown = "form" /\ t # form.text /\ Fill([form EXCEPT !.text = t])
TypePlace(p) == shown = "form" /\ p # form.place /\ Fill([form EXCEPT !.place = p])
Recategorise == shown = "form" /\ Fill(form)

Attach(f) ==
  /\ shown = "form" /\ f \notin uploads
  /\ uploads' = uploads \cup {f} /\ uploading' = TRUE
  /\ UNCHANGED <<shown, form, check, locating, posts, reports, fills, dropped>>

(* The two inputs stay enabled: the later answer replaces the earlier.        *)
Attached(f, ok) ==
  /\ f \in uploads
  /\ uploads' = uploads \ {f} /\ uploading' = FALSE
  /\ form' = IF ok THEN [form EXCEPT !.media = f] ELSE form
  /\ UNCHANGED <<shown, check, locating, posts, reports, fills, dropped>>

Detach ==
  /\ shown = "form" /\ form.media # None
  /\ form' = [form EXCEPT !.media = None]
  /\ UNCHANGED <<shown, check, uploads, uploading, locating, posts, reports, fills, dropped>>

Locate ==
  /\ shown = "form" /\ ~locating
  /\ locating' = TRUE
  /\ UNCHANGED <<shown, form, check, uploads, uploading, posts, reports, fills, dropped>>

(* What was typed for the place meanwhile is replaced.                        *)
Located(p) ==
  /\ locating /\ locating' = FALSE
  /\ IF p = None THEN UNCHANGED <<form, check>>
     ELSE /\ form' = [form EXCEPT !.place = p, !.coords = TRUE]
          /\ check' = IF p = form.place THEN check ELSE Changed(check, form.text)
  /\ UNCHANGED <<shown, uploads, uploading, posts, reports, fills, dropped>>

RemoveCoords ==
  /\ shown = "form" /\ form.coords
  /\ form' = [form EXCEPT !.coords = FALSE]
  /\ UNCHANGED <<shown, check, uploads, uploading, locating, posts, reports, fills, dropped>>
-------------------------------------------------------------------------------
(* isLoading.                                                                 *)
Posting == \E i \in DOMAIN posts : posts[i].fill = form.fill

Report == [fill |-> form.fill, text |-> form.text]

\* Mutant of Publish: the button is not disabled while the report is sent.
Publish_Again ==
  /\ shown = "form" /\ ~uploading /\ form.text \in Publishable
  /\ posts' = Append(posts, Report)
  /\ UNCHANGED <<shown, form, check, uploads, uploading, locating, reports, fills, dropped>>

Publish ==
  /\ shown = "form" /\ ~Posting /\ ~uploading /\ form.text \in Publishable
  /\ posts' = Append(posts, Report)
  /\ UNCHANGED <<shown, form, check, uploads, uploading, locating, reports, fills, dropped>>

(* The form is emptied, whatever was typed meanwhile; the place stays.        *)
Published(i) ==
  /\ posts[i].fill = form.fill /\ fills < MaxFills
  /\ posts' = RemoveAt(posts, i) /\ reports' = Append(reports, posts[i].fill)
  /\ form' = Blank(fills + 1, form.place) /\ fills' = fills + 1
  /\ check' = Changed(check, None)
  /\ shown' = "closed"
  /\ UNCHANGED <<uploads, uploading, locating, dropped>>

(* Refused, or the answer is lost after the report was stored.                *)
PublishFails(i, stored) ==
  /\ (stored => Len(reports) < MaxFills)
  /\ posts' = RemoveAt(posts, i)
  /\ reports' = IF stored THEN Append(reports, posts[i].fill) ELSE reports
  /\ dropped' = (dropped \/ stored)
  /\ UNCHANGED <<shown, form, check, uploads, uploading, locating, fills>>
-------------------------------------------------------------------------------
FormNext ==
  \/ Open \/ Cancel \/ Elapse \/ DismissWarning \/ SupportInstead \/ Recategorise
  \/ \E state \in {"found", "nothing"} : SearchAnswered(state)
  \/ \E t \in Texts : Type(t)
  \/ \E p \in Places : TypePlace(p)
  \/ \E f \in Files : Attach(f) \/ \E ok \in BOOLEAN : Attached(f, ok)
  \/ Detach \/ Locate \/ RemoveCoords \/ Publish
  \/ \E p \in Fixes \cup {None} : Located(p)
  \/ \E i \in DOMAIN posts : Published(i) \/ \E stored \in BOOLEAN : PublishFails(i, stored)
===============================================================================
