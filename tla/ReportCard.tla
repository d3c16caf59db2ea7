------------------------------ MODULE ReportCard ------------------------------
(* The report card of the feed as a whole: the form, and the assistant it     *)
(* gives way to.                                                              *)
EXTENDS ReportAssistant

reportVars == <<formVars, assistantVars>>

ReportInit == FormInit /\ AssistantInit

(* Bound: the assistant is opened from a form that is blank and at rest.      *)
FormAtRest ==
  /\ form = Blank(form.fill, form.place) /\ ~Posting
  /\ uploads = {} /\ ~locating

OpenAssistant == shown \in {"closed", "form"} /\ FormAtRest /\ OpenChat

ReportNext ==
  \/ FormNext /\ UNCHANGED assistantVars
  \/ AssistantNext \/ OpenAssistant

ReportSpec == ReportInit /\ [][ReportNext]_reportVars
-------------------------------------------------------------------------------
(* The warning about similar reports speaks of the text and district on the   *)
(* screen once the citizen pauses, however often both changed, came back, and *)
(* crossed the answers of earlier searches.  (The category is sent with the   *)
(* search but not part of its key.)                                           *)
WarningMatchesText ==
  shown = "form" /\ Similar # None /\ ~check.due
  => Similar = <<form.text, form.place>>

(* What is filled in once, in the form or with the assistant, is stored once: *)
(* no second report while the first is on its way, after closing and opening  *)
(* the card, or after it was stored.  Only a lost answer makes the citizen    *)
(* publish it again.                                                          *)
PublishedOnce ==
  ~dropped => \A i, j \in DOMAIN reports : i # j => reports[i] # reports[j]

(* The chat lists messages of one session, the one the next message goes to,  *)
(* and the draft under review is of that session: no answer of the session    *)
(* before a restart reaches the chat after it.                                *)
OneConversation ==
  chat.listed \subseteq {chat.session} /\ draft.of \in {0, chat.session}

(* isLoading, which blocks every button of the chat, is up exactly while the  *)
(* session's answer is on its way, whatever failed, was restarted, or was     *)
(* closed and opened in between.                                              *)
ThinkingEnds == thinking <=> queried # {}
===============================================================================
