------------------------------ MODULE MCProblems ------------------------------
(* The pages about problems for TLC, one at a time: the report's form and     *)
(* assistant, a post in the feed, the team's workspace, and the               *)
(* administrator's page in three parts.  The part looked at is chosen at the  *)
(* start, and the others stay as they are.  Of the starts the modules allow   *)
(* the richest are taken: the post is the reader's own, liked, and in a list  *)
(* left before; a completed pod has no offers any more.                       *)
EXTENDS ReportCard, FeedPost, PodWorkspace, GovernanceDesk, ModerationAnalysis, ModerationLinks

VARIABLE part

Init ==
  /\ part \in {"report", "post", "workspace", "desk", "analysis", "links"}
  /\ ReportInit /\ PostInit /\ WorkspaceInit /\ DeskInit /\ AnalysisInit /\ LinksInit
  /\ IF part = "post" THEN owner /\ post.liked /\ other = Looked
     ELSE ~owner /\ ~post.liked /\ other = NotOpened
  /\ part # "workspace" => pod.status = CHOOSE s \in StartStages : TRUE
  /\ \A o \in Offers : offer[o] = "withdrawn" <=> pod.status = "completed"
  /\ part # "desk" => tab = "requests"
  /\ part # "analysis" => latest = NoRun

Next ==
  /\ part' = part
  /\ \/ /\ part = "report" /\ ReportNext
        /\ UNCHANGED <<postVars, workspaceVars, deskVars, analysisVars, linkVars>>
     \/ /\ part = "post" /\ PostNext
        /\ UNCHANGED <<reportVars, workspaceVars, deskVars, analysisVars, linkVars>>
     \/ /\ part = "workspace" /\ WorkspaceNext
        /\ UNCHANGED <<reportVars, postVars, deskVars, analysisVars, linkVars>>
     \/ /\ part = "desk" /\ DeskNext
        /\ UNCHANGED <<reportVars, postVars, workspaceVars, analysisVars, linkVars>>
     \/ /\ part = "analysis" /\ AnalysisNext
        /\ UNCHANGED <<reportVars, postVars, workspaceVars, deskVars, linkVars>>
     \/ /\ part = "links" /\ LinksNext
        /\ UNCHANGED <<reportVars, postVars, workspaceVars, deskVars, analysisVars>>

(* No spinner and no disabled button of these pages waits for a request that  *)
(* is over.  Those of the assistant, the post and the analysis panel are not  *)
(* idle either while their own request is on its way; those of the desk's     *)
(* lists may be, as the first of several loads or decisions to end lowers the *)
(* flag that they share.                                                      *)
SpinnersEnd == ThinkingEnds /\ PostBusy /\ FlagsFall /\ PanelAnswers

Spec == Init /\ [][Next]_<<part, reportVars, postVars, workspaceVars, deskVars, analysisVars, linkVars>>
===============================================================================
