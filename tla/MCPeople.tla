------------------------------- MODULE MCPeople -------------------------------
(* What is about people for TLC, one at a time: the own profile page, the     *)
(* mentor's dashboard, and the invitations of a faculty member.  The part     *)
(* looked at is chosen at the start, and the others stay as they are.         *)
EXTENDS ProfilePage, MentorDesk, FacultyInvitations, TLC

VARIABLE part

Init ==
  /\ part \in {"profile", "mentor", "invitations"}
  /\ ProfileInit /\ MentorInit /\ InvitationInit
  /\ part # "profile" => view = CHOOSE v \in Views : TRUE
  /\ part # "mentor" => mentorOf = [x \in Mentored |-> "none"]

Next ==
  /\ part' = part
  /\ \/ part = "profile" /\ ProfileNext /\ UNCHANGED <<mentorVars, invitationVars>>
     \/ part = "mentor" /\ MentorNext /\ UNCHANGED <<profileVars, invitationVars>>
     \/ part = "invitations" /\ InvitationNext /\ UNCHANGED <<profileVars, mentorVars>>

MCSymmetry == Permutations(Requests) \cup Permutations(Senders)

Spec == Init /\ [][Next]_<<part, profileVars, mentorVars, invitationVars>>
===============================================================================
