-------------------------- MODULE FacultyInvitations --------------------------
(* The invitations of one e-mail address to the faculty of several            *)
(* universities, and the account that comes of them.  A request loads and     *)
(* checks, and writes and commits later; only columns whose value differs     *)
(* from the loaded one are written, so that of a request in flight there is   *)
(* what it will write.  Links are numbered in the order in which they are     *)
(* committed; each is mailed once it is.                                      *)
EXTENDS Naturals, FiniteSets, Sequences

CONSTANTS
  Senders,    \* universities
  Requests,   \* requests in flight at once
  MaxLinks    \* bound on the links made

ASSUME SendersAssumption == "none" \notin Senders /\ "other" \notin Senders

VARIABLES
  invitation,  \* the rows of the address, oldest first
  holder,      \* the university whose invitation made the account, "other" or "none"
  handled,     \* what each request is about to write
  links,       \* how many links were made
  former       \* history: the rows of accounts that were since deleted

invitationVars == <<invitation, holder, handled, links, former>>

Written == DOMAIN invitation
Free == [op |-> "none"]

InvitationInit ==
  /\ invitation = << >> /\ holder = "none"
  /\ handled = [w \in Requests |-> Free]
  /\ links = 0 /\ former = {}
-------------------------------------------------------------------------------
Loads(w, request) ==
  /\ handled[w] = Free /\ handled' = [handled EXCEPT ![w] = request]
  /\ UNCHANGED <<invitation, holder, links, former>>

Renews(r, reopens) == [op |-> "renew", row |-> r, reopens |-> reopens]
Marks(r, status) == [op |-> "mark", row |-> r, status |-> status]

PendingOf(u) == {r \in Written : invitation[r].by = u /\ invitation[r].status = "pending"}

(* The query for a pending invitation expects one row at most and fails on    *)
(* two.                                                                       *)
LoadInvite(w, u) ==
  /\ holder = "none"
  /\ \/ PendingOf(u) = {} /\ Loads(w, [op |-> "insert", by |-> u])
     \/ \E r \in Written : PendingOf(u) = {r} /\ Loads(w, Renews(r, FALSE))

LoadResend(w, r) ==
  /\ invitation[r].status # "accepted"
  /\ Loads(w, Renews(r, invitation[r].status # "pending"))

\* Mutant of LoadRevoke: an accepted invitation is revoked.
LoadRevoke_Any(w, r) == invitation[r].status # "revoked" /\ Loads(w, Marks(r, "revoked"))
(* Revoking what is revoked writes nothing.                                   *)
LoadRevoke(w, r) ==
  /\ invitation[r].status \notin {"accepted", "revoked"} /\ Loads(w, Marks(r, "revoked"))

(* A link is looked at or accepted.                                           *)
Opens(r) == invitation[r].status \notin {"accepted", "revoked"}

LoadLapsed(w, r) ==
  /\ Opens(r) /\ invitation[r].lapsed /\ invitation[r].status # "expired"
  /\ Loads(w, Marks(r, "expired"))

LoadAccept(w, r) ==
  /\ Opens(r) /\ ~invitation[r].lapsed /\ holder = "none"
  /\ Loads(w, [op |-> "accept", row |-> r])

(* create_faculty_member, and a registration of one's own.                    *)
LoadCreate(w) == holder = "none" /\ Loads(w, [op |-> "create"])
-------------------------------------------------------------------------------
Ends(w) == handled' = [handled EXCEPT ![w] = Free]
NewLink(w) == links < MaxLinks /\ links' = links + 1 /\ Ends(w)

CommitInsert(w) ==
  /\ handled[w].op = "insert" /\ NewLink(w)
  /\ invitation' = Append(invitation, [by |-> handled[w].by, status |-> "pending",
                                       link |-> links', lapsed |-> FALSE])
  /\ UNCHANGED <<holder, former>>

Renewed(i, reopens) ==
  [i EXCEPT !.link = links', !.lapsed = FALSE, !.status = IF reopens THEN "pending" ELSE @]

CommitRenewal(w) ==
  /\ handled[w].op = "renew" /\ NewLink(w)
  /\ invitation' = [invitation EXCEPT ![handled[w].row] = Renewed(@, handled[w].reopens)]
  /\ UNCHANGED <<holder, former>>

CommitMark(w) ==
  /\ handled[w].op = "mark"
  /\ invitation' = [invitation EXCEPT ![handled[w].row].status = handled[w].status]
  /\ Ends(w) /\ UNCHANGED <<holder, links, former>>

\* Mutant of AddressFree: the unique constraint on users.email is missing.
AddressFree_Always == TRUE
(* users.email is unique: the later of two accounts is refused.               *)
AddressFree == holder = "none"

CommitAccept(w) ==
  /\ handled[w].op = "accept" /\ AddressFree
  /\ holder' = invitation[handled[w].row].by
  /\ invitation' = [invitation EXCEPT ![handled[w].row].status = "accepted"]
  /\ former' = former \ {handled[w].row}
  /\ Ends(w) /\ UNCHANGED links

CommitCreate(w) ==
  /\ handled[w].op = "create" /\ AddressFree
  /\ holder' = "other"
  /\ Ends(w) /\ UNCHANGED <<invitation, links, former>>

(* The session is rolled back.                                                *)
Fails(w) ==
  /\ handled[w] # Free /\ Ends(w)
  /\ UNCHANGED <<invitation, holder, links, former>>

Accepted == {r \in Written : invitation[r].status = "accepted"}

(* Deleting an account (its one step is a DELETE by key) frees the address;   *)
(* the invitation it came of stays accepted.                                  *)
DeleteAccount ==
  /\ holder # "none" /\ holder' = "none"
  /\ former' = former \cup Accepted
  /\ UNCHANGED <<invitation, handled, links>>

(* Seven days go by.                                                          *)
Lapse(r) ==
  /\ ~invitation[r].lapsed /\ invitation' = [invitation EXCEPT ![r].lapsed = TRUE]
  /\ UNCHANGED <<holder, handled, links, former>>
-------------------------------------------------------------------------------
InvitationNext ==
  \/ \E w \in Requests :
       \/ \E u \in Senders : LoadInvite(w, u)
       \/ \E r \in Written : LoadResend(w, r) \/ LoadRevoke(w, r) \/ LoadLapsed(w, r) \/ LoadAccept(w, r)
       \/ LoadCreate(w)
       \/ CommitInsert(w) \/ CommitRenewal(w) \/ CommitMark(w) \/ CommitAccept(w)
       \/ CommitCreate(w) \/ Fails(w)
  \/ \E r \in Written : Lapse(r)
  \/ DeleteAccount

InvitationSpec == InvitationInit /\ [][InvitationNext]_invitationVars
-------------------------------------------------------------------------------
(* However invitations of several universities, withdrawals, registrations,   *)
(* acceptances and deletions of the account overlap, one acceptance at most   *)
(* stands: of the accepted invitations whose account was not deleted since    *)
(* there is one at most, and the account of the address is that of the        *)
(* university which sent it (accept_faculty_invitation, users.email).         *)
Standing == Accepted \ former

AcceptedOwns ==
  /\ Cardinality(Standing) <= 1
  /\ \A r \in Standing : holder = invitation[r].by

(* Only requests that were in flight when an invitation was accepted can undo *)
(* that: once they are over it is accepted for good, whatever is resent or    *)
(* revoked later (resend_faculty_invitation, revoke_faculty_invitation).      *)
AcceptedForGood(r) ==
  /\ invitation[r].status = "accepted"
  /\ \A w \in Requests : handled[w].op \in {"renew", "mark"} => handled[w].row # r

AcceptanceLasts == [][\A r \in Written : AcceptedForGood(r) => AcceptedForGood(r)']_invitationVars
===============================================================================
