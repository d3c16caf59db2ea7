-------------------------------- MODULE FeedPost --------------------------------
(* One problem's post in the feed: the list it is shown in and one left       *)
(* before, its heart and bookmark, the thread of its comments, and, for its   *)
(* author, the dialog that edits it and the menu's "Delete".  Only what this  *)
(* reader does is followed, and reporting and sharing the post, which leave   *)
(* nothing on it, are not.                                                    *)
EXTENDS Naturals, Sequences, FiniteSets, QueryCache

CONSTANTS
  Descriptions,  \* texts of the post
  Gone,          \* the list does not have the post
  MaxActs        \* bound on the requests and on the lists looked at; then no more is typed

(* What a list can say of the post.                                           *)
Rows == [text : Descriptions, liked : BOOLEAN, saved : BOOLEAN, comments : Nat]

ASSUME PostAssumption ==
  /\ Descriptions # {} /\ MaxActs \in Nat
  /\ NoData # Gone /\ NoData \notin Rows \cup Seq(Nat) /\ Gone \notin Rows

VARIABLES
  post,      \* stored: description, liked and saved by the reader, comments, there
  owner,     \* isOwner
  feed,      \* the query problems of the tab and category shown
  other,     \* the query problems of a tab and category not shown
  outdated,  \* other has been invalidated
  thread,    \* the query problem-comments
  buttons,   \* PostActions' own likes, liked, saved and isLiking
  box,       \* showComments, whether the input has text, isPosting
  edit,      \* editing and editText
  acts,      \* requests on their way
  started,   \* requests started and lists left
  blur       \* the parts of the page something has put out of step

postPage == <<buttons, box, edit>>
lists == <<feed, other, outdated>>
postVars == <<post, owner, lists, thread, postPage, acts, started, blur>>

(* What an answer of the list says of the post.                               *)
FeedAnswer ==
  IF ~post.there THEN Gone
  ELSE [text |-> post.text, liked |-> post.liked, saved |-> post.saved,
        comments |-> Len(post.comments)]

OnPage == feed.data \notin {NoData, Gone}

One(b) == IF b THEN 1 ELSE 0

(* PostActions copies what it is given when it appears, and never again.      *)
Fresh(row) ==
  [likes |-> One(row.liked), liked |-> row.liked, saved |-> row.saved, liking |-> FALSE]

NoButtons == [likes |-> 0, liked |-> FALSE, saved |-> FALSE, liking |-> FALSE]
NoBox == [shown |-> FALSE, typed |-> FALSE, posting |-> FALSE]
NoEdit(text) == [open |-> FALSE, text |-> text]

FirstDescription == CHOOSE t \in Descriptions : TRUE
NotOpened == [Opened EXCEPT !.fetch = "idle"]
Looked == Shows(Reads(Opened, FeedAnswer))

PostInit ==
  /\ post \in [text : {FirstDescription}, liked : BOOLEAN, saved : {FALSE},
               comments : {<<>>}, there : {TRUE}]
  /\ owner \in BOOLEAN
  /\ feed = Opened /\ other \in {NotOpened, Looked} /\ outdated = FALSE /\ thread = NotOpened
  /\ buttons = NoButtons /\ box = NoBox /\ edit = NoEdit(FirstDescription)
  /\ acts = {} /\ started = 0 /\ blur = {}
-------------------------------------------------------------------------------
ReadFeed ==
  /\ Asked(feed) /\ feed' = Reads(feed, FeedAnswer)
  /\ UNCHANGED <<post, owner, other, outdated, thread, postPage, acts, started, blur>>

Orphaned == {[a EXCEPT !.live = FALSE] : a \in acts}

(* An answer the post is new in makes it appear, one it is gone from takes it *)
(* away with its state; any other leaves the state of its parts alone.        *)
ShowFeed ==
  /\ Answered(feed) /\ feed' = Shows(feed)
  /\ IF feed.seen = Gone
     THEN /\ buttons' = NoButtons /\ box' = NoBox /\ edit' = NoEdit(FirstDescription)
          /\ acts' = Orphaned
     ELSE IF OnPage THEN UNCHANGED <<postPage, acts>>
     ELSE /\ buttons' = Fresh(feed.seen) /\ edit' = NoEdit(feed.seen.text)
          /\ UNCHANGED <<box, acts>>
  /\ UNCHANGED <<post, owner, other, outdated, thread, started, blur>>

(* The page shows an empty feed if it has no earlier answer.                  *)
FeedLost ==
  /\ feed.fetch # "idle" /\ feed' = Misses(feed)
  /\ UNCHANGED <<post, owner, other, outdated, thread, postPage, acts, started, blur>>

(* The fetch of a list goes on after the list is left.                        *)
OtherFetched ==
  /\ \/ /\ Asked(other) /\ other' = Reads(other, FeedAnswer) /\ UNCHANGED outdated
     \/ /\ Answered(other) /\ other' = Shows(other) /\ outdated' = FALSE
     \/ /\ other.fetch # "idle" /\ other' = Misses(other) /\ UNCHANGED outdated
  /\ UNCHANGED <<post, owner, feed, thread, postPage, acts, started, blur>>

(* A list looked at before is shown as it was left: it is fetched again if it *)
(* has been invalidated or has no answer, or is older than a minute.          *)
Returned ==
  IF other.fetch # "idle" THEN {other}
  ELSE IF outdated \/ other.data = NoData THEN {Refetch(other)}
  ELSE {other, Refetch(other)}

(* The post is taken away, with the page's share in its requests, and comes   *)
(* with the row the list has of it, or with the list's answer.                *)
Reappears(row) ==
  /\ IF row \in {NoData, Gone}
     THEN buttons' = NoButtons /\ edit' = NoEdit(FirstDescription)
     ELSE buttons' = Fresh(row) /\ edit' = NoEdit(row.text)
  /\ box' = NoBox /\ acts' = Orphaned
  /\ blur' = blur
       \cup (IF acts # {} \/ row \notin {NoData, FeedAnswer} THEN {"heart", "bookmark"} ELSE {})
       \cup (IF acts # {} /\ row = NoData THEN {"row"} ELSE {})

(* Another tab or category: the list left before, or one not looked at, or no *)
(* longer kept.  A post that both lists show at once stays as it is, unless a *)
(* list without it was looked at in between.                                  *)
SelectFeed ==
  /\ started < MaxActs /\ started' = started + 1
  /\ feed' \in Returned \cup {Opened} /\ other' = feed /\ outdated' = FALSE
  /\ \/ OnPage /\ OnPage' /\ UNCHANGED <<postPage, acts, blur>>
     \/ Reappears(feed'.data)
  /\ UNCHANGED <<post, owner, thread>>
-------------------------------------------------------------------------------
Begin(kind, what) ==
  /\ OnPage /\ started < MaxActs /\ started' = started + 1
  /\ acts' = acts \cup {[kind |-> kind, what |-> what, n |-> started + 1, live |-> TRUE,
                         stage |-> "sent", says |-> FALSE]}

Underway(kind) == \E a \in acts : a.kind = kind /\ a.live

HandleLike ==
  /\ ~buttons.liking /\ Begin("like", 0)
  /\ buttons' = [buttons EXCEPT !.liking = TRUE]
  /\ UNCHANGED <<post, owner, lists, thread, box, edit, blur>>

(* Nothing keeps a second click from toggling back before the first answer,   *)
(* and the answers may then come in either order.                             *)
HandleSave ==
  /\ Begin("save", 0)
  /\ blur' = IF Underway("save") THEN blur \cup {"bookmark"} ELSE blur
  /\ UNCHANGED <<post, owner, lists, thread, postPage>>

(* onToggleCommentSection.  The thread is fetched when it is opened, again    *)
(* only if the answer at hand is older than a minute; text is lost on closing.*)
ToggleComments ==
  /\ OnPage
  /\ \/ /\ ~box.shown /\ box' = [NoBox EXCEPT !.shown = TRUE]
        /\ thread' \in IF thread.fetch # "idle" THEN {thread}
                       ELSE IF thread.data = NoData THEN {Refetch(thread)}
                       ELSE {thread, Refetch(thread)}
        /\ UNCHANGED acts
     \/ /\ box.shown /\ box' = NoBox
        /\ acts' = {[a EXCEPT !.live = @ /\ a.kind # "comment"] : a \in acts}
        /\ UNCHANGED thread
  /\ UNCHANGED <<post, owner, lists, buttons, edit, started, blur>>

Stored(kind) == \E a \in acts : a.kind = kind /\ a.stage = "stored"

ReadThread ==
  /\ Asked(thread) /\ post.there
  /\ thread' = Reads(thread, post.comments)
  /\ blur' = IF Stored("comment") THEN blur \cup {"thread"} ELSE blur
  /\ UNCHANGED <<post, owner, lists, postPage, acts, started>>

ShowThread ==
  /\ Answered(thread) /\ thread' = Shows(thread)
  /\ UNCHANGED <<post, owner, lists, postPage, acts, started, blur>>

ThreadLost ==
  /\ thread.fetch # "idle" /\ thread' = Misses(thread)
  /\ UNCHANGED <<post, owner, lists, postPage, acts, started, blur>>

TypeComment ==
  /\ box.shown /\ started < MaxActs /\ box' = [box EXCEPT !.typed = ~@]
  /\ UNCHANGED <<post, owner, lists, thread, buttons, edit, acts, started, blur>>

HandleAddComment ==
  /\ box.shown /\ box.typed /\ ~box.posting /\ Begin("comment", 0)
  /\ box' = [box EXCEPT !.posting = TRUE]
  /\ UNCHANGED <<post, owner, lists, thread, buttons, edit, blur>>
-------------------------------------------------------------------------------
(* The author's menu.  The dialog keeps what was typed in it when it is       *)
(* cancelled, and nothing keeps "Save" from being pressed twice.              *)
OpenEditor ==
  /\ OnPage /\ owner /\ ~edit.open /\ started < MaxActs /\ edit' = [edit EXCEPT !.open = TRUE]
  /\ UNCHANGED <<post, owner, lists, thread, buttons, box, acts, started, blur>>

TypeDescription(t) ==
  /\ edit.open /\ edit.text # t /\ started < MaxActs /\ edit' = [edit EXCEPT !.text = t]
  /\ UNCHANGED <<post, owner, lists, thread, buttons, box, acts, started, blur>>

CancelEditor ==
  /\ edit.open /\ edit' = [edit EXCEPT !.open = FALSE]
  /\ UNCHANGED <<post, owner, lists, thread, buttons, box, acts, started, blur>>

SaveEdit ==
  /\ edit.open /\ Begin("edit", edit.text)
  /\ UNCHANGED <<post, owner, lists, thread, postPage, blur>>

DeletePost ==
  /\ owner /\ ~edit.open /\ Begin("delete", 0)
  /\ UNCHANGED <<post, owner, lists, thread, postPage, blur>>
-------------------------------------------------------------------------------
StoredWith(a, says) ==
  acts' = (acts \ {a}) \cup {[a EXCEPT !.stage = "stored", !.says = says]}

(* The five endpoints; each refuses a post that is gone.                      *)
StoreLike(a) ==
  /\ a.kind = "like" /\ StoredWith(a, ~post.liked)
  /\ post' = [post EXCEPT !.liked = ~@]

StoreSave(a) ==
  /\ a.kind = "save" /\ StoredWith(a, ~post.saved)
  /\ post' = [post EXCEPT !.saved = ~@]

StoreComment(a) ==
  /\ a.kind = "comment" /\ StoredWith(a, TRUE)
  /\ post' = [post EXCEPT !.comments = Append(@, a.n)]

StoreEdit(a) ==
  /\ a.kind = "edit" /\ StoredWith(a, TRUE)
  /\ post' = [post EXCEPT !.text = a.what]

StoreDelete(a) ==
  /\ a.kind = "delete" /\ StoredWith(a, TRUE)
  /\ post' = [post EXCEPT !.there = FALSE]

StoreAct(a) ==
  /\ a.stage = "sent" /\ post.there
  /\ StoreLike(a) \/ StoreSave(a) \/ StoreComment(a) \/ StoreEdit(a) \/ StoreDelete(a)
  /\ UNCHANGED <<owner, lists, thread, postPage, started, blur>>
-------------------------------------------------------------------------------
Done(a) == a.stage = "stored" /\ acts' = acts \ {a}

(* invalidateQueries(['problems']): the list shown is fetched again, the other *)
(* when it is shown again, unless an answer it is waiting for comes first:    *)
(* that counts as up to date although it may be older.                        *)
Invalidate ==
  feed' = Refetch(feed) /\ UNCHANGED other /\ outdated' = (other.data # NoData)

Overtaken == IF Answered(other) THEN {"row", "heart", "bookmark"} ELSE {}

(* The heart shows what the answer says, and the number beside it goes up or  *)
(* down by one, but not below zero.                                           *)
Liked(a) ==
  /\ a.kind = "like" /\ Done(a) /\ Invalidate
  /\ buttons' =
       IF ~a.live THEN buttons
       ELSE [buttons EXCEPT !.liked = a.says, !.liking = FALSE,
                            !.likes = IF a.says THEN @ + 1 ELSE IF @ = 0 THEN 0 ELSE @ - 1]
  /\ blur' = blur \cup Overtaken
  /\ UNCHANGED <<post, owner, thread, box, edit, started>>

SaveToggled(a) ==
  /\ a.kind = "save" /\ Done(a) /\ Invalidate
  /\ buttons' = IF a.live THEN [buttons EXCEPT !.saved = a.says] ELSE buttons
  /\ blur' = blur \cup Overtaken
  /\ UNCHANGED <<post, owner, thread, box, edit, started>>

Thread(data) == IF data = NoData THEN <<>> ELSE data

\* Mutant of Commented: the new comment takes the place of the thread at hand.
Commented_Alone(a) ==
  /\ a.kind = "comment" /\ Done(a) /\ Invalidate
  /\ thread' = [thread EXCEPT !.data = <<a.n>>, !.failed = FALSE]
  /\ box' = IF a.live THEN [box EXCEPT !.typed = FALSE, !.posting = FALSE] ELSE box
  /\ blur' = blur \cup Overtaken \cup (IF Answered(thread) THEN {"thread"} ELSE {})
  /\ UNCHANGED <<post, owner, buttons, edit, started>>

(* The comment is put before the thread at hand and a fetch under way is not  *)
(* stopped: one that read before the comment was stored takes it away again,  *)
(* one that was shown before this answer came had it already.  What was typed *)
(* meanwhile is erased.                                                       *)
Commented(a) ==
  /\ a.kind = "comment" /\ Done(a) /\ Invalidate
  /\ thread' = [thread EXCEPT !.data = <<a.n>> \o Thread(@), !.failed = FALSE]
  /\ box' = IF a.live THEN [box EXCEPT !.typed = FALSE, !.posting = FALSE] ELSE box
  /\ blur' = blur \cup Overtaken \cup (IF Answered(thread) THEN {"thread"} ELSE {})
  /\ UNCHANGED <<post, owner, buttons, edit, started>>

\* Mutant of Edited: only the author's own list is fetched again.
Edited_OwnListOnly(a) ==
  /\ a.kind = "edit" /\ Done(a)
  /\ edit' = IF a.live THEN [edit EXCEPT !.open = FALSE] ELSE edit
  /\ UNCHANGED <<post, owner, lists, thread, buttons, box, started, blur>>

Edited(a) ==
  /\ a.kind = "edit" /\ Done(a) /\ Invalidate
  /\ edit' = IF a.live THEN [edit EXCEPT !.open = FALSE] ELSE edit
  /\ blur' = blur \cup Overtaken
  /\ UNCHANGED <<post, owner, thread, buttons, box, started>>

Deleted(a) ==
  /\ a.kind = "delete" /\ Done(a) /\ Invalidate
  /\ blur' = blur \cup Overtaken
  /\ UNCHANGED <<post, owner, thread, postPage, started>>

(* Refused, lost, or its answer lost: nothing is fetched again.               *)
ActFails(a) ==
  /\ acts' = acts \ {a}
  /\ buttons' = [buttons EXCEPT !.liking = @ /\ ~(a.live /\ a.kind = "like")]
  /\ box' = [box EXCEPT !.posting = @ /\ ~(a.live /\ a.kind = "comment")]
  /\ blur' = IF a.stage = "stored" THEN blur \cup {"row", "heart", "bookmark", "thread"}
             ELSE blur
  /\ UNCHANGED <<post, owner, lists, thread, edit, started>>
-------------------------------------------------------------------------------
PostNext ==
  \/ ReadFeed \/ ShowFeed \/ FeedLost \/ OtherFetched \/ SelectFeed
  \/ HandleLike \/ HandleSave \/ ToggleComments
  \/ ReadThread \/ ShowThread \/ ThreadLost \/ TypeComment \/ HandleAddComment
  \/ OpenEditor \/ (\E t \in Descriptions : TypeDescription(t)) \/ CancelEditor
  \/ SaveEdit \/ DeletePost
  \/ \E a \in acts : \/ StoreAct(a) \/ Liked(a) \/ SaveToggled(a) \/ Commented(a)
                     \/ Edited(a) \/ Deleted(a) \/ ActFails(a)

PostSpec == PostInit /\ [][PostNext]_postVars
-------------------------------------------------------------------------------
(* At rest the list shown, a new one or one gone back to, has the post as it  *)
(* is stored, its text, the reader's endorsement and bookmark and the number  *)
(* of comments, or not at all once it is deleted, however likes, comments,    *)
(* edits, a deletion and the fetches they start crossed.  Not so if an answer *)
(* was lost, if a list without an answer was opened with a request on its     *)
(* way, or if an answer of the list not shown was older than the change.      *)
PostKeepsUp ==
  acts = {} /\ Settled(feed) /\ "row" \notin blur => feed.data = FeedAnswer

(* The heart, its number and the bookmark are copies made when the post       *)
(* appears that no later list corrects.  With no request of theirs on its way *)
(* they still agree with what is stored; not so if an answer was lost or came *)
(* late as above, if the post appeared anew with a request on its way or from *)
(* the old row of a list gone back to, which the copy then keeps although the *)
(* list is fetched again, or, for the bookmark, if two clicks crossed.        *)
ButtonsAgree ==
  OnPage /\ post.there =>
    /\ ~Underway("like") /\ "heart" \notin blur
       => buttons.liked = post.liked /\ buttons.likes = One(post.liked)
    /\ ~Underway("save") /\ "bookmark" \notin blur => buttons.saved = post.saved

(* The thread, which a posted comment is written into and which is not        *)
(* fetched again, shows every comment of the reader once: none is missing,    *)
(* none doubled.  Only a fetch of the thread that crosses the request of a    *)
(* comment breaks this, and an answer lost.                                   *)
ThreadWhole ==
  post.there /\ thread.data # NoData /\ thread.fetch = "idle" /\ ~Stored("comment")
    /\ "thread" \notin blur =>
  /\ Len(thread.data) = Len(post.comments)
  /\ \A i \in DOMAIN post.comments : \E j \in DOMAIN thread.data : thread.data[j] = post.comments[i]

(* Neither copy of the post's data strays from what is stored.                *)
CopiesAgree == ButtonsAgree /\ ThreadWhole

(* The heart and the comment's form are disabled exactly while a request of   *)
(* theirs is on its way, so that neither waits for one that is over; closing  *)
(* the thread and opening it again forgets the request.                       *)
PostBusy ==
  /\ buttons.liking <=> Underway("like")
  /\ box.posting <=> Underway("comment")
===============================================================================
