---------------------------- MODULE FeedPost_proofs ----------------------------
(* A post of the feed for any number of requests, any texts and any order of  *)
(* answers: at rest the list shows what is stored, the buttons are disabled   *)
(* exactly while their request is on its way, and the copies of the post's    *)
(* data that no list corrects agree with it.                                  *)
EXTENDS FeedPost, TLAPS, FiniteSetTheorems

Kinds == {"like", "save", "comment", "edit", "delete"}
Whats == Descriptions \cup {0}
Acts ==
  {a \in [kind : Kinds, what : Whats, n : Nat, live : BOOLEAN, stage : {"sent", "stored"},
          says : BOOLEAN] : a.kind = "edit" => a.what \in Descriptions}
FeedAnswers == Rows \cup {Gone}
Parts == {"row", "heart", "bookmark", "thread"}

(* A query whose answers are in D, and what refetching it does: with data to  *)
(* show it always starts a new fetch.                                         *)
QueriesOf(D) ==
  [data : D \cup {NoData}, failed : BOOLEAN, fetch : {"idle", "asked", "read"},
   seen : D \cup {NoData}]

Feeds == QueriesOf(FeedAnswers)

PostType ==
  post \in [text : Descriptions, liked : BOOLEAN, saved : BOOLEAN, comments : Seq(Nat),
            there : BOOLEAN]

FeedType ==
  /\ feed \in Feeds /\ other \in Feeds /\ outdated \in BOOLEAN
  /\ Answered(feed) => feed.seen \in FeedAnswers
  /\ Answered(other) => other.seen \in FeedAnswers

PageType ==
  /\ buttons \in [likes : Nat, liked : BOOLEAN, saved : BOOLEAN, liking : BOOLEAN]
  /\ box \in [shown : BOOLEAN, typed : BOOLEAN, posting : BOOLEAN]
  /\ edit \in [open : BOOLEAN, text : Descriptions]

ActType == acts \subseteq Acts /\ started \in Nat

Types == PostType /\ FeedType /\ PageType /\ ActType

(* What a list read or shows is what is stored, unless its last fetch failed  *)
(* or, of a list that is not shown, it will be fetched when it is.            *)
Sees(q, spared) ==
  /\ Answered(q) => q.seen = FeedAnswer
  /\ q.fetch = "idle" => spared \/ q.failed \/ q.data = FeedAnswer

Waiting(set) == \E a \in set : a.stage = "stored"

(* Unless something was missed, either a request is stored and will have the  *)
(* lists fetched again when it is answered, or both lists see what is stored. *)
(* A request that is on its way has a list on the page, so that its fetch is  *)
(* not held back.                                                             *)
RowInSight ==
  "row" \notin blur =>
    /\ acts # {} => feed.data # NoData
    /\ Waiting(acts) \/ (Sees(feed, FALSE) /\ Sees(other, outdated \/ other.data = NoData))

(* One live request of the heart at most, and one of the comment's form.      *)
OneEach ==
  \A a, b \in acts :
    a.live /\ b.live /\ a.kind = b.kind /\ a.kind \in {"like", "comment"} => a = b
-------------------------------------------------------------------------------
LEMMA AnswerTypes == ASSUME PostType PROVE FeedAnswer \in FeedAnswers
<1>1. Len(post.comments) \in Nat
  BY DEF PostType
<1> QED BY <1>1 DEF FeedAnswer, PostType, FeedAnswers, Rows

LEMMA FirstText == FirstDescription \in Descriptions
BY PostAssumption DEF FirstDescription

LEMMA Refetched ==
  ASSUME NEW D, NEW q \in QueriesOf(D), Answered(q) => q.seen \in D
  PROVE  /\ Refetch(q) \in QueriesOf(D)
         /\ Answered(Refetch(q)) => Refetch(q).seen \in D
         /\ Refetch(q).data = q.data
         /\ Refetch(q) = q \/ Asked(Refetch(q))
         /\ q.data # NoData => Asked(Refetch(q))
<1>1. CASE q.fetch # "idle" /\ q.data = NoData
  BY <1>1 DEF Refetch
<1>2. CASE ~(q.fetch # "idle" /\ q.data = NoData)
  <2> DEFINE failing == q.failed /\ q.data # NoData
  <2>1. failing \in BOOLEAN
    OBVIOUS
  <2>2. Refetch(q) = [q EXCEPT !.fetch = "asked", !.seen = NoData, !.failed = failing]
    BY <1>2 DEF Refetch, QueriesOf
  <2> HIDE DEF failing
  <2> QED BY <2>1, <2>2 DEF QueriesOf, Answered, Asked
<1> QED BY <1>1, <1>2

(* What a step does to the list's query, by what the step is.                 *)
Finishes(a) ==
  /\ Done(a) /\ feed' = Refetch(feed) /\ UNCHANGED <<post, other>>
  /\ outdated' = (other.data # NoData)
  /\ blur' \in {blur \cup Overtaken, blur \cup Overtaken \cup {"thread"}}

LEMMA Completions ==
  ASSUME NEW a \in acts,
         Liked(a) \/ SaveToggled(a) \/ Commented(a) \/ Edited(a) \/ Deleted(a)
  PROVE  Finishes(a)
<1>1. blur' \in {blur \cup Overtaken, blur \cup Overtaken \cup {"thread"}}
  BY DEF Liked, SaveToggled, Commented, Edited, Deleted
<1> QED BY <1>1 DEF Finishes, Invalidate, Liked, SaveToggled, Commented, Edited, Deleted

(* The steps of the page that send nothing and hear of nothing.               *)
Quietly ==
  \/ ReadThread \/ ShowThread \/ ThreadLost \/ TypeComment \/ ToggleComments
  \/ OpenEditor \/ (\E t \in Descriptions : TypeDescription(t)) \/ CancelEditor

(* The fetches of the lists, and going from one to the other.                 *)
Fetches == ReadFeed \/ ShowFeed \/ FeedLost \/ OtherFetched \/ SelectFeed

Sends == HandleLike \/ HandleSave \/ HandleAddComment \/ SaveEdit \/ DeletePost

LEMMA Steps ==
  ASSUME [PostNext]_postVars
  PROVE  \/ Fetches \/ Quietly \/ Sends
         \/ \E a \in acts : StoreAct(a)
         \/ \E a \in acts : Liked(a) \/ SaveToggled(a) \/ Commented(a) \/ Edited(a) \/ Deleted(a)
         \/ \E a \in acts : ActFails(a)
         \/ UNCHANGED postVars
BY DEF PostNext, Fetches, Quietly, Sends

(* The list gone to is the one left before, unless it is fetched.             *)
LEMMA Selected ==
  ASSUME FeedType, SelectFeed
  PROVE  /\ feed' \in Feeds /\ other' = feed /\ outdated' = FALSE
         /\ \/ Asked(feed') /\ feed'.data \in {NoData, other.data}
            \/ feed' = other /\ (other.fetch = "idle" => other.data # NoData /\ ~outdated)
<1>1. Opened \in Feeds /\ Asked(Opened) /\ Opened.data = NoData
  BY DEF Opened, Feeds, QueriesOf, Asked
<1>2. CASE feed' = Opened
  BY <1>1, <1>2 DEF SelectFeed
<1>3. CASE feed' = other /\ (other.fetch = "idle" => other.data # NoData /\ ~outdated)
  BY <1>3 DEF SelectFeed, FeedType
<1>4. CASE feed' = Refetch(other) /\ other.fetch = "idle"
  <2>1. Refetch(other) \in Feeds /\ Refetch(other).data = other.data
    BY Refetched DEF FeedType, Feeds
  <2>2. Asked(Refetch(other))
    <3> DEFINE failing == other.failed /\ other.data # NoData
    <3>1. Refetch(other) = [other EXCEPT !.fetch = "asked", !.seen = NoData, !.failed = failing]
      BY <1>4 DEF Refetch, FeedType, Feeds, QueriesOf
    <3> HIDE DEF failing
    <3> QED BY <3>1 DEF FeedType, Feeds, QueriesOf, Asked
  <2> QED BY <1>4, <2>1, <2>2 DEF SelectFeed
<1> QED BY <1>2, <1>3, <1>4 DEF SelectFeed, Returned
-------------------------------------------------------------------------------
LEMMA TypesInit == PostInit => Types
<1> SUFFICES ASSUME PostInit PROVE Types
  OBVIOUS
<1>1. PostType
  <2>1. <<>> \in Seq(Nat)
    OBVIOUS
  <2> QED BY <2>1, FirstText DEF PostInit, PostType
<1>2. FeedType
  <2>1. FeedAnswer \in FeedAnswers
    BY <1>1, AnswerTypes
  <2>2. Looked \in Feeds /\ ~Answered(Looked)
    BY <2>1 DEF Looked, Shows, Reads, Opened, Feeds, QueriesOf, Answered
  <2>3. Opened \in Feeds /\ NotOpened \in Feeds /\ ~Answered(Opened) /\ ~Answered(NotOpened)
    BY DEF Opened, NotOpened, Feeds, QueriesOf, Answered
  <2> QED BY <2>2, <2>3 DEF PostInit, FeedType
<1>3. PageType /\ ActType
  BY FirstText DEF PostInit, PageType, ActType, NoButtons, NoBox, NoEdit
<1> QED BY <1>1, <1>2, <1>3 DEF Types

LEMMA FeedTypeNext == ASSUME Types, [PostNext]_postVars PROVE FeedType'
<1> USE DEF Types, lists
<1>0. /\ feed \in Feeds /\ other \in Feeds /\ outdated \in BOOLEAN
      /\ Answered(feed) => feed.seen \in FeedAnswers
      /\ Answered(other) => other.seen \in FeedAnswers
  BY DEF FeedType
<1>1. CASE ReadFeed
  BY <1>0, <1>1, AnswerTypes DEF ReadFeed, Reads, Asked, FeedType, Feeds, QueriesOf, Answered
<1>2. CASE ShowFeed
  BY <1>0, <1>2 DEF ShowFeed, Shows, FeedType, Feeds, QueriesOf, Answered
<1>3. CASE FeedLost
  BY <1>0, <1>3 DEF FeedLost, Misses, FeedType, Feeds, QueriesOf, Answered
<1>4. CASE SelectFeed
  <2>1. Asked(feed') => ~Answered(feed')
    BY DEF Asked, Answered
  <2> QED BY <1>0, <1>4, <2>1, Selected DEF FeedType, Answered
<1>5. ASSUME NEW a \in acts, Finishes(a) PROVE FeedType'
  <2>1. feed' \in Feeds /\ (Answered(feed') => feed'.seen \in FeedAnswers)
    BY <1>0, <1>5, Refetched DEF Finishes, Feeds
  <2>2. other' = other /\ outdated' \in BOOLEAN
    BY <1>5 DEF Finishes
  <2> QED BY <1>0, <2>1, <2>2 DEF FeedType, Answered
<1>6. CASE UNCHANGED lists
  BY <1>6 DEF FeedType, Answered
<1>7. Quietly \/ Sends \/ (\E a \in acts : StoreAct(a) \/ ActFails(a)) \/ UNCHANGED postVars
        => UNCHANGED lists
  BY DEF Quietly, ReadThread, ShowThread, ThreadLost, TypeComment, ToggleComments, OpenEditor,
     TypeDescription, CancelEditor, Sends, HandleLike, HandleSave, HandleAddComment, SaveEdit,
     DeletePost, StoreAct, ActFails, postVars
<1>8. CASE OtherFetched
  <2>1. UNCHANGED feed /\ outdated' \in BOOLEAN
    BY <1>0, <1>8 DEF OtherFetched
  <2>2. other' \in Feeds /\ (Answered(other') => other'.seen \in FeedAnswers)
    <3>1. CASE other' = Reads(other, FeedAnswer)
      BY <1>0, <3>1, AnswerTypes DEF Reads, Feeds, QueriesOf
    <3>2. CASE Answered(other) /\ other' = Shows(other)
      BY <1>0, <3>2 DEF Shows, Feeds, QueriesOf, Answered
    <3>3. CASE other' = Misses(other)
      BY <1>0, <3>3 DEF Misses, Feeds, QueriesOf, Answered
    <3> QED BY <1>8, <3>1, <3>2, <3>3 DEF OtherFetched
  <2> QED BY <1>0, <2>1, <2>2 DEF FeedType, Answered
<1> QED BY Steps, Completions, <1>1, <1>2, <1>3, <1>4, <1>5, <1>6, <1>7, <1>8 DEF Fetches

LEMMA ActTypeNext == ASSUME Types, [PostNext]_postVars PROVE ActType'
<1> USE DEF Types
<1>1. Orphaned \subseteq Acts
  BY DEF Orphaned, ActType, Acts
<1>2. ASSUME NEW kind \in Kinds, NEW what \in Whats, Begin(kind, what),
             kind = "edit" => what \in Descriptions
      PROVE  ActType'
  <2> DEFINE new == [kind |-> kind, what |-> what, n |-> started + 1, live |-> TRUE,
                     stage |-> "sent", says |-> FALSE]
  <2>1. acts' = acts \cup {new} /\ started' = started + 1
    BY <1>2 DEF Begin
  <2>2. new \in Acts
    BY <1>2 DEF Acts, ActType
  <2> HIDE DEF new
  <2> QED BY <2>1, <2>2 DEF ActType
<1>3. CASE Sends
  <2>1. CASE HandleLike \/ HandleSave \/ HandleAddComment \/ DeletePost
    <3>1. ASSUME NEW kind \in Kinds \ {"edit"}, Begin(kind, 0) PROVE ActType'
      BY <1>2, <3>1 DEF Whats
    <3>2. Begin("like", 0) \/ Begin("save", 0) \/ Begin("comment", 0) \/ Begin("delete", 0)
      BY <2>1 DEF HandleLike, HandleSave, HandleAddComment, DeletePost
    <3> QED BY <3>1, <3>2 DEF Kinds
  <2>2. CASE SaveEdit
    <3>1. edit.text \in Descriptions /\ "edit" \in Kinds
      BY DEF PageType, Kinds
    <3>2. Begin("edit", edit.text)
      BY <2>2 DEF SaveEdit
    <3> QED BY <1>2, <3>1, <3>2 DEF Whats
  <2> QED BY <1>3, <2>1, <2>2 DEF Sends
<1>4. ASSUME NEW a \in acts, NEW says \in BOOLEAN, StoredWith(a, says), UNCHANGED started
      PROVE  ActType'
  <2>1. [a EXCEPT !.stage = "stored", !.says = says] \in Acts
    BY DEF ActType, Acts
  <2> QED BY <1>4, <2>1 DEF StoredWith, ActType
<1>5. ASSUME NEW a \in acts, StoreAct(a)
      PROVE  ActType'
  <2>1. (~post.liked) \in BOOLEAN /\ (~post.saved) \in BOOLEAN
    OBVIOUS
  <2> QED
    BY <1>4, <1>5, <2>1
    DEF StoreAct, StoreLike, StoreSave, StoreComment, StoreEdit, StoreDelete
<1>6. ASSUME acts' \subseteq acts, UNCHANGED started
      PROVE  ActType'
  BY <1>6 DEF ActType
<1>7. ASSUME NEW a \in acts,
             Liked(a) \/ SaveToggled(a) \/ Commented(a) \/ Edited(a) \/ Deleted(a)
               \/ ActFails(a)
      PROVE  ActType'
  BY <1>6, <1>7 DEF Liked, SaveToggled, Commented, Edited, Deleted, ActFails, Done
<1>8. CASE ReadFeed \/ FeedLost \/ OtherFetched \/ UNCHANGED postVars
  BY <1>6, <1>8 DEF ReadFeed, FeedLost, OtherFetched, postVars
<1>9. CASE ShowFeed
  BY <1>1, <1>6, <1>9 DEF ShowFeed, ActType
<1>10. CASE SelectFeed
  BY <1>1, <1>10 DEF SelectFeed, Reappears, ActType
<1>11. CASE ToggleComments
  <2>1. {[a EXCEPT !.live = @ /\ a.kind # "comment"] : a \in acts} \subseteq Acts
    <3> SUFFICES ASSUME NEW a \in acts
                 PROVE  [a EXCEPT !.live = @ /\ a.kind # "comment"] \in Acts
      OBVIOUS
    <3> DEFINE heard == a.live /\ a.kind # "comment"
    <3>1. heard \in BOOLEAN /\ a \in Acts
      BY DEF ActType
    <3>2. [a EXCEPT !.live = @ /\ a.kind # "comment"] = [a EXCEPT !.live = heard]
      BY <3>1 DEF Acts
    <3> HIDE DEF heard
    <3> QED BY <3>1, <3>2 DEF Acts
  <2> QED BY <1>6, <1>11, <2>1 DEF ToggleComments, ActType
<1>12. CASE Quietly /\ ~ToggleComments
  BY <1>6, <1>12
  DEF Quietly, ReadThread, ShowThread, ThreadLost, TypeComment, OpenEditor, TypeDescription,
      CancelEditor
<1> QED BY Steps, <1>3, <1>5, <1>7, <1>8, <1>9, <1>10, <1>11, <1>12 DEF Fetches

LEMMA PostTypeNext == ASSUME Types, [PostNext]_postVars PROVE PostType'
<1> USE DEF Types
<1>1. ASSUME NEW a \in acts, StoreAct(a)
      PROVE  PostType'
  <2>1. CASE StoreLike(a)
    BY <2>1 DEF StoreLike, PostType
  <2>2. CASE StoreSave(a)
    BY <2>2 DEF StoreSave, PostType
  <2>3. CASE StoreComment(a)
    <3>1. Append(post.comments, a.n) \in Seq(Nat)
      BY DEF PostType, ActType, Acts
    <3> QED BY <2>3, <3>1 DEF StoreComment, PostType
  <2>4. CASE StoreEdit(a)
    <3>1. a.what \in Descriptions
      BY <2>4 DEF StoreEdit, ActType, Acts
    <3> QED BY <2>4, <3>1 DEF StoreEdit, PostType
  <2>5. CASE StoreDelete(a)
    BY <2>5 DEF StoreDelete, PostType
  <2> QED BY <1>1, <2>1, <2>2, <2>3, <2>4, <2>5 DEF StoreAct
<1>2. ASSUME NEW a \in acts, Finishes(a) \/ ActFails(a)
      PROVE  PostType'
  BY <1>2 DEF Finishes, ActFails, PostType
<1>3. CASE Fetches \/ Quietly \/ Sends \/ UNCHANGED postVars
  <2>1. UNCHANGED post
    BY <1>3
    DEF Fetches, ReadFeed, ShowFeed, FeedLost, OtherFetched, SelectFeed, Quietly, ReadThread, ShowThread, ThreadLost,
        TypeComment, ToggleComments, OpenEditor, TypeDescription, CancelEditor, Sends,
        HandleLike, HandleSave, HandleAddComment, SaveEdit, DeletePost, postVars
  <2> QED BY <2>1 DEF PostType
<1> QED BY Steps, Completions, <1>1, <1>2, <1>3

LEMMA PageTypeNext == ASSUME Types, [PostNext]_postVars PROVE PageType'
<1> USE DEF Types
<1>1. CASE UNCHANGED postPage
  BY <1>1 DEF postPage, PageType
<1>2. NoButtons \in [likes : Nat, liked : BOOLEAN, saved : BOOLEAN, liking : BOOLEAN]
      /\ NoBox \in [shown : BOOLEAN, typed : BOOLEAN, posting : BOOLEAN]
      /\ \A t \in Descriptions : NoEdit(t) \in [open : BOOLEAN, text : Descriptions]
  BY DEF NoButtons, NoBox, NoEdit
<1>3. CASE ShowFeed
  <2>1. CASE feed.seen = Gone
    BY <1>2, <1>3, <2>1, FirstText DEF ShowFeed, PageType
  <2>2. CASE feed.seen \in Rows /\ ~OnPage /\ feed.seen # Gone
    <3>1. Fresh(feed.seen)
            \in [likes : Nat, liked : BOOLEAN, saved : BOOLEAN, liking : BOOLEAN]
      BY <2>2 DEF Fresh, One, Rows
    <3>2. feed.seen.text \in Descriptions
      BY <2>2 DEF Rows
    <3> QED BY <1>2, <1>3, <2>2, <3>1, <3>2 DEF ShowFeed, PageType
  <2>3. CASE OnPage /\ feed.seen # Gone
    BY <1>1, <1>3, <2>3 DEF ShowFeed
  <2>4. feed.seen = Gone \/ feed.seen \in Rows
    BY <1>3 DEF ShowFeed, FeedType, FeedAnswers
  <2> QED BY <2>1, <2>2, <2>3, <2>4
<1>4. CASE SelectFeed
  <2>1. CASE UNCHANGED postPage
    BY <1>1, <2>1
  <2>2. CASE Reappears(feed'.data)
    <3>1. CASE feed'.data \in {NoData, Gone}
      BY <1>2, <2>2, <3>1, FirstText DEF Reappears, PageType
    <3>2. CASE feed'.data \in Rows
      <4>1. Fresh(feed'.data)
              \in [likes : Nat, liked : BOOLEAN, saved : BOOLEAN, liking : BOOLEAN]
        BY <3>2 DEF Fresh, One, Rows
      <4>2. feed'.data.text \in Descriptions
        BY <3>2 DEF Rows
      <4>3. feed'.data \notin {NoData, Gone}
        BY <3>2, PostAssumption
      <4>4. buttons' = Fresh(feed'.data) /\ edit' = NoEdit(feed'.data.text) /\ box' = NoBox
        BY <2>2, <4>3 DEF Reappears
      <4> QED BY <1>2, <4>1, <4>2, <4>4 DEF PageType
    <3>3. feed'.data \in FeedAnswers \cup {NoData}
      BY <1>4, Selected DEF Feeds, QueriesOf
    <3> QED BY <3>1, <3>2, <3>3 DEF FeedAnswers
  <2> QED BY <1>4, <2>1, <2>2 DEF SelectFeed
<1>5. CASE Sends
  <2>1. CASE HandleLike
    BY <2>1 DEF HandleLike, PageType
  <2>2. CASE HandleAddComment
    BY <2>2 DEF HandleAddComment, PageType
  <2>3. CASE HandleSave \/ SaveEdit \/ DeletePost
    BY <1>1, <2>3 DEF HandleSave, SaveEdit, DeletePost
  <2> QED BY <1>5, <2>1, <2>2, <2>3 DEF Sends
<1>6. CASE Quietly
  <2>1. CASE ToggleComments
    <3>1. [NoBox EXCEPT !.shown = TRUE] \in [shown : BOOLEAN, typed : BOOLEAN, posting : BOOLEAN]
      BY DEF NoBox
    <3>2. box' \in {[NoBox EXCEPT !.shown = TRUE], NoBox} /\ UNCHANGED <<buttons, edit>>
      BY <2>1 DEF ToggleComments
    <3> QED BY <1>2, <3>1, <3>2 DEF PageType
  <2>2. CASE TypeComment
    <3>1. (~box.typed) \in BOOLEAN
      OBVIOUS
    <3> QED BY <2>2, <3>1 DEF TypeComment, PageType
  <2>3. CASE OpenEditor \/ CancelEditor
    BY <2>3 DEF OpenEditor, CancelEditor, PageType
  <2>4. ASSUME NEW t \in Descriptions, TypeDescription(t)
        PROVE  PageType'
    BY <2>4 DEF TypeDescription, PageType
  <2>5. CASE ReadThread \/ ShowThread \/ ThreadLost
    BY <1>1, <2>5 DEF ReadThread, ShowThread, ThreadLost
  <2> QED BY <1>6, <2>1, <2>2, <2>3, <2>4, <2>5 DEF Quietly
<1>7. ASSUME NEW a \in acts, Liked(a) \/ SaveToggled(a)
      PROVE  PageType'
  <2>1. a.says \in BOOLEAN
    BY DEF ActType, Acts
  <2>2. CASE Liked(a)
    <3> DEFINE likes == IF a.says THEN buttons.likes + 1
                        ELSE IF buttons.likes = 0 THEN 0 ELSE buttons.likes - 1
    <3>1. likes \in Nat
      BY DEF PageType
    <3>2. \/ buttons' = buttons
          \/ buttons' = [buttons EXCEPT !.liked = a.says, !.liking = FALSE, !.likes = likes]
      BY <2>2 DEF Liked, PageType
    <3>3. UNCHANGED <<box, edit>>
      BY <2>2 DEF Liked
    <3> HIDE DEF likes
    <3> QED BY <2>1, <3>1, <3>2, <3>3 DEF PageType
  <2>3. CASE SaveToggled(a)
    BY <2>1, <2>3 DEF SaveToggled, PageType
  <2> QED BY <1>7, <2>2, <2>3
<1>8. ASSUME NEW a \in acts, Commented(a) \/ Edited(a) \/ Deleted(a)
      PROVE  PageType'
  BY <1>8 DEF Commented, Edited, Deleted, PageType, postPage
<1>9. ASSUME NEW a \in acts, ActFails(a)
      PROVE  PageType'
  <2> DEFINE liking == buttons.liking /\ ~(a.live /\ a.kind = "like")
             posting == box.posting /\ ~(a.live /\ a.kind = "comment")
  <2>1. liking \in BOOLEAN /\ posting \in BOOLEAN
    OBVIOUS
  <2>2. buttons' = [buttons EXCEPT !.liking = liking] /\ box' = [box EXCEPT !.posting = posting]
    BY <1>9 DEF ActFails, PageType
  <2> HIDE DEF liking, posting
  <2> QED BY <1>9, <2>1, <2>2 DEF ActFails, PageType
<1>10. CASE ReadFeed \/ FeedLost \/ OtherFetched \/ UNCHANGED postVars \/ \E a \in acts : StoreAct(a)
  BY <1>1, <1>10 DEF ReadFeed, FeedLost, OtherFetched, postVars, StoreAct
<1> QED BY Steps, <1>3, <1>4, <1>5, <1>6, <1>7, <1>8, <1>9, <1>10 DEF Fetches

LEMMA TypesNext == Types /\ [PostNext]_postVars => Types'
BY FeedTypeNext, ActTypeNext, PostTypeNext, PageTypeNext DEF Types
-------------------------------------------------------------------------------
LEMMA OrphansWait ==
  ASSUME Types, Waiting(acts), acts' = acts \/ acts' = Orphaned
  PROVE  Waiting(acts')
<1> SUFFICES ASSUME NEW a \in acts, a.stage = "stored" PROVE Waiting(Orphaned)
  BY DEF Waiting
<1>1. [a EXCEPT !.live = FALSE].stage = "stored"
  BY DEF Types, ActType, Acts
<1>2. [a EXCEPT !.live = FALSE] \in Orphaned
  BY DEF Orphaned
<1> QED BY <1>1, <1>2 DEF Waiting

(* What the steps that fetch do to what a list sees.                          *)
LEMMA SeesMore ==
  ASSUME NEW q \in Feeds, NEW r \in Feeds, NEW s \in BOOLEAN, Sees(q, s), FeedAnswer' = FeedAnswer,
         r = Reads(q, FeedAnswer) \/ (Answered(q) /\ r = Shows(q)) \/ r = Misses(q)
  PROVE  /\ Answered(r) => r.seen = FeedAnswer'
         /\ r.fetch = "idle" => r.failed \/ r.data = FeedAnswer'
<1>1. CASE r = Reads(q, FeedAnswer)
  BY <1>1 DEF Reads, Feeds, QueriesOf, Answered
<1>2. CASE Answered(q) /\ r = Shows(q)
  BY <1>2 DEF Shows, Sees, Answered
<1>3. CASE r = Misses(q)
  BY <1>3 DEF Misses, Feeds, QueriesOf, Answered
<1> QED BY <1>1, <1>2, <1>3

LEMMA RowNext == Types /\ Types' /\ RowInSight /\ [PostNext]_postVars => RowInSight'
<1> DEFINE Spared == outdated \/ other.data = NoData
<1> SUFFICES ASSUME Types, Types', RowInSight, [PostNext]_postVars, "row" \notin blur'
             PROVE  /\ acts' # {} => feed'.data # NoData
                    /\ Waiting(acts') \/ (Sees(feed, FALSE)' /\ Sees(other, Spared)')
  BY DEF RowInSight, Waiting
<1> USE DEF Types, lists
<1>0. "row" \notin blur => /\ acts # {} => feed.data # NoData
                           /\ Waiting(acts) \/ (Sees(feed, FALSE) /\ Sees(other, Spared))
  BY DEF RowInSight
<1>1. feed \in Feeds /\ other \in Feeds /\ feed' \in Feeds /\ other' \in Feeds /\ Spared \in BOOLEAN
  BY DEF FeedType
<1>2. CASE ReadFeed \/ ShowFeed \/ FeedLost
  <2>1. FeedAnswer' = FeedAnswer /\ UNCHANGED <<other, outdated, blur>>
    BY <1>2 DEF ReadFeed, ShowFeed, FeedLost, FeedAnswer
  <2>2. Waiting(acts) => Waiting(acts')
    BY <1>2, OrphansWait DEF ReadFeed, ShowFeed, FeedLost
  <2>3. feed' = Reads(feed, FeedAnswer) \/ (Answered(feed) /\ feed' = Shows(feed)) \/ feed' = Misses(feed)
    BY <1>2 DEF ReadFeed, ShowFeed, FeedLost
  <2>4. ASSUME Sees(feed, FALSE) PROVE Sees(feed, FALSE)'
    <3>1. /\ Answered(feed') => feed'.seen = FeedAnswer'
          /\ feed'.fetch = "idle" => feed'.failed \/ feed'.data = FeedAnswer'
      BY <1>1, <2>1, <2>3, <2>4, SeesMore
    <3> QED BY <3>1 DEF Sees, Answered
  <2>5. Sees(other, Spared) => Sees(other, Spared)'
    BY <2>1 DEF Sees, Answered
  <2>6. acts' # {} => acts # {}
    BY <1>2 DEF ReadFeed, ShowFeed, FeedLost, Orphaned
  <2>7. feed.data # NoData => feed'.data # NoData
    <3>1. Answered(feed) => feed.seen # NoData
      BY PostAssumption DEF FeedType, FeedAnswers
    <3>2. Reads(feed, FeedAnswer).data = feed.data /\ Misses(feed).data = feed.data
      BY <1>1 DEF Reads, Misses, Feeds, QueriesOf
    <3>3. Shows(feed).data = feed.seen
      BY DEF Shows
    <3> QED BY <2>3, <3>1, <3>2, <3>3
  <2> QED BY <1>0, <2>1, <2>2, <2>4, <2>5, <2>6, <2>7
<1>3. CASE OtherFetched
  <2>1. FeedAnswer' = FeedAnswer /\ UNCHANGED <<feed, acts, blur>>
    BY <1>3 DEF OtherFetched, FeedAnswer
  <2>2. Sees(feed, FALSE) => Sees(feed, FALSE)'
    BY <2>1 DEF Sees, Answered
  <2>3. other' = Reads(other, FeedAnswer) \/ (Answered(other) /\ other' = Shows(other)) \/ other' = Misses(other)
    BY <1>3 DEF OtherFetched
  <2>4. ASSUME Sees(other, Spared) PROVE Sees(other, Spared)'
    <3> HIDE DEF Spared
    <3>1. /\ Answered(other') => other'.seen = FeedAnswer'
          /\ other'.fetch = "idle" => other'.failed \/ other'.data = FeedAnswer'
      BY <1>1, <2>1, <2>3, <2>4, SeesMore
    <3> QED BY <3>1 DEF Sees, Answered
  <2> QED BY <1>0, <2>1, <2>2, <2>4
<1>4. CASE SelectFeed
  <2>1. FeedAnswer' = FeedAnswer /\ other' = feed
    BY <1>4 DEF SelectFeed, FeedAnswer
  <2>2. Waiting(acts) => Waiting(acts')
    BY <1>4, OrphansWait DEF SelectFeed, Reappears
  <2>3. Sees(feed, FALSE) => Sees(other, Spared)'
    BY <2>1 DEF Sees, Answered
  <2>4. Sees(other, Spared) => Sees(feed, FALSE)'
    <3>1. CASE Asked(feed')
      BY <3>1 DEF Asked, Sees, Answered
    <3>2. CASE feed' = other /\ (other.fetch = "idle" => other.data # NoData /\ ~outdated)
      BY <2>1, <3>2 DEF Sees, Answered
    <3> QED BY <1>4, <3>1, <3>2, Selected
  <2>5. "row" \notin blur /\ (acts' # {} => feed'.data # NoData)
    BY <1>4, PostAssumption DEF SelectFeed, Reappears, Orphaned, OnPage
  <2> QED BY <1>0, <2>2, <2>3, <2>4, <2>5
<1>5. ASSUME UNCHANGED <<post, lists>>, Waiting(acts) => Waiting(acts'),
             "row" \notin blur, acts' # {} => acts # {} \/ OnPage
      PROVE  /\ acts' # {} => feed'.data # NoData
             /\ Waiting(acts') \/ (Sees(feed, FALSE)' /\ Sees(other, Spared)')
  <2>1. FeedAnswer' = FeedAnswer
    BY <1>5 DEF FeedAnswer
  <2>2. Sees(feed, FALSE) /\ Sees(other, Spared) => Sees(feed, FALSE)' /\ Sees(other, Spared)'
    BY <1>5, <2>1 DEF Sees, Answered
  <2> QED BY <1>0, <1>5, <2>2 DEF OnPage
<1>6. CASE Sends
  <2>1. OnPage /\ acts \subseteq acts'
    BY <1>6 DEF Begin, Sends, HandleLike, HandleSave, HandleAddComment, SaveEdit, DeletePost
  <2>2. UNCHANGED <<post, lists>> /\ "row" \notin blur
    BY <1>6 DEF Sends, HandleLike, HandleSave, HandleAddComment, SaveEdit, DeletePost
  <2> QED BY <1>5, <2>1, <2>2 DEF Waiting
<1>7. CASE ToggleComments
  <2>1. \/ acts' = acts
        \/ acts' = {[a EXCEPT !.live = @ /\ a.kind # "comment"] : a \in acts}
    BY <1>7 DEF ToggleComments
  <2>2. ASSUME NEW a \in acts, a.stage = "stored"
        PROVE  Waiting(acts')
    <3> DEFINE image == [a EXCEPT !.live = @ /\ a.kind # "comment"]
    <3>1. image.stage = "stored"
      BY <2>2 DEF ActType, Acts
    <3>2. a \in acts' \/ image \in acts'
      BY <2>1
    <3> HIDE DEF image
    <3> QED BY <2>2, <3>1, <3>2 DEF Waiting
  <2>3. acts' # {} => acts # {}
    BY <2>1
  <2>4. Waiting(acts) => Waiting(acts')
    BY <2>2 DEF Waiting
  <2> QED BY <1>5, <1>7, <2>3, <2>4 DEF ToggleComments
<1>8. CASE (Quietly /\ ~ToggleComments) \/ UNCHANGED postVars
  <2>1. UNCHANGED <<post, lists, acts, blur>> \/ (UNCHANGED <<post, lists, acts>> /\ blur \subseteq blur')
    BY <1>8
    DEF Quietly, ReadThread, ShowThread, ThreadLost, TypeComment, OpenEditor, TypeDescription,
        CancelEditor, postVars
  <2> QED BY <1>5, <2>1
<1>9. ASSUME NEW a \in acts, StoreAct(a)
      PROVE  (acts' # {} => feed'.data # NoData) /\ Waiting(acts')
  <2>1. \E says : StoredWith(a, says)
    BY <1>9 DEF StoreAct, StoreLike, StoreSave, StoreComment, StoreEdit, StoreDelete
  <2>2. PICK says : acts' = (acts \ {a}) \cup {[a EXCEPT !.stage = "stored", !.says = says]}
    BY <2>1 DEF StoredWith
  <2>3. [a EXCEPT !.stage = "stored", !.says = says].stage = "stored"
    BY DEF ActType, Acts
  <2> QED BY <1>0, <1>9, <2>2, <2>3 DEF StoreAct, Waiting
<1>10. ASSUME NEW a \in acts, Finishes(a)
       PROVE  feed'.data # NoData /\ (Waiting(acts') \/ (Sees(feed, FALSE)' /\ Sees(other, Spared)'))
  <2>1. "row" \notin blur /\ ~Answered(other)
    BY <1>10 DEF Finishes, Overtaken
  <2>2. feed'.data # NoData /\ Asked(feed')
    BY <1>0, <1>1, <1>10, <2>1, Refetched DEF Finishes, FeedType, Feeds
  <2>3. Sees(feed, FALSE)'
    BY <2>2 DEF Sees, Asked, Answered
  <2>4. Sees(other, Spared)'
    BY <1>10, <2>1 DEF Finishes, Sees, Answered
  <2> QED BY <2>2, <2>3, <2>4
<1>11. ASSUME NEW a \in acts, ActFails(a)
       PROVE  /\ UNCHANGED <<post, lists>> /\ "row" \notin blur
              /\ Waiting(acts) => Waiting(acts')
              /\ acts' # {} => acts # {}
  BY <1>11 DEF ActFails, Waiting
<1> QED
  BY Steps, Completions, <1>2, <1>3, <1>4, <1>5, <1>6, <1>7, <1>8, <1>9, <1>10, <1>11 DEF Fetches

(* However likes, bookmarks, comments, edits, a deletion and the fetches they *)
(* start cross: at rest the list shows what is stored of the post.            *)
THEOREM ListKeepsUp == PostSpec => []PostKeepsUp
<1>1. PostInit => Types /\ RowInSight
  <2> SUFFICES ASSUME PostInit PROVE Sees(feed, FALSE) /\ Sees(other, outdated \/ other.data = NoData)
    BY TypesInit DEF PostInit, RowInSight
  <2> QED BY DEF PostInit, Sees, NotOpened, Looked, Shows, Reads, Opened, Answered
<1>2. (Types /\ RowInSight) /\ [PostNext]_postVars => (Types /\ RowInSight)'
  BY TypesNext, RowNext
<1>3. RowInSight => PostKeepsUp
  BY DEF RowInSight, PostKeepsUp, Settled, Sees, Waiting
<1> QED BY <1>1, <1>2, <1>3, PTL DEF PostSpec
-------------------------------------------------------------------------------
(* A post that is not on the page has no request the page still hears of.     *)
OffPage == ~OnPage => \A a \in acts : ~a.live

ButtonsBusy == PostBusy /\ OneEach /\ OffPage

(* The three ways a step can leave the flags and the requests in step.        *)
LEMMA SameBusy ==
  ASSUME ButtonsBusy, acts' = acts, OnPage => OnPage',
         buttons'.liking <=> buttons.liking, box'.posting <=> box.posting
  PROVE  ButtonsBusy'
BY DEF ButtonsBusy, PostBusy, OneEach, OffPage, Underway

LEMMA NoneLive ==
  ASSUME \A a \in acts' : ~a.live, ~buttons'.liking, ~box'.posting
  PROVE  ButtonsBusy'
BY DEF ButtonsBusy, PostBusy, OneEach, OffPage, Underway

LEMMA OneLess ==
  ASSUME ButtonsBusy, NEW a \in acts, acts' = acts \ {a}, OnPage => OnPage',
         buttons'.liking <=> buttons.liking /\ ~(a.live /\ a.kind = "like"),
         box'.posting <=> box.posting /\ ~(a.live /\ a.kind = "comment")
  PROVE  ButtonsBusy'
<1>1. ASSUME NEW kind \in {"like", "comment"}
      PROVE  Underway(kind)' <=> Underway(kind) /\ ~(a.live /\ a.kind = kind)
  BY <1>1 DEF ButtonsBusy, OneEach, Underway
<1>2. PostBusy'
  BY <1>1 DEF ButtonsBusy, PostBusy
<1> QED BY <1>2 DEF ButtonsBusy, OneEach, OffPage

(* A request that is stored keeps its kind and whether it is heard of.        *)
LEMMA StoredBusy ==
  ASSUME Types, ButtonsBusy, NEW a \in acts, NEW says, StoredWith(a, says), UNCHANGED <<feed, postPage>>
  PROVE  ButtonsBusy'
<1> DEFINE new == [a EXCEPT !.stage = "stored", !.says = says]
<1>1. new.live = a.live /\ new.kind = a.kind
  BY DEF Types, ActType, Acts
<1>2. acts' = (acts \ {a}) \cup {new}
  BY DEF StoredWith
<1> HIDE DEF new
<1>3. Underway("like")' <=> Underway("like")
  BY <1>1, <1>2 DEF Underway
<1>4. Underway("comment")' <=> Underway("comment")
  BY <1>1, <1>2 DEF Underway
<1>5. OneEach'
  BY <1>1, <1>2 DEF ButtonsBusy, OneEach
<1>6. OffPage'
  BY <1>1, <1>2 DEF ButtonsBusy, OffPage, OnPage
<1> QED BY <1>3, <1>4, <1>5, <1>6 DEF ButtonsBusy, PostBusy, postPage

(* A request is sent with the flag of its kind going up, if it has one.       *)
LEMMA BeginBusy ==
  ASSUME ButtonsBusy, NEW kind \in Kinds, NEW what, Begin(kind, what), UNCHANGED feed,
         kind \in {"like", "comment"} => ~Underway(kind),
         buttons'.liking <=> buttons.liking \/ kind = "like",
         box'.posting <=> box.posting \/ kind = "comment"
  PROVE  ButtonsBusy'
<1> DEFINE new == [kind |-> kind, what |-> what, n |-> started + 1, live |-> TRUE,
                   stage |-> "sent", says |-> FALSE]
<1>1. new.live /\ new.kind = kind
  OBVIOUS
<1>2. acts' = acts \cup {new} /\ OnPage
  BY DEF Begin
<1> HIDE DEF new
<1>3. Underway("like")' <=> Underway("like") \/ kind = "like"
  BY <1>1, <1>2 DEF Underway
<1>4. Underway("comment")' <=> Underway("comment") \/ kind = "comment"
  BY <1>1, <1>2 DEF Underway
<1>5. OneEach'
  BY <1>1, <1>2 DEF ButtonsBusy, OneEach, Underway
<1>6. OffPage'
  BY <1>2 DEF OffPage, OnPage
<1> QED BY <1>3, <1>4, <1>5, <1>6 DEF ButtonsBusy, PostBusy

(* A comment's form that is closed waits for nothing.                         *)
ClosedIdle == box.posting => box.shown

LEMMA ClosedNext == Types /\ ClosedIdle /\ [PostNext]_postVars => ClosedIdle'
<1> SUFFICES ASSUME Types, ClosedIdle, [PostNext]_postVars PROVE ClosedIdle'
  OBVIOUS
<1> USE DEF Types, PageType, lists
<1>1. CASE UNCHANGED box
  BY <1>1 DEF ClosedIdle
<1>2. CASE ReadFeed \/ FeedLost \/ OtherFetched \/ UNCHANGED postVars
  BY <1>1, <1>2 DEF ReadFeed, FeedLost, OtherFetched, postVars, postPage
<1>3. CASE ShowFeed \/ SelectFeed
  BY <1>1, <1>3 DEF ShowFeed, SelectFeed, Reappears, NoBox, ClosedIdle, postPage
<1>4. CASE Sends
  BY <1>4
  DEF Sends, HandleLike, HandleSave, HandleAddComment, SaveEdit, DeletePost, postPage, ClosedIdle
<1>5. CASE ToggleComments
  BY <1>5 DEF ToggleComments, NoBox, ClosedIdle
<1>6. CASE TypeComment
  BY <1>6 DEF TypeComment, ClosedIdle
<1>7. CASE Quietly /\ ~ToggleComments /\ ~TypeComment
  BY <1>1, <1>7
  DEF Quietly, ReadThread, ShowThread, ThreadLost, OpenEditor, TypeDescription, CancelEditor,
      postPage
<1>8. ASSUME NEW a \in acts,
             \/ StoreAct(a) \/ Liked(a) \/ SaveToggled(a) \/ Commented(a) \/ Edited(a)
             \/ Deleted(a) \/ ActFails(a)
      PROVE  ClosedIdle'
  BY <1>8
  DEF StoreAct, Liked, SaveToggled, Commented, Edited, Deleted, ActFails, postPage, ClosedIdle
<1> QED BY Steps, <1>2, <1>3, <1>4, <1>5, <1>6, <1>7, <1>8 DEF Fetches

LEMMA BusyNext == Types /\ ClosedIdle /\ ButtonsBusy /\ [PostNext]_postVars => ButtonsBusy'
<1> SUFFICES ASSUME Types, ClosedIdle, ButtonsBusy, [PostNext]_postVars PROVE ButtonsBusy'
  OBVIOUS
<1> USE DEF Types, lists
<1>1. \A a \in Orphaned : ~a.live
  <2> SUFFICES ASSUME NEW a \in acts PROVE ~[a EXCEPT !.live = FALSE].live
    BY DEF Orphaned
  <2> QED BY DEF ActType, Acts
<1>2. ~NoButtons.liking /\ ~NoBox.posting /\ (\A row : ~Fresh(row).liking)
  BY DEF NoButtons, NoBox, Fresh
<1>3. CASE ReadFeed \/ FeedLost
  <2>1. feed'.data = feed.data /\ acts' = acts /\ UNCHANGED <<buttons, box>>
    BY <1>3 DEF ReadFeed, FeedLost, Reads, Misses, FeedType, Feeds, QueriesOf, postPage
  <2> QED BY <2>1, SameBusy DEF OnPage
<1>4. CASE ShowFeed
  <2>1. feed'.data = feed.seen /\ feed.seen # NoData
    BY <1>4, PostAssumption DEF ShowFeed, Shows, FeedType, Feeds, QueriesOf, FeedAnswers
  <2>2. CASE feed.seen = Gone
    BY <1>1, <1>2, <1>4, <2>2, NoneLive DEF ShowFeed
  <2>3. CASE OnPage /\ feed.seen # Gone
    BY <1>4, <2>1, <2>3, SameBusy DEF ShowFeed, OnPage, postPage
  <2>4. CASE ~OnPage /\ feed.seen # Gone
    <3>1. acts' = acts /\ ~buttons'.liking /\ UNCHANGED box
      BY <1>2, <1>4, <2>4 DEF ShowFeed
    <3>2. \A a \in acts : ~a.live
      BY <2>4 DEF ButtonsBusy, OffPage
    <3>3. ~box'.posting
      BY <3>1, <3>2 DEF ButtonsBusy, PostBusy, Underway
    <3> QED BY <3>1, <3>2, <3>3, NoneLive
  <2> QED BY <2>2, <2>3, <2>4
<1>5. CASE SelectFeed
  <2>1. CASE OnPage /\ OnPage' /\ UNCHANGED <<postPage, acts>>
    BY <2>1, SameBusy DEF postPage
  <2>2. CASE Reappears(feed'.data)
    BY <1>1, <1>2, <2>2, NoneLive DEF Reappears
  <2> QED BY <1>5, <2>1, <2>2 DEF SelectFeed
<1>6. CASE Sends
  <2>1. CASE HandleLike
    <3>1. buttons'.liking /\ ~buttons.liking /\ UNCHANGED box /\ Begin("like", 0) /\ feed' = feed
      BY <2>1 DEF HandleLike, PageType
    <3> QED BY <3>1, BeginBusy DEF Kinds, ButtonsBusy, PostBusy
  <2>2. CASE HandleAddComment
    <3>1. box'.posting /\ ~box.posting /\ UNCHANGED buttons /\ Begin("comment", 0)
            /\ feed' = feed
      BY <2>2 DEF HandleAddComment, PageType
    <3> QED BY <3>1, BeginBusy DEF Kinds, ButtonsBusy, PostBusy
  <2>3. CASE HandleSave \/ SaveEdit \/ DeletePost
    <3>1. Begin("save", 0) \/ Begin("edit", edit.text) \/ Begin("delete", 0)
      BY <2>3 DEF HandleSave, SaveEdit, DeletePost
    <3>2. UNCHANGED <<feed, buttons, box>>
      BY <2>3 DEF HandleSave, SaveEdit, DeletePost, postPage
    <3> QED BY <3>1, <3>2, BeginBusy DEF Kinds
  <2> QED BY <1>6, <2>1, <2>2, <2>3 DEF Sends
<1>7. CASE ToggleComments
  <2>1. feed' = feed /\ buttons' = buttons /\ ~box'.posting
    BY <1>7 DEF ToggleComments, NoBox
  <2>2. CASE acts' = acts /\ ~box.shown
    <3>1. ~box.posting
      BY <2>2 DEF ClosedIdle
    <3> QED BY <2>1, <2>2, <3>1, SameBusy DEF OnPage
  <2>3. CASE acts' = {[a EXCEPT !.live = @ /\ a.kind # "comment"] : a \in acts}
    <3> DEFINE image(a) == [a EXCEPT !.live = @ /\ a.kind # "comment"]
    <3>1. \A a \in acts : /\ image(a).kind = a.kind
                          /\ image(a).live <=> a.live /\ a.kind # "comment"
                          /\ a.kind = "like" => image(a) = a
      BY DEF ActType, Acts
    <3>2. acts' = {image(a) : a \in acts}
      BY <2>3
    <3> HIDE DEF image
    <3>3. ~Underway("comment")'
      BY <3>1, <3>2 DEF Underway
    <3>4. Underway("like")' <=> Underway("like")
      BY <3>1, <3>2 DEF Underway
    <3>5. OneEach'
      BY <3>1, <3>2 DEF ButtonsBusy, OneEach
    <3>6. OffPage'
      BY <1>7, <2>1 DEF ToggleComments, OffPage, OnPage
    <3> QED BY <2>1, <3>3, <3>4, <3>5, <3>6 DEF ButtonsBusy, PostBusy
  <2> QED BY <1>7, <2>1, <2>2, <2>3 DEF ToggleComments
<1>8. CASE Quietly /\ ~ToggleComments
  <2>1. feed' = feed /\ acts' = acts /\ buttons' = buttons
    BY <1>8
    DEF Quietly, ReadThread, ShowThread, ThreadLost, TypeComment, OpenEditor, TypeDescription,
        CancelEditor, postPage
  <2>2. box'.posting = box.posting
    BY <1>8
    DEF Quietly, ReadThread, ShowThread, ThreadLost, TypeComment, OpenEditor, TypeDescription,
        CancelEditor, postPage, PageType
  <2> QED BY <2>1, <2>2, SameBusy DEF OnPage
<1>9. ASSUME NEW a \in acts, StoreAct(a)
      PROVE  ButtonsBusy'
  <2>1. \E says : StoredWith(a, says)
    BY <1>9 DEF StoreAct, StoreLike, StoreSave, StoreComment, StoreEdit, StoreDelete
  <2> QED BY <1>9, <2>1, StoredBusy DEF StoreAct
<1>10. ASSUME NEW a \in acts,
              Liked(a) \/ SaveToggled(a) \/ Commented(a) \/ Edited(a) \/ Deleted(a)
       PROVE  ButtonsBusy'
  <2>1. acts' = acts \ {a} /\ (OnPage => OnPage')
    BY <1>10, Completions, Refetched DEF Finishes, Done, FeedType, Feeds, OnPage
  <2>2. a.live => Underway(a.kind)
    BY DEF Underway
  <2>3. buttons'.liking <=> buttons.liking /\ ~(a.live /\ a.kind = "like")
    BY <1>10 DEF Liked, SaveToggled, Commented, Edited, Deleted, postPage, PageType
  <2>4. box'.posting <=> box.posting /\ ~(a.live /\ a.kind = "comment")
    BY <1>10 DEF Liked, SaveToggled, Commented, Edited, Deleted, postPage, PageType
  <2> QED BY <2>1, <2>3, <2>4, OneLess
<1>11. ASSUME NEW a \in acts, ActFails(a)
       PROVE  ButtonsBusy'
  <2>1. /\ acts' = acts \ {a} /\ feed' = feed
        /\ buttons'.liking <=> buttons.liking /\ ~(a.live /\ a.kind = "like")
        /\ box'.posting <=> box.posting /\ ~(a.live /\ a.kind = "comment")
    BY <1>11 DEF ActFails, PageType
  <2> QED BY <2>1, OneLess DEF OnPage
<1>12. CASE OtherFetched \/ UNCHANGED postVars
  BY <1>12, SameBusy DEF OtherFetched, postVars, postPage, OnPage
<1> QED BY Steps, <1>3, <1>4, <1>5, <1>6, <1>7, <1>8, <1>9, <1>10, <1>11, <1>12 DEF Fetches

LEMMA BusyStart == PostInit => ClosedIdle /\ ButtonsBusy
<1>1. PostInit => acts = {} /\ ~buttons.liking /\ ~box.posting
  BY DEF PostInit, NoButtons, NoBox
<1> QED BY <1>1 DEF ClosedIdle, ButtonsBusy, PostBusy, OneEach, OffPage, Underway

(* The heart and the comment's form are disabled exactly while a request of   *)
(* theirs is on its way, in however many lists the post comes and goes.       *)
THEOREM ButtonsFollow == PostSpec => []PostBusy
<1>1. PostInit => Types /\ ClosedIdle /\ ButtonsBusy
  BY TypesInit, BusyStart
<1>2. (Types /\ ClosedIdle /\ ButtonsBusy) /\ [PostNext]_postVars => (Types /\ ClosedIdle /\ ButtonsBusy)'
  BY TypesNext, ClosedNext, BusyNext
<1>3. ButtonsBusy => PostBusy
  BY DEF ButtonsBusy
<1> QED BY <1>1, <1>2, <1>3, PTL DEF PostSpec
-------------------------------------------------------------------------------
(* The heart and the bookmark.  A request that is stored and on its way back  *)
(* holds the difference between the page's copy and what is stored.           *)
OnWayBack(kind) == {a \in acts : a.kind = kind /\ a.stage = "stored"}

(* A list that says the post is gone read so.                                 *)
GoneIn(q) == Answered(q) /\ q.seen = Gone => ~post.there
GoneTold == GoneIn(feed) /\ GoneIn(other)

(* As long as no list was left with a request on its way and none shown that  *)
(* was out of date: the requests have their page, and what a list has read is *)
(* what is stored, or a request will have it fetched again.                   *)
Told(q) == Answered(q) => Waiting(acts) \/ q.seen = FeedAnswer

InPlace ==
  post.there /\ "heart" \notin blur =>
    /\ acts # {} => OnPage
    /\ \A a \in acts : a.kind \in {"like", "save"} => a.live
    /\ Told(feed) /\ Told(other)

HeartFollows ==
  post.there /\ "heart" \notin blur /\ OnPage =>
    IF OnWayBack("like") = {}
    THEN buttons.liked = post.liked /\ buttons.likes = One(post.liked)
    ELSE /\ buttons.likes = One(~post.liked)
         /\ \A a \in OnWayBack("like") : a.says = post.liked

BookmarkFollows ==
  /\ "heart" \in blur => "bookmark" \in blur
  /\ post.there /\ "bookmark" \notin blur /\ OnPage =>
       /\ \A a, b \in acts : a.kind = "save" /\ b.kind = "save" => a = b
       /\ IF OnWayBack("save") = {} THEN buttons.saved = post.saved
          ELSE \A a \in OnWayBack("save") : a.says = post.saved

LEMMA AnswerThere == ASSUME PostType, FeedAnswer = Gone PROVE ~post.there
<1>1. Len(post.comments) \in Nat
  BY DEF PostType
<1> QED BY <1>1, PostAssumption DEF FeedAnswer, PostType, Rows

LEMMA GoneNext == Types /\ GoneTold /\ [PostNext]_postVars => GoneTold'
<1> SUFFICES ASSUME Types, GoneTold, [PostNext]_postVars PROVE GoneIn(feed)' /\ GoneIn(other)'
  BY DEF GoneTold
<1> USE DEF Types, lists
<1>0. feed \in Feeds /\ other \in Feeds /\ GoneIn(feed) /\ GoneIn(other)
  BY DEF FeedType, GoneTold
<1>1. ASSUME NEW q \in Feeds, post' = post PROVE LET r == Reads(q, FeedAnswer) IN
             Answered(r) /\ r.seen = Gone => ~post'.there
  BY <1>1, AnswerThere DEF Reads, Feeds, QueriesOf
<1>2. \A q \in Feeds : ~Answered(Shows(q)) /\ ~Answered(Misses(q))
  BY DEF Shows, Misses, Answered, Feeds, QueriesOf
<1>3. CASE ReadFeed \/ ShowFeed \/ FeedLost
  <2>1. /\ UNCHANGED <<post, other>>
        /\ feed' \in {Reads(feed, FeedAnswer), Shows(feed), Misses(feed)}
    BY <1>3 DEF ReadFeed, ShowFeed, FeedLost
  <2>2. GoneIn(other)'
    BY <1>0, <2>1 DEF GoneIn, Answered
  <2> QED BY <1>0, <1>1, <1>2, <2>1, <2>2 DEF GoneIn, Answered
<1>4. CASE OtherFetched
  <2>1. /\ UNCHANGED <<post, feed>>
        /\ other' \in {Reads(other, FeedAnswer), Shows(other), Misses(other)}
    BY <1>4 DEF OtherFetched
  <2>2. GoneIn(feed)'
    BY <1>0, <2>1 DEF GoneIn, Answered
  <2> QED BY <1>0, <1>1, <1>2, <2>1, <2>2 DEF GoneIn, Answered
<1>5. CASE SelectFeed
  <2>1. UNCHANGED post /\ other' = feed /\ (feed' = other \/ Asked(feed'))
    BY <1>5, Selected DEF SelectFeed
  <2> QED BY <1>0, <2>1 DEF GoneIn, Asked, Answered
<1>6. CASE UNCHANGED lists /\ (post'.there => post.there)
  BY <1>0, <1>6 DEF GoneIn, Answered
<1>7. ASSUME NEW a \in acts, StoreAct(a) PROVE UNCHANGED lists /\ (post'.there => post.there)
  BY <1>7 DEF StoreAct, StoreLike, StoreSave, StoreComment, StoreEdit, StoreDelete, PostType
<1>8. ASSUME NEW a \in acts, Finishes(a) PROVE GoneTold'
  <2>1. feed' = feed \/ Asked(feed')
    BY <1>0, <1>8, Refetched DEF Finishes, FeedType, Feeds
  <2>2. UNCHANGED <<post, other>>
    BY <1>8 DEF Finishes
  <2> QED BY <1>0, <2>1, <2>2 DEF GoneTold, GoneIn, Asked, Answered
<1>9. ASSUME Quietly \/ Sends \/ (\E a \in acts : ActFails(a)) \/ UNCHANGED postVars
      PROVE  UNCHANGED <<post, lists>>
  BY <1>9
  DEF Quietly, ReadThread, ShowThread, ThreadLost, TypeComment, ToggleComments, OpenEditor,
      TypeDescription, CancelEditor, Sends, HandleLike, HandleSave, HandleAddComment, SaveEdit,
      DeletePost, ActFails, postVars
<1> QED BY Steps, Completions, <1>3, <1>4, <1>5, <1>6, <1>7, <1>8, <1>9 DEF Fetches, GoneTold

(* What a request is after the thread is closed, and how requests are added.  *)
LEMMA ClosedActs ==
  ASSUME Types, ToggleComments
  PROVE  /\ \A b \in acts' : b.kind # "comment" => b \in acts
         /\ \A b \in acts : b.kind # "comment" => b \in acts'
         /\ acts' = {} <=> acts = {}
<1> DEFINE image(a) == [a EXCEPT !.live = @ /\ a.kind # "comment"]
<1>1. \A a \in acts : image(a).kind = a.kind /\ (a.kind # "comment" => image(a) = a)
  BY DEF Types, ActType, Acts
<1>2. acts' = acts \/ acts' = {image(a) : a \in acts}
  BY DEF ToggleComments
<1> HIDE DEF image
<1> QED BY <1>1, <1>2

LEMMA SentActs ==
  ASSUME Sends
  PROVE  /\ OnPage /\ acts \subseteq acts' /\ UNCHANGED <<post, lists>>
         /\ \A b \in acts' \ acts : b.stage = "sent" /\ b.live /\ (b.kind = "save" => HandleSave)
BY DEF Sends, HandleLike, HandleSave, HandleAddComment, SaveEdit, DeletePost, Begin

(* What storing a request writes, and how the request comes out of it.        *)
Writes(a, new) ==
  /\ a.kind = "like" => new.says = ~post.liked /\ post'.liked = ~post.liked
  /\ a.kind = "save" => new.says = ~post.saved /\ post'.saved = ~post.saved
  /\ a.kind # "like" => post'.liked = post.liked
  /\ a.kind # "save" => post'.saved = post.saved
  /\ post'.comments = IF a.kind = "comment" THEN Append(post.comments, a.n) ELSE post.comments

Stamped(a, new) ==
  /\ new.kind = a.kind /\ new.live = a.live /\ new.n = a.n /\ new.stage = "stored"

LEMMA StoredActs ==
  ASSUME Types, NEW a \in acts, StoreAct(a)
  PROVE  /\ a.stage = "sent" /\ (post'.there => post.there)
         /\ UNCHANGED <<lists, thread, buttons, blur, started>>
         /\ \E new : acts' = (acts \ {a}) \cup {new} /\ Stamped(a, new) /\ Writes(a, new)
<1> USE DEF Types, lists
<1> DEFINE as(says) == [a EXCEPT !.stage = "stored", !.says = says]
<1>1. \A says : Stamped(a, as(says)) /\ as(says).says = says
  BY DEF ActType, Acts, Stamped
<1>2. \A says : StoredWith(a, says) => acts' = (acts \ {a}) \cup {as(says)}
  BY DEF StoredWith
<1> HIDE DEF as
<1>3. CASE StoreLike(a)
  <2>1. Writes(a, as(~post.liked)) /\ (post'.there => post.there)
    BY <1>1, <1>3 DEF StoreLike, Writes, PostType
  <2> QED BY <1>1, <1>2, <1>3, <2>1 DEF StoreAct, StoreLike, postPage
<1>4. CASE StoreSave(a)
  <2>1. Writes(a, as(~post.saved)) /\ (post'.there => post.there)
    BY <1>1, <1>4 DEF StoreSave, Writes, PostType
  <2> QED BY <1>1, <1>2, <1>4, <2>1 DEF StoreAct, StoreSave, postPage
<1>5. CASE StoreComment(a)
  <2>1. Writes(a, as(TRUE)) /\ (post'.there => post.there)
    BY <1>1, <1>5 DEF StoreComment, Writes, PostType
  <2> QED BY <1>1, <1>2, <1>5, <2>1 DEF StoreAct, StoreComment, postPage
<1>6. CASE StoreEdit(a)
  <2>1. Writes(a, as(TRUE)) /\ (post'.there => post.there)
    BY <1>1, <1>6 DEF StoreEdit, Writes, PostType
  <2> QED BY <1>1, <1>2, <1>6, <2>1 DEF StoreAct, StoreEdit, postPage
<1>7. CASE StoreDelete(a)
  <2>1. Writes(a, as(TRUE)) /\ (post'.there => post.there)
    BY <1>1, <1>7 DEF StoreDelete, Writes, PostType
  <2> QED BY <1>1, <1>2, <1>7, <2>1 DEF StoreAct, StoreDelete, postPage
<1> QED BY <1>3, <1>4, <1>5, <1>6, <1>7 DEF StoreAct

LEMMA InPlaceNext == Types /\ GoneTold /\ InPlace /\ [PostNext]_postVars => InPlace'
<1> SUFFICES ASSUME Types, GoneTold, InPlace, [PostNext]_postVars, post'.there, "heart" \notin blur'
             PROVE  /\ acts' # {} => OnPage'
                    /\ \A a \in acts' : a.kind \in {"like", "save"} => a.live
                    /\ Told(feed)' /\ Told(other)'
  BY DEF InPlace
<1> USE DEF Types, lists
<1>0. feed \in Feeds /\ other \in Feeds
  BY DEF FeedType
<1>1. post.there /\ "heart" \notin blur =>
        /\ acts # {} => OnPage
        /\ \A a \in acts : a.kind \in {"like", "save"} => a.live
        /\ Told(feed) /\ Told(other)
  BY DEF InPlace
<1>2. \A q \in Feeds :
        /\ Reads(q, FeedAnswer).seen = FeedAnswer /\ Reads(q, FeedAnswer).data = q.data
        /\ ~Answered(Shows(q)) /\ ~Answered(Misses(q)) /\ Misses(q).data = q.data
  BY DEF Reads, Shows, Misses, Answered, Feeds, QueriesOf
<1>3. CASE ReadFeed \/ FeedLost
  <2>1. UNCHANGED <<post, acts, other, blur>> /\ FeedAnswer' = FeedAnswer
    BY <1>3 DEF ReadFeed, FeedLost, FeedAnswer
  <2>2. feed'.data = feed.data /\ (Answered(feed') => feed'.seen = FeedAnswer)
    BY <1>0, <1>2, <1>3 DEF ReadFeed, FeedLost
  <2> QED BY <1>1, <2>1, <2>2 DEF OnPage, Told, Answered, Waiting
<1>4. CASE ShowFeed
  <2>1. feed.seen # Gone /\ feed.seen # NoData
    BY <1>4, PostAssumption DEF ShowFeed, GoneTold, GoneIn, FeedType, FeedAnswers
  <2>2. OnPage' /\ acts' = acts /\ UNCHANGED <<post, other, blur>> /\ ~Answered(feed')
    BY <1>4, <2>1 DEF ShowFeed, Shows, OnPage, Answered
  <2>3. FeedAnswer' = FeedAnswer
    BY <2>2 DEF FeedAnswer
  <2> QED BY <1>1, <2>2, <2>3 DEF Told, Answered, Waiting
<1>5. CASE OtherFetched
  <2>1. UNCHANGED <<post, acts, feed, blur>> /\ FeedAnswer' = FeedAnswer
    BY <1>5 DEF OtherFetched, FeedAnswer
  <2>2. Answered(other') => other'.seen = FeedAnswer
    BY <1>0, <1>2, <1>5 DEF OtherFetched
  <2> QED BY <1>1, <2>1, <2>2 DEF OnPage, Told, Answered, Waiting
<1>6. CASE SelectFeed
  <2>1. UNCHANGED post /\ FeedAnswer' = FeedAnswer /\ "heart" \notin blur
    BY <1>6 DEF SelectFeed, Reappears, FeedAnswer
  <2>2. other' = feed /\ (feed' = other \/ Asked(feed'))
    BY <1>6, Selected
  <2>3. acts' = acts /\ (acts # {} => OnPage')
    BY <1>6 DEF SelectFeed, Reappears, Orphaned
  <2> QED BY <1>1, <2>1, <2>2, <2>3 DEF Told, Asked, Answered, Waiting
<1>7. CASE ToggleComments
  <2>1. UNCHANGED <<lists, post, blur>> /\ FeedAnswer' = FeedAnswer
    BY <1>7 DEF ToggleComments, FeedAnswer
  <2>2. Waiting(acts) => Waiting(acts')
    <3> DEFINE image(a) == [a EXCEPT !.live = @ /\ a.kind # "comment"]
    <3>1. \A a \in acts : image(a).stage = a.stage
      BY DEF ActType, Acts
    <3>2. acts' = acts \/ acts' = {image(a) : a \in acts}
      BY <1>7 DEF ToggleComments
    <3> HIDE DEF image
    <3> QED BY <3>1, <3>2 DEF Waiting
  <2>3. Told(feed) /\ Told(other) => Told(feed)' /\ Told(other)'
    BY <2>1, <2>2 DEF Told, Answered
  <2>4. OnPage' <=> OnPage
    BY <2>1 DEF OnPage
  <2> QED BY <1>1, <1>7, <2>1, <2>3, <2>4, ClosedActs
<1>8. CASE (Quietly /\ ~ToggleComments) \/ UNCHANGED postVars
  <2>1. UNCHANGED <<lists, post, acts>> /\ "heart" \notin blur
    BY <1>8
    DEF Quietly, ReadThread, ShowThread, ThreadLost, TypeComment, OpenEditor, TypeDescription,
        CancelEditor, postVars
  <2> QED BY <1>1, <2>1 DEF OnPage, FeedAnswer, Told, Answered, Waiting
<1>9. CASE Sends
  <2>1. "heart" \notin blur
    BY <1>9 DEF Sends, HandleLike, HandleSave, HandleAddComment, SaveEdit, DeletePost
  <2>2. UNCHANGED <<lists, post>> /\ OnPage /\ acts \subseteq acts'
    BY <1>9, SentActs
  <2>3. FeedAnswer' = FeedAnswer /\ (Waiting(acts) => Waiting(acts'))
    BY <2>2 DEF FeedAnswer, Waiting
  <2>4. Told(feed) /\ Told(other) => Told(feed)' /\ Told(other)'
    BY <2>2, <2>3 DEF Told, Answered
  <2>5. OnPage'
    BY <2>2 DEF OnPage
  <2>6. \A b \in acts' \ acts : b.live
    BY <1>9, SentActs
  <2> QED BY <1>1, <2>1, <2>2, <2>4, <2>5, <2>6
<1>10. ASSUME NEW a \in acts, StoreAct(a)
       PROVE  /\ OnPage' /\ \A b \in acts' : b.kind \in {"like", "save"} => b.live
              /\ Told(feed)' /\ Told(other)'
  <2>1. OnPage /\ \A b \in acts : b.kind \in {"like", "save"} => b.live
    BY <1>1, <1>10, StoredActs
  <2>2. PICK new : acts' = (acts \ {a}) \cup {new} /\ Stamped(a, new)
    BY <1>10, StoredActs
  <2>3. Waiting(acts')
    BY <2>2 DEF Waiting, Stamped
  <2> QED BY <1>10, <2>1, <2>2, <2>3, StoredActs DEF OnPage, Stamped, Told
<1>11. ASSUME NEW a \in acts, Finishes(a)
       PROVE  /\ OnPage' /\ \A b \in acts' : b.kind \in {"like", "save"} => b.live
              /\ Told(feed)' /\ Told(other)'
  <2>1. "heart" \notin blur /\ ~Answered(other) /\ UNCHANGED <<post, other>>
    BY <1>11 DEF Finishes, Overtaken
  <2>2. OnPage /\ \A b \in acts : b.kind \in {"like", "save"} => b.live
    BY <1>1, <1>11, <2>1
  <2>3. feed'.data = feed.data /\ Asked(feed')
    BY <1>0, <1>11, <2>2, Refetched DEF Finishes, FeedType, Feeds, OnPage
  <2>4. ~Answered(feed') /\ ~Answered(other')
    BY <2>1, <2>3 DEF Asked, Answered
  <2>5. Told(feed)' /\ Told(other)'
    BY <2>4 DEF Told, Answered
  <2> QED BY <1>11, <2>2, <2>3, <2>5 DEF Finishes, Done, OnPage
<1>12. ASSUME NEW a \in acts, ActFails(a)
       PROVE  /\ acts' # {} => OnPage'
              /\ \A b \in acts' : b.kind \in {"like", "save"} => b.live
              /\ Told(feed)' /\ Told(other)'
  <2>1. "heart" \notin blur /\ a.stage # "stored" /\ UNCHANGED <<post, lists>> /\ acts' = acts \ {a}
    BY <1>12 DEF ActFails
  <2>2. FeedAnswer' = FeedAnswer /\ (Waiting(acts) => Waiting(acts'))
    BY <2>1 DEF FeedAnswer, Waiting
  <2>3. Told(feed) /\ Told(other) => Told(feed)' /\ Told(other)'
    BY <2>1, <2>2 DEF Told, Answered
  <2> QED BY <1>1, <2>1, <2>3 DEF OnPage
<1> QED
  BY Steps, Completions, <1>3, <1>4, <1>5, <1>6, <1>7, <1>8, <1>9, <1>10, <1>11, <1>12 DEF Fetches

(* What a step does to the page's copies while the post stays on the page.    *)
SameHeart ==
  /\ post'.liked = post.liked /\ buttons'.liked = buttons.liked /\ buttons'.likes = buttons.likes
  /\ OnWayBack("like")' = OnWayBack("like")
SameBookmark ==
  /\ post'.saved = post.saved /\ buttons'.saved = buttons.saved
  /\ OnWayBack("save")' = OnWayBack("save")
NewSave == \E b \in acts' : b.kind = "save" /\ b \notin acts

LEMMA QuietCopies ==
  ASSUME Types, Quietly \/ UNCHANGED postVars
  PROVE  SameHeart /\ SameBookmark /\ ~NewSave /\ UNCHANGED <<post, feed>>
<1>1. CASE ToggleComments
  BY <1>1, ClosedActs DEF lists, ToggleComments, SameHeart, SameBookmark, NewSave, OnWayBack
<1>2. CASE ~ToggleComments
  <2>1. UNCHANGED <<post, feed, acts, buttons>>
    BY <1>2
    DEF Quietly, ReadThread, ShowThread, ThreadLost, TypeComment, OpenEditor, TypeDescription,
        CancelEditor, postVars, postPage, lists
  <2> QED BY <2>1 DEF SameHeart, SameBookmark, NewSave, OnWayBack
<1> QED BY <1>1, <1>2

LEMMA FeedCopies ==
  ASSUME Types, InPlace, GoneTold, [PostNext]_postVars, post'.there, "heart" \notin blur',
         OnPage', Fetches
  PROVE  \/ SameHeart /\ SameBookmark /\ ~NewSave /\ OnPage /\ post' = post
         \/ acts' = {} /\ post' = post /\ post.there /\ buttons' = Fresh(FeedAnswer)
<1> USE DEF Types, lists
<1>0. post' = post
  BY DEF Fetches, ReadFeed, ShowFeed, FeedLost, OtherFetched, SelectFeed
<1>1. CASE ReadFeed \/ FeedLost \/ OtherFetched
  <2>1. OnPage' => OnPage
    BY <1>1 DEF ReadFeed, FeedLost, OtherFetched, Reads, Misses, OnPage, FeedType, Feeds, QueriesOf
  <2>2. UNCHANGED <<acts, buttons>>
    BY <1>1 DEF ReadFeed, FeedLost, OtherFetched, postPage
  <2> QED BY <1>0, <2>1, <2>2 DEF SameHeart, SameBookmark, NewSave, OnWayBack
<1>2. CASE SelectFeed
  <2>1. CASE OnPage /\ UNCHANGED <<postPage, acts>>
    BY <1>0, <2>1 DEF SameHeart, SameBookmark, NewSave, OnWayBack, postPage
  <2>2. CASE Reappears(feed'.data)
    <3>1. acts = {} /\ feed'.data = FeedAnswer /\ feed'.data \notin {NoData, Gone}
      BY <2>2 DEF Reappears, OnPage
    <3> QED BY <1>0, <2>2, <3>1 DEF Reappears, Orphaned
  <2> QED BY <1>2, <2>1, <2>2 DEF SelectFeed
<1>3. CASE ShowFeed /\ OnPage
  <2>1. feed.seen # Gone
    BY <1>0, <1>3 DEF ShowFeed, GoneTold, GoneIn
  <2>2. UNCHANGED <<acts, buttons>>
    BY <1>3, <2>1 DEF ShowFeed, postPage
  <2> QED BY <1>0, <1>3, <2>2 DEF SameHeart, SameBookmark, NewSave, OnWayBack
<1>4. CASE ShowFeed /\ ~OnPage
  <2>1. feed.seen # Gone
    BY <1>0, <1>4 DEF ShowFeed, GoneTold, GoneIn
  <2>2. acts = {} /\ feed.seen = FeedAnswer
    BY <1>0, <1>4 DEF ShowFeed, InPlace, Told, Waiting
  <2> QED BY <1>0, <1>4, <2>1, <2>2 DEF ShowFeed
<1> QED BY <1>1, <1>2, <1>3, <1>4 DEF Fetches

LEMMA SendCopies ==
  ASSUME Types, Sends
  PROVE  SameHeart /\ SameBookmark /\ OnPage /\ post' = post /\ (NewSave => HandleSave)
<1>1. UNCHANGED post /\ UNCHANGED <<buttons.liked, buttons.likes, buttons.saved>>
  BY DEF Types, PageType, Sends, HandleLike, HandleSave, HandleAddComment, SaveEdit, DeletePost, postPage
<1>2. OnWayBack("like")' = OnWayBack("like") /\ OnWayBack("save")' = OnWayBack("save")
  BY SentActs DEF OnWayBack
<1> QED BY <1>1, <1>2, SentActs DEF SameHeart, SameBookmark, NewSave

(* A request that is over, without an answer that was lost.                   *)
LEMMA EndCopies ==
  ASSUME Types, NEW a \in acts, "heart" \notin blur',
         Liked(a) \/ SaveToggled(a) \/ Commented(a) \/ Edited(a) \/ Deleted(a) \/ ActFails(a)
  PROVE  /\ acts' = acts \ {a} /\ post' = post /\ (OnPage' => OnPage)
         /\ SameHeart \/ Liked(a)
         /\ SameBookmark \/ SaveToggled(a)
<1> USE DEF Types, lists
<1>1. acts' = acts \ {a} /\ post' = post
  BY Completions DEF Finishes, Done, ActFails
<1>2. OnPage' => OnPage
  BY Completions, Refetched DEF Finishes, ActFails, OnPage, FeedType, Feeds
<1>3. CASE ActFails(a)
  <2>1. a.stage # "stored"
    BY <1>3 DEF ActFails
  <2>2. UNCHANGED <<buttons.liked, buttons.likes, buttons.saved>>
    BY <1>3 DEF ActFails, PageType
  <2> QED BY <1>1, <1>2, <2>1, <2>2 DEF SameHeart, SameBookmark, OnWayBack
<1>4. CASE Liked(a)
  <2>1. a.kind = "like" /\ buttons'.saved = buttons.saved
    BY <1>4 DEF Liked, PageType
  <2> QED BY <1>1, <1>2, <1>4, <2>1 DEF SameBookmark, OnWayBack
<1>5. CASE SaveToggled(a)
  <2>1. a.kind = "save" /\ UNCHANGED <<buttons.liked, buttons.likes>>
    BY <1>5 DEF SaveToggled, PageType
  <2> QED BY <1>1, <1>2, <1>5, <2>1 DEF SameHeart, OnWayBack
<1>6. CASE Commented(a) \/ Edited(a) \/ Deleted(a)
  <2>1. a.kind \notin {"like", "save"} /\ buttons' = buttons
    BY <1>6 DEF Commented, Edited, Deleted, postPage
  <2> QED BY <1>1, <1>2, <2>1 DEF SameHeart, SameBookmark, OnWayBack
<1> QED BY <1>3, <1>4, <1>5, <1>6

(* The marks of what was missed stay, and the heart's comes with the          *)
(* bookmark's.                                                                *)
LEMMA MarksNext ==
  ASSUME [PostNext]_postVars
  PROVE  /\ blur \subseteq blur'
         /\ "heart" \in blur' \ blur => "bookmark" \in blur'
<1>1. CASE Fetches
  BY <1>1 DEF Fetches, ReadFeed, ShowFeed, FeedLost, OtherFetched, SelectFeed, Reappears
<1>2. CASE Quietly
  BY <1>2 DEF Quietly, ReadThread, ShowThread, ThreadLost, TypeComment, ToggleComments, OpenEditor,
     TypeDescription, CancelEditor
<1>3. CASE Sends
  BY <1>3 DEF Sends, HandleLike, HandleSave, HandleAddComment, SaveEdit, DeletePost
<1>4. ASSUME NEW a \in acts, StoreAct(a) \/ Finishes(a) \/ ActFails(a)
      PROVE  blur \subseteq blur' /\ ("heart" \in blur' \ blur => "bookmark" \in blur')
  BY <1>4 DEF StoreAct, Finishes, Overtaken, ActFails
<1> QED BY Steps, Completions, <1>1, <1>2, <1>3, <1>4 DEF postVars

LEMMA HeartNext ==
  Types /\ ButtonsBusy /\ GoneTold /\ InPlace /\ HeartFollows /\ [PostNext]_postVars => HeartFollows'
<1> SUFFICES ASSUME Types, ButtonsBusy, GoneTold, InPlace, HeartFollows, [PostNext]_postVars,
                    post'.there, "heart" \notin blur', OnPage'
             PROVE  IF OnWayBack("like")' = {}
                    THEN buttons'.liked = post'.liked /\ buttons'.likes = One(post'.liked)
                    ELSE /\ buttons'.likes = One(~post'.liked)
                         /\ \A a \in OnWayBack("like")' : a.says = post'.liked
  BY DEF HeartFollows, OnPage
<1> USE DEF Types, lists
<1>1. CASE SameHeart /\ OnPage /\ post.there /\ "heart" \notin blur
  BY <1>1 DEF SameHeart, HeartFollows
<1>2. "heart" \notin blur
  BY MarksNext
<1>3. CASE Fetches
  <2>1. CASE acts' = {} /\ post' = post /\ post.there /\ buttons' = Fresh(FeedAnswer)
    <3>1. FeedAnswer.liked = post.liked
      BY <2>1 DEF FeedAnswer
    <3> QED BY <2>1, <3>1 DEF Fresh, OnWayBack
  <2> QED BY <1>1, <1>2, <1>3, <2>1, FeedCopies
<1>4. CASE Quietly \/ UNCHANGED postVars
  BY <1>1, <1>2, <1>4, QuietCopies DEF OnPage
<1>5. CASE Sends
  BY <1>1, <1>2, <1>5, SendCopies
<1>6. ASSUME NEW a \in acts, StoreAct(a)
      PROVE  IF OnWayBack("like")' = {}
             THEN buttons'.liked = post'.liked /\ buttons'.likes = One(post'.liked)
             ELSE /\ buttons'.likes = One(~post'.liked)
                  /\ \A b \in OnWayBack("like")' : b.says = post'.liked
  <2>1. OnPage /\ post.there /\ buttons' = buttons /\ a.stage = "sent"
    BY <1>2, <1>6, StoredActs DEF InPlace
  <2>2. PICK new : acts' = (acts \ {a}) \cup {new} /\ Stamped(a, new) /\ Writes(a, new)
    BY <1>6, StoredActs
  <2>3. CASE a.kind # "like"
    <3>1. SameHeart
      BY <2>1, <2>2, <2>3 DEF SameHeart, OnWayBack, Stamped, Writes
    <3> QED BY <1>1, <1>2, <2>1, <3>1
  <2>4. CASE a.kind = "like"
    <3>1. \A b \in acts : b.kind = "like" => b = a
      BY <1>2, <2>1, <2>4 DEF InPlace, ButtonsBusy, OneEach
    <3>2. OnWayBack("like") = {} /\ OnWayBack("like")' = {new}
      BY <2>1, <2>2, <2>4, <3>1 DEF OnWayBack, Stamped
    <3>3. buttons.likes = One(post.liked) /\ post.liked \in BOOLEAN
      BY <1>2, <2>1, <3>2 DEF HeartFollows, PostType
    <3>4. post'.liked = ~post.liked /\ new.says = ~post.liked
      BY <2>2, <2>4 DEF Writes
    <3> QED BY <2>1, <3>2, <3>3, <3>4
  <2> QED BY <2>3, <2>4
<1>7. ASSUME NEW a \in acts,
             Liked(a) \/ SaveToggled(a) \/ Commented(a) \/ Edited(a) \/ Deleted(a) \/ ActFails(a)
      PROVE  IF OnWayBack("like")' = {}
             THEN buttons'.liked = post'.liked /\ buttons'.likes = One(post'.liked)
             ELSE /\ buttons'.likes = One(~post'.liked)
                  /\ \A b \in OnWayBack("like")' : b.says = post'.liked
  <2>1. acts' = acts \ {a} /\ post' = post /\ OnPage
    BY <1>7, EndCopies
  <2>2. CASE Liked(a)
    <3>1. a.kind = "like" /\ a.stage = "stored" /\ a.live
      BY <1>2, <2>1, <2>2 DEF Liked, Done, InPlace
    <3>2. \A b \in acts : b.kind = "like" => b = a
      BY <1>2, <2>1, <3>1 DEF InPlace, ButtonsBusy, OneEach
    <3>3. a \in OnWayBack("like") /\ OnWayBack("like")' = {}
      BY <2>1, <3>1, <3>2 DEF OnWayBack
    <3>4. buttons.likes = One(~post.liked) /\ a.says = post.liked /\ post.liked \in BOOLEAN
      BY <1>2, <2>1, <3>3 DEF HeartFollows, PostType
    <3> DEFINE likes == IF a.says THEN buttons.likes + 1
                        ELSE IF buttons.likes = 0 THEN 0 ELSE buttons.likes - 1
    <3>5. buttons' = [buttons EXCEPT !.liked = a.says, !.liking = FALSE, !.likes = likes]
      BY <2>2, <3>1 DEF Liked, PageType
    <3>6. likes = One(post.liked)
      BY <3>4 DEF One
    <3> HIDE DEF likes
    <3>7. buttons'.liked = a.says /\ buttons'.likes = likes
      BY <3>5 DEF PageType
    <3> QED BY <2>1, <3>3, <3>4, <3>6, <3>7
  <2> QED BY <1>1, <1>2, <1>7, <2>1, <2>2, EndCopies
<1> QED BY Steps, <1>3, <1>4, <1>5, <1>6, <1>7

LEMMA BookmarkNext ==
  Types /\ GoneTold /\ InPlace /\ BookmarkFollows /\ [PostNext]_postVars => BookmarkFollows'
<1> SUFFICES ASSUME Types, GoneTold, InPlace, BookmarkFollows, [PostNext]_postVars,
                    post'.there, "bookmark" \notin blur', OnPage'
             PROVE  /\ \A a, b \in acts' : a.kind = "save" /\ b.kind = "save" => a = b
                    /\ IF OnWayBack("save")' = {} THEN buttons'.saved = post'.saved
                       ELSE \A a \in OnWayBack("save")' : a.says = post'.saved
  <2>1. Types /\ BookmarkFollows /\ [PostNext]_postVars /\ "heart" \in blur' => "bookmark" \in blur'
    BY MarksNext DEF BookmarkFollows
  <2> QED BY <2>1 DEF BookmarkFollows, OnPage
<1> USE DEF Types, lists
<1> DEFINE Goal == /\ \A a, b \in acts' : a.kind = "save" /\ b.kind = "save" => a = b
                   /\ IF OnWayBack("save")' = {} THEN buttons'.saved = post'.saved
                      ELSE \A a \in OnWayBack("save")' : a.says = post'.saved
<1>1. "bookmark" \notin blur /\ "heart" \notin blur /\ "heart" \notin blur'
  BY MarksNext DEF BookmarkFollows
<1>2. CASE SameBookmark /\ ~NewSave /\ OnPage /\ post.there
  BY <1>1, <1>2 DEF SameBookmark, NewSave, BookmarkFollows
<1>3. CASE Fetches
  <2>1. CASE acts' = {} /\ post' = post /\ post.there /\ buttons' = Fresh(FeedAnswer)
    <3>1. FeedAnswer.saved = post.saved
      BY <2>1 DEF FeedAnswer
    <3> QED BY <2>1, <3>1 DEF Fresh, OnWayBack
  <2> QED BY <1>1, <1>2, <1>3, <2>1, FeedCopies
<1>4. CASE Quietly \/ UNCHANGED postVars
  BY <1>2, <1>4, QuietCopies DEF OnPage
<1>5. CASE Sends
  <2>1. SameBookmark /\ OnPage /\ post.there /\ (NewSave => HandleSave)
    BY <1>5, SendCopies
  <2>2. CASE HandleSave
    <3>1. \A a \in acts : a.kind # "save"
      BY <1>1, <2>1, <2>2 DEF HandleSave, Underway, InPlace
    <3>2. \A a, b \in acts' : a.kind = "save" /\ b.kind = "save" => a = b
      BY <2>2, <3>1 DEF HandleSave, Begin
    <3> QED BY <1>1, <2>1, <3>2 DEF SameBookmark, BookmarkFollows
  <2> QED BY <1>2, <2>1, <2>2
<1>6. ASSUME NEW a \in acts, StoreAct(a) PROVE Goal
  <2>1. OnPage /\ post.there /\ buttons' = buttons /\ a.stage = "sent"
    BY <1>1, <1>6, StoredActs DEF InPlace
  <2>2. PICK new : acts' = (acts \ {a}) \cup {new} /\ Stamped(a, new) /\ Writes(a, new)
    BY <1>6, StoredActs
  <2>3. CASE a.kind # "save"
    <3>1. SameBookmark /\ ~NewSave
      BY <2>1, <2>2, <2>3 DEF SameBookmark, NewSave, OnWayBack, Stamped, Writes
    <3> QED BY <1>2, <2>1, <3>1
  <2>4. CASE a.kind = "save"
    <3>1. \A b \in acts : b.kind = "save" => b = a
      BY <1>1, <2>1, <2>4 DEF BookmarkFollows
    <3>2. OnWayBack("save")' = {new} /\ \A b \in acts' : b.kind = "save" => b = new
      BY <2>1, <2>2, <2>4, <3>1 DEF OnWayBack, Stamped
    <3>3. post'.saved = ~post.saved /\ new.says = ~post.saved
      BY <2>2, <2>4 DEF Writes
    <3> QED BY <3>2, <3>3
  <2> QED BY <2>3, <2>4
<1>7. ASSUME NEW a \in acts,
             Liked(a) \/ SaveToggled(a) \/ Commented(a) \/ Edited(a) \/ Deleted(a) \/ ActFails(a)
      PROVE  Goal
  <2>1. acts' = acts \ {a} /\ post' = post /\ OnPage
    BY <1>1, <1>7, EndCopies
  <2>2. CASE SaveToggled(a)
    <3>1. a.kind = "save" /\ a.stage = "stored" /\ a.live
      BY <1>1, <2>1, <2>2 DEF SaveToggled, Done, InPlace
    <3>2. \A b \in acts : b.kind = "save" => b = a
      BY <1>1, <2>1, <3>1 DEF BookmarkFollows
    <3>3. a \in OnWayBack("save") /\ OnWayBack("save")' = {}
      BY <2>1, <3>1, <3>2 DEF OnWayBack
    <3>4. a.says = post.saved
      BY <1>1, <2>1, <3>3 DEF BookmarkFollows
    <3>5. buttons'.saved = a.says
      BY <2>2, <3>1 DEF SaveToggled, PageType
    <3> QED BY <2>1, <3>2, <3>3, <3>4, <3>5
  <2> QED BY <1>1, <1>2, <1>7, <2>1, <2>2, EndCopies DEF NewSave
<1> QED BY Steps, <1>3, <1>4, <1>5, <1>6, <1>7

-------------------------------------------------------------------------------
(* The thread: the comments stored whose answers are on their way make up for *)
(* those that what was read or is shown lacks.                                *)
Posted == {a.n : a \in OnWayBack("comment")}

Whole(d) ==
  /\ Len(d) + Cardinality(Posted) = Len(post.comments)
  /\ \A i \in DOMAIN post.comments :
       post.comments[i] \in Posted \/ \E j \in DOMAIN d : d[j] = post.comments[i]

Numbered == \A a \in acts : a.n <= started /\ \A b \in acts : a.n = b.n => a = b

ThreadTyped ==
  /\ thread \in QueriesOf(Seq(Nat)) /\ (Answered(thread) => thread.seen \in Seq(Nat))
  /\ IsFiniteSet(Posted)

ThreadFollows ==
  "thread" \notin blur =>
    Whole(Thread(thread.data)) /\ (Answered(thread) => Whole(thread.seen))

(* Requests that lose nothing but their hearing keep their numbers.           *)
SameRequest(new, a) == new.n = a.n /\ new.kind = a.kind /\ new.stage = a.stage

LEMMA SameNumbers ==
  ASSUME Numbered, started' \in Nat, started' >= started, Types,
         \A b \in acts' : \E a \in acts : SameRequest(b, a),
         \A a, b \in acts' : a.n = b.n => a = b,
         \A a \in acts : \E b \in acts' : SameRequest(b, a)
  PROVE  Numbered' /\ Posted' = Posted
<1>1. Numbered'
  <2> SUFFICES ASSUME NEW b \in acts' PROVE b.n <= started'
    BY DEF Numbered
  <2>1. PICK a \in acts : SameRequest(b, a)
    OBVIOUS
  <2> QED BY <2>1 DEF Numbered, SameRequest, Types, ActType, Acts
<1>2. \A b \in OnWayBack("comment")' : b.n \in Posted
  BY DEF Posted, OnWayBack, SameRequest
<1>3. \A a \in OnWayBack("comment") : a.n \in Posted'
  BY DEF Posted, OnWayBack, SameRequest
<1> QED BY <1>1, <1>2, <1>3 DEF Posted

LEMMA OrphansSame ==
  ASSUME Types
  PROVE  /\ \A b \in Orphaned : \E a \in acts : SameRequest(b, a)
         /\ \A a \in acts : \E b \in Orphaned : SameRequest(b, a)
         /\ Numbered => \A a, b \in Orphaned : a.n = b.n => a = b
<1> DEFINE image(a) == [a EXCEPT !.live = FALSE]
<1>1. \A a \in acts : SameRequest(image(a), a)
  BY DEF Types, ActType, Acts, SameRequest
<1>2. Orphaned = {image(a) : a \in acts}
  BY DEF Orphaned
<1> HIDE DEF image
<1> QED BY <1>1, <1>2 DEF Numbered, SameRequest

LEMMA ClosedSame ==
  ASSUME Types, ToggleComments
  PROVE  /\ \A b \in acts' : \E a \in acts : SameRequest(b, a)
         /\ \A a \in acts : \E b \in acts' : SameRequest(b, a)
         /\ Numbered => \A a, b \in acts' : a.n = b.n => a = b
<1> DEFINE image(a) == [a EXCEPT !.live = @ /\ a.kind # "comment"]
<1>1. \A a \in acts : SameRequest(image(a), a)
  BY DEF Types, ActType, Acts, SameRequest
<1>2. acts' = acts \/ acts' = {image(a) : a \in acts}
  BY DEF ToggleComments
<1> HIDE DEF image
<1>3. CASE acts' = acts
  BY <1>3 DEF Numbered, SameRequest
<1>4. CASE acts' = {image(a) : a \in acts}
  BY <1>1, <1>4 DEF Numbered, SameRequest
<1> QED BY <1>2, <1>3, <1>4

(* The steps that store no request and end none.                              *)
LEMMA NumbersStay ==
  ASSUME Types, Types', Numbered,
         Fetches \/ Quietly \/ UNCHANGED postVars
  PROVE  Numbered' /\ Posted' = Posted
<1>1. started \in Nat /\ started' \in Nat
  BY DEF Types, ActType
<1>2. started' >= started
  BY <1>1
  DEF Fetches, ReadFeed, ShowFeed, FeedLost, OtherFetched, SelectFeed, Quietly, ReadThread, ShowThread,
      ThreadLost, TypeComment, ToggleComments, OpenEditor, TypeDescription, CancelEditor, postVars
<1>3. CASE ToggleComments
  BY <1>1, <1>2, <1>3, ClosedSame, SameNumbers
<1>4. CASE acts' = Orphaned
  BY <1>1, <1>2, <1>4, OrphansSame, SameNumbers
<1>5. CASE acts' = acts
  BY <1>1, <1>2, <1>5, SameNumbers DEF Numbered, SameRequest
<1>6. ~ToggleComments => acts' = acts \/ acts' = Orphaned
  BY DEF Fetches, ReadFeed, ShowFeed, FeedLost, OtherFetched, SelectFeed, Reappears, Quietly, ReadThread,
     ShowThread, ThreadLost, TypeComment, OpenEditor, TypeDescription, CancelEditor, postVars
<1> QED BY <1>3, <1>4, <1>5, <1>6

LEMMA NumbersSent ==
  ASSUME Types, Numbered, Sends
  PROVE  Numbered' /\ Posted' = Posted
<1>1. Begin("like", 0) \/ Begin("save", 0) \/ Begin("comment", 0) \/ Begin("edit", edit.text)
        \/ Begin("delete", 0)
  BY DEF Sends, HandleLike, HandleSave, HandleAddComment, SaveEdit, DeletePost
<1>2. ASSUME NEW kind, NEW what, Begin(kind, what) PROVE Numbered' /\ Posted' = Posted
  <2> DEFINE new == [kind |-> kind, what |-> what, n |-> started + 1, live |-> TRUE,
                     stage |-> "sent", says |-> FALSE]
  <2>1. new.n = started + 1 /\ new.stage = "sent" /\ acts' = acts \cup {new} /\ started' = started + 1
    BY <1>2 DEF Begin
  <2> HIDE DEF new
  <2>2. started \in Nat /\ \A a \in acts : a.n \in Nat /\ a.n <= started
    BY DEF Types, ActType, Acts, Numbered
  <2>3. Numbered'
    BY <2>1, <2>2 DEF Numbered
  <2>4. OnWayBack("comment")' = OnWayBack("comment")
    BY <2>1 DEF OnWayBack
  <2> QED BY <2>3, <2>4 DEF Posted
<1> QED BY <1>1, <1>2

LEMMA NumbersStored ==
  ASSUME Types, Numbered, NEW a \in acts, StoreAct(a)
  PROVE  /\ Numbered' /\ a.n \in Nat
         /\ a.kind # "comment" => Posted' = Posted
         /\ a.kind = "comment" => a.n \notin Posted /\ Posted' = Posted \cup {a.n}
<1>1. PICK new : acts' = (acts \ {a}) \cup {new} /\ Stamped(a, new)
  BY StoredActs
<1>2. a.stage = "sent" /\ started' = started /\ a.n \in Nat
  BY StoredActs DEF Types, ActType, Acts
<1>3. Numbered'
  BY <1>1, <1>2 DEF Numbered, Stamped
<1>4. CASE a.kind # "comment"
  <2>1. OnWayBack("comment")' = OnWayBack("comment")
    BY <1>1, <1>2, <1>4 DEF OnWayBack, Stamped
  <2> QED BY <1>2, <1>3, <1>4, <2>1 DEF Posted
<1>5. CASE a.kind = "comment"
  <2>1. OnWayBack("comment")' = OnWayBack("comment") \cup {new}
    BY <1>1, <1>2, <1>5 DEF OnWayBack, Stamped
  <2>2. a.n \notin Posted
    BY <1>2 DEF Posted, OnWayBack, Numbered
  <2>3. new.n = a.n
    BY <1>1 DEF Stamped
  <2> QED BY <1>2, <1>3, <1>5, <2>1, <2>2, <2>3 DEF Posted
<1> QED BY <1>4, <1>5

LEMMA NumbersOver ==
  ASSUME Types, Numbered, NEW a \in acts, acts' = acts \ {a}, started' = started
  PROVE  /\ Numbered' /\ a.n \in Nat
         /\ a.kind # "comment" \/ a.stage # "stored" => Posted' = Posted
         /\ a.kind = "comment" /\ a.stage = "stored" => a.n \in Posted /\ Posted' = Posted \ {a.n}
<1>1. Numbered' /\ a.n \in Nat
  BY DEF Numbered, Types, ActType, Acts
<1>2. CASE a.kind # "comment" \/ a.stage # "stored"
  <2>1. OnWayBack("comment")' = OnWayBack("comment")
    BY <1>2 DEF OnWayBack
  <2> QED BY <1>1, <1>2, <2>1 DEF Posted
<1>3. CASE a.kind = "comment" /\ a.stage = "stored"
  <2>1. OnWayBack("comment")' = OnWayBack("comment") \ {a} /\ a \in OnWayBack("comment")
    BY <1>3 DEF OnWayBack
  <2>2. \A b \in OnWayBack("comment") : b.n = a.n => b = a
    BY DEF Numbered, OnWayBack
  <2> QED BY <1>1, <1>3, <2>1, <2>2 DEF Posted
<1> QED BY <1>2, <1>3

(* Steps and the number of what is stored and not yet answered.               *)
LEMMA NumbersNext ==
  ASSUME Types, Types', Numbered, [PostNext]_postVars
  PROVE  Numbered'
<1>1. ASSUME NEW a \in acts, Finishes(a) \/ ActFails(a) PROVE acts' = acts \ {a}
  BY <1>1 DEF Finishes, Done, ActFails
<1>2. ASSUME NEW a \in acts,
             Liked(a) \/ SaveToggled(a) \/ Commented(a) \/ Edited(a) \/ Deleted(a) \/ ActFails(a)
      PROVE  started' = started
  BY <1>2 DEF Liked, SaveToggled, Commented, Edited, Deleted, ActFails
<1> QED BY Steps, Completions, <1>1, <1>2, NumbersStay, NumbersSent, NumbersStored, NumbersOver

LEMMA PostedFinite ==
  ASSUME Types, Types', Numbered, IsFiniteSet(Posted), [PostNext]_postVars
  PROVE  IsFiniteSet(Posted')
<1>1. ASSUME NEW n, Posted' = Posted \/ Posted' = Posted \cup {n} \/ Posted' = Posted \ {n}
      PROVE  IsFiniteSet(Posted')
  BY <1>1, FS_AddElement, FS_RemoveElement
<1>2. ASSUME NEW a \in acts, Finishes(a) \/ ActFails(a) PROVE acts' = acts \ {a}
  BY <1>2 DEF Finishes, Done, ActFails
<1>3. ASSUME NEW a \in acts,
             Liked(a) \/ SaveToggled(a) \/ Commented(a) \/ Edited(a) \/ Deleted(a) \/ ActFails(a)
      PROVE  started' = started
  BY <1>3 DEF Liked, SaveToggled, Commented, Edited, Deleted, ActFails
<1>4. CASE Fetches \/ Quietly \/ UNCHANGED postVars
  BY <1>1, <1>4, NumbersStay
<1>5. CASE Sends
  BY <1>1, <1>5, NumbersSent
<1>6. ASSUME NEW a \in acts, StoreAct(a) PROVE IsFiniteSet(Posted')
  BY <1>1, <1>6, NumbersStored
<1>7. ASSUME NEW a \in acts,
             Liked(a) \/ SaveToggled(a) \/ Commented(a) \/ Edited(a) \/ Deleted(a) \/ ActFails(a)
      PROVE  IsFiniteSet(Posted')
  <2>1. acts' = acts \ {a} /\ started' = started
    BY <1>2, <1>3, <1>7, Completions
  <2> QED BY <1>1, <2>1, NumbersOver
<1> QED BY Steps, <1>4, <1>5, <1>6, <1>7

(* The thread's query: a step leaves it, or does to it what its name says.    *)
LEMMA ThreadSteps ==
  ASSUME [PostNext]_postVars
  PROVE  \/ thread' = thread \/ ReadThread \/ ShowThread \/ ThreadLost
         \/ ToggleComments /\ thread' = Refetch(thread)
         \/ \E a \in acts : Commented(a)
BY DEF PostNext, ReadFeed, ShowFeed, FeedLost, OtherFetched, SelectFeed, HandleLike, HandleSave, ToggleComments, TypeComment,
   HandleAddComment, OpenEditor, TypeDescription, CancelEditor, SaveEdit, DeletePost, StoreAct, Liked,
   SaveToggled, Edited, Deleted, ActFails, postVars

LEMMA CommentedThread ==
  ASSUME ThreadTyped, NEW a \in acts, a.n \in Nat, Commented(a)
  PROVE  /\ Thread(thread.data) \in Seq(Nat)
         /\ thread'.data = <<a.n>> \o Thread(thread.data) /\ thread'.data \in Seq(Nat)
         /\ thread'.fetch = thread.fetch /\ thread'.seen = thread.seen
         /\ thread' \in QueriesOf(Seq(Nat))
<1>1. Thread(thread.data) \in Seq(Nat)
  <2>1. <<>> \in Seq(Nat)
    OBVIOUS
  <2> QED BY <2>1 DEF Thread, ThreadTyped, QueriesOf
<1> DEFINE longer == <<a.n>> \o Thread(thread.data)
<1>2. longer \in Seq(Nat)
  <2>1. <<a.n>> \in Seq(Nat)
    OBVIOUS
  <2> QED BY <1>1, <2>1
<1>3. thread' = [thread EXCEPT !.data = longer, !.failed = FALSE]
  BY DEF Commented, ThreadTyped, QueriesOf
<1> HIDE DEF longer
<1>4. thread'.data = longer /\ thread'.fetch = thread.fetch /\ thread'.seen = thread.seen
        /\ thread' \in QueriesOf(Seq(Nat))
  BY <1>2, <1>3 DEF ThreadTyped, QueriesOf
<1> QED BY <1>1, <1>2, <1>4 DEF longer

LEMMA ThreadTypedNext ==
  ASSUME Types, Types', Numbered, ThreadTyped, [PostNext]_postVars
  PROVE  ThreadTyped'
<1> DEFINE Typed == thread' \in QueriesOf(Seq(Nat)) /\ (Answered(thread') => thread'.seen \in Seq(Nat))
<1>1. SUFFICES Typed
  <2>1. IsFiniteSet(Posted')
    BY PostedFinite DEF ThreadTyped
  <2> QED BY <2>1 DEF ThreadTyped, Answered
<1>2. CASE thread' = thread
  BY <1>2 DEF ThreadTyped
<1>3. CASE ReadThread
  BY <1>3 DEF ReadThread, Reads, Types, PostType, ThreadTyped, QueriesOf
<1>4. CASE ShowThread
  BY <1>4 DEF ShowThread, Shows, Answered, ThreadTyped, QueriesOf
<1>5. CASE ThreadLost
  BY <1>5 DEF ThreadLost, Misses, Answered, ThreadTyped, QueriesOf
<1>6. CASE thread' = Refetch(thread)
  BY <1>6, Refetched DEF ThreadTyped
<1>7. ASSUME NEW a \in acts, Commented(a) PROVE Typed
  <2>1. a.n \in Nat
    BY DEF Types, ActType, Acts
  <2> QED BY <1>7, <2>1, CommentedThread DEF ThreadTyped, Answered
<1> QED BY ThreadSteps, <1>2, <1>3, <1>4, <1>5, <1>6, <1>7

(* The number of comments a thread lacks is that of those on their way.       *)
LEMMA WholeSame ==
  ASSUME NEW d, Whole(d), Posted' = Posted, post'.comments = post.comments
  PROVE  Whole(d)'
BY DEF Whole

LEMMA WholeStored ==
  ASSUME PostType, IsFiniteSet(Posted), NEW d \in Seq(Nat), Whole(d), NEW n \in Nat, n \notin Posted,
         Posted' = Posted \cup {n}, post'.comments = Append(post.comments, n)
  PROVE  Whole(d)'
<1>1. Cardinality(Posted') = Cardinality(Posted) + 1 /\ Cardinality(Posted) \in Nat
  BY FS_AddElement, FS_CardinalityType
<1>2. post.comments \in Seq(Nat) /\ Len(d) \in Nat
  BY DEF PostType
<1>3. Len(post'.comments) = Len(post.comments) + 1 /\ Len(post.comments) \in Nat
  BY <1>2
<1>4. \A i \in DOMAIN post'.comments :
        \/ post'.comments[i] = n
        \/ i \in DOMAIN post.comments /\ post'.comments[i] = post.comments[i]
  BY <1>2
<1>5. Len(d) + Cardinality(Posted') = Len(post'.comments)
  BY <1>1, <1>2, <1>3 DEF Whole
<1>6. \A i \in DOMAIN post'.comments :
        post'.comments[i] \in Posted' \/ \E j \in DOMAIN d : d[j] = post'.comments[i]
  BY <1>4 DEF Whole
<1> QED BY <1>5, <1>6 DEF Whole

LEMMA WholeAnswered ==
  ASSUME PostType, IsFiniteSet(Posted), NEW d \in Seq(Nat), Whole(d), NEW n \in Posted, n \in Nat,
         Posted' = Posted \ {n}, post'.comments = post.comments, NEW e, e = <<n>> \o d
  PROVE  Whole(e)'
<1>1. Cardinality(Posted') = Cardinality(Posted) - 1 /\ Cardinality(Posted) \in Nat
  BY FS_RemoveElement, FS_CardinalityType
<1>2. Len(e) = Len(d) + 1 /\ Len(d) \in Nat
  OBVIOUS
<1>3. 1 \in DOMAIN e /\ e[1] = n /\ \A j \in DOMAIN d : j + 1 \in DOMAIN e /\ e[j + 1] = d[j]
  OBVIOUS
<1>4. Len(post.comments) \in Nat
  BY DEF PostType
<1>5. Len(e) + Cardinality(Posted') = Len(post'.comments)
  BY <1>1, <1>2, <1>4 DEF Whole
<1>6. ASSUME NEW i \in DOMAIN post.comments
      PROVE  post.comments[i] \in Posted' \/ \E j \in DOMAIN e : e[j] = post.comments[i]
  BY <1>3 DEF Whole
<1> QED BY <1>5, <1>6 DEF Whole

LEMMA ThreadFollowsNext ==
  Types /\ Types' /\ Numbered /\ ThreadTyped /\ ThreadFollows /\ [PostNext]_postVars => ThreadFollows'
<1> SUFFICES ASSUME Types, Types', Numbered, ThreadTyped, ThreadFollows, [PostNext]_postVars,
                    "thread" \notin blur'
             PROVE  Whole(Thread(thread.data))' /\ (Answered(thread') => Whole(thread.seen)')
  BY DEF ThreadFollows, Answered
<1>0. Whole(Thread(thread.data)) /\ (Answered(thread) => Whole(thread.seen))
  BY MarksNext DEF ThreadFollows
<1>1. IsFiniteSet(Posted) /\ PostType /\ Thread(thread.data) \in Seq(Nat)
  <2>1. <<>> \in Seq(Nat)
    OBVIOUS
  <2> QED BY <2>1 DEF ThreadTyped, Thread, QueriesOf, Types
<1>2. CASE /\ \A d \in Seq(Nat) : Whole(d) => Whole(d)'
           /\ thread'.data = thread.data /\ (Answered(thread') => thread' = thread)
  <2>1. Thread(thread.data)' = Thread(thread.data)
    BY <1>2 DEF Thread
  <2>2. Whole(Thread(thread.data))'
    BY <1>0, <1>1, <1>2, <2>1
  <2>3. ASSUME Answered(thread') PROVE Whole(thread.seen)'
    <3>1. thread' = thread /\ thread.seen \in Seq(Nat) /\ Whole(thread.seen)
      BY <1>0, <1>2, <2>3 DEF ThreadTyped
    <3> QED BY <1>2, <3>1
  <2> QED BY <2>2, <2>3
<1>3. ASSUME Posted' = Posted, post'.comments = post.comments
      PROVE  \A d \in Seq(Nat) : Whole(d) => Whole(d)'
  BY <1>3, WholeSame
<1>4. CASE Fetches \/ Sends \/ UNCHANGED postVars
  <2>1. post' = post /\ thread' = thread
    BY <1>4
    DEF Fetches, ReadFeed, ShowFeed, FeedLost, OtherFetched, SelectFeed, Sends, HandleLike, HandleSave, HandleAddComment, SaveEdit,
        DeletePost, postVars
  <2> QED BY <1>2, <1>3, <1>4, <2>1, NumbersStay, NumbersSent
<1>5. CASE Quietly
  <2>1. Posted' = Posted /\ post' = post
    BY <1>5, NumbersStay, QuietCopies
  <2>2. \A d \in Seq(Nat) : Whole(d) => Whole(d)'
    BY <1>3, <2>1
  <2>3. CASE ReadThread
    <3>1. thread'.data = thread.data /\ thread'.seen = post.comments
      BY <2>3 DEF ReadThread, Reads, ThreadTyped, QueriesOf
    <3>2. OnWayBack("comment") = {}
      BY <2>3 DEF ReadThread, Stored, OnWayBack
    <3>3. Posted = {}
      BY <3>2 DEF Posted
    <3>4. Whole(post.comments)
      <4>1. Len(post.comments) \in Nat /\ Cardinality(Posted) = 0
        BY <1>1, <3>3, FS_EmptySet DEF PostType
      <4> QED BY <4>1 DEF Whole
    <3>5. Whole(Thread(thread.data))'
      <4>1. Thread(thread.data)' = Thread(thread.data)
        BY <3>1 DEF Thread
      <4> QED BY <1>0, <1>1, <2>2, <4>1
    <3>6. Whole(thread.seen)'
      BY <1>1, <2>2, <3>1, <3>4 DEF PostType
    <3> QED BY <3>5, <3>6
  <2>4. CASE ShowThread
    <3>1. thread.seen \in Seq(Nat) /\ Whole(thread.seen)
      BY <1>0, <2>4 DEF ShowThread, ThreadTyped
    <3>2. thread'.data = thread.seen /\ ~Answered(thread')
      BY <2>4 DEF ShowThread, Shows, Answered
    <3>3. Thread(thread.data)' = thread.seen
      BY <3>1, <3>2, PostAssumption DEF Thread
    <3> QED BY <2>2, <3>1, <3>2, <3>3
  <2>5. CASE ThreadLost
    <3>1. thread'.data = thread.data /\ ~Answered(thread')
      BY <2>5 DEF ThreadLost, Misses, Answered, ThreadTyped, QueriesOf
    <3> QED BY <1>2, <2>2, <3>1
  <2>6. CASE thread' = Refetch(thread)
    <3>1. thread'.data = thread.data /\ (thread' = thread \/ Asked(thread'))
      BY <2>6, Refetched DEF ThreadTyped
    <3> QED BY <1>2, <2>2, <3>1 DEF Asked, Answered
  <2>7. CASE thread' = thread
    BY <1>2, <2>2, <2>7
  <2>8. \A a \in acts : ~Commented(a) \/ thread' = thread \/ ReadThread \/ ShowThread \/ ThreadLost
          \/ thread' = Refetch(thread)
    BY <1>5 DEF Quietly, ToggleComments, TypeComment, OpenEditor, TypeDescription, CancelEditor
  <2> QED BY <2>3, <2>4, <2>5, <2>6, <2>7, <2>8, ThreadSteps
<1>6. ASSUME NEW a \in acts, StoreAct(a)
      PROVE  Whole(Thread(thread.data))' /\ (Answered(thread') => Whole(thread.seen)')
  <2>1. thread' = thread
    BY <1>6, StoredActs
  <2>2. CASE a.kind # "comment"
    <3>1. post'.comments = post.comments
      BY <1>6, <2>2, StoredActs DEF Writes
    <3> QED BY <1>2, <1>3, <1>6, <2>1, <2>2, <3>1, NumbersStored
  <2>3. CASE a.kind = "comment"
    <3>1. post'.comments = Append(post.comments, a.n)
      BY <1>6, <2>3, StoredActs DEF Writes
    <3>2. \A d \in Seq(Nat) : Whole(d) => Whole(d)'
      BY <1>1, <1>6, <2>3, <3>1, NumbersStored, WholeStored
    <3> QED BY <1>2, <2>1, <3>2
  <2> QED BY <2>2, <2>3
<1>7. ASSUME NEW a \in acts, Commented(a)
      PROVE  Whole(Thread(thread.data))' /\ (Answered(thread') => Whole(thread.seen)')
  <2>1. acts' = acts \ {a} /\ started' = started /\ post' = post /\ a.kind = "comment" /\ a.stage = "stored"
    BY <1>7 DEF Commented, Done
  <2>2. a.n \in Nat /\ a.n \in Posted /\ Posted' = Posted \ {a.n}
    BY <2>1, NumbersOver
  <2>3. ~Answered(thread')
    BY <1>7, <2>2, CommentedThread DEF Commented, Answered
  <2>4. thread'.data = <<a.n>> \o Thread(thread.data) /\ thread'.data \in Seq(Nat)
    BY <1>7, <2>2, CommentedThread
  <2>5. Thread(thread.data)' = thread'.data
    BY <2>4, PostAssumption DEF Thread
  <2>6. \A e : e = <<a.n>> \o Thread(thread.data) => Whole(e)'
    BY <1>0, <1>1, <2>1, <2>2, WholeAnswered
  <2> QED BY <2>3, <2>4, <2>5, <2>6
<1>8. ASSUME NEW a \in acts, Liked(a) \/ SaveToggled(a) \/ Edited(a) \/ Deleted(a) \/ ActFails(a)
      PROVE  Whole(Thread(thread.data))' /\ (Answered(thread') => Whole(thread.seen)')
  <2>1. acts' = acts \ {a} /\ started' = started /\ post' = post /\ thread' = thread
    BY <1>8 DEF Liked, SaveToggled, Edited, Deleted, ActFails, Done
  <2>2. a.kind # "comment" \/ a.stage # "stored"
    BY <1>8 DEF Liked, SaveToggled, Edited, Deleted, ActFails
  <2> QED BY <1>2, <1>3, <2>1, <2>2, NumbersOver
<1> QED BY Steps, <1>4, <1>5, <1>6, <1>7, <1>8

CopiesInv ==
  /\ GoneTold /\ InPlace /\ HeartFollows /\ BookmarkFollows
  /\ Numbered /\ ThreadTyped /\ ThreadFollows

LEMMA CopiesStart == PostInit => CopiesInv
<1> SUFFICES ASSUME PostInit PROVE CopiesInv
  OBVIOUS
<1>1. ~Answered(feed) /\ ~Answered(other) /\ ~Answered(thread) /\ ~OnPage /\ acts = {} /\ blur = {}
  BY DEF PostInit, Opened, NotOpened, Looked, Shows, Answered, OnPage
<1>2. Posted = {} /\ IsFiniteSet(Posted) /\ Cardinality(Posted) = 0
  BY <1>1, FS_EmptySet DEF Posted, OnWayBack
<1>3. Thread(thread.data) = <<>> /\ post.comments = <<>>
  BY DEF PostInit, NotOpened, Opened, Thread
<1>4. Whole(Thread(thread.data))
  BY <1>2, <1>3 DEF Whole
<1>5. thread \in QueriesOf(Seq(Nat))
  BY DEF PostInit, NotOpened, Opened, QueriesOf
<1> QED
  BY <1>1, <1>2, <1>4, <1>5
  DEF CopiesInv, GoneTold, GoneIn, InPlace, Told, HeartFollows, BookmarkFollows, Numbered, ThreadTyped, ThreadFollows

LEMMA CopiesNext ==
  Types /\ Types' /\ ButtonsBusy /\ CopiesInv /\ [PostNext]_postVars => CopiesInv'
BY GoneNext, InPlaceNext, HeartNext, BookmarkNext, NumbersNext, ThreadTypedNext, ThreadFollowsNext DEF CopiesInv

LEMMA CopiesHold == Types /\ CopiesInv => CopiesAgree
<1> SUFFICES ASSUME Types, CopiesInv PROVE ButtonsAgree /\ ThreadWhole
  BY DEF CopiesAgree
<1>1. ButtonsAgree
  <2>1. ASSUME OnPage, post.there, ~Underway("like"), "heart" \notin blur
        PROVE  buttons.liked = post.liked /\ buttons.likes = One(post.liked)
    <3>1. OnWayBack("like") = {}
      BY <2>1 DEF CopiesInv, InPlace, OnWayBack, Underway
    <3> QED BY <2>1, <3>1 DEF CopiesInv, HeartFollows
  <2>2. ASSUME OnPage, post.there, ~Underway("save"), "bookmark" \notin blur
        PROVE  buttons.saved = post.saved
    <3>1. OnWayBack("save") = {}
      BY <2>2 DEF CopiesInv, InPlace, BookmarkFollows, OnWayBack, Underway
    <3> QED BY <2>2, <3>1 DEF CopiesInv, BookmarkFollows
  <2> QED BY <2>1, <2>2 DEF ButtonsAgree
<1>2. ThreadWhole
  <2> SUFFICES ASSUME thread.data # NoData, ~Stored("comment"), "thread" \notin blur
               PROVE  /\ Len(thread.data) = Len(post.comments)
                      /\ \A i \in DOMAIN post.comments :
                           \E j \in DOMAIN thread.data : thread.data[j] = post.comments[i]
    BY DEF ThreadWhole
  <2>1. OnWayBack("comment") = {}
    BY DEF OnWayBack, Stored
  <2>2. Posted = {} /\ Cardinality(Posted) = 0
    BY <2>1, FS_EmptySet DEF Posted
  <2>3. Whole(thread.data) /\ Len(thread.data) \in Nat
    BY DEF CopiesInv, ThreadFollows, Thread, ThreadTyped, QueriesOf
  <2> QED BY <2>2, <2>3 DEF Whole
<1> QED BY <1>1, <1>2

(* In however many lists the post comes and goes, with any comments, and      *)
(* whatever crosses: with nothing under way the heart, its number, the        *)
(* bookmark and the thread agree with what is stored, unless something was    *)
(* missed: CopiesAgree.                                                       *)
THEOREM CopiesFollow == PostSpec => []CopiesAgree
<1> DEFINE Inv == Types /\ ClosedIdle /\ ButtonsBusy /\ CopiesInv
<1>1. PostInit => Inv
  BY TypesInit, CopiesStart, BusyStart
<1>2. Inv /\ [PostNext]_postVars => Inv'
  BY TypesNext, ClosedNext, BusyNext, CopiesNext
<1>3. Inv => CopiesAgree
  BY CopiesHold
<1> HIDE DEF Inv
<1> QED BY <1>1, <1>2, <1>3, PTL DEF PostSpec
===============================================================================
