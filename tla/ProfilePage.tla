----------------------------- MODULE ProfilePage -----------------------------
(* A user's own profile page, in its four views: the profile the server       *)
(* keeps, the cached answers the page and the navigation bar show, the edit   *)
(* dialog and the photo control, and the requests of both while they travel.  *)
(* A profile is a text field (every one of the view's text fields is treated  *)
(* alike), a set of tags (interests, skills, research areas) and a photo.     *)
EXTENDS Naturals, Sequences, FiniteSets, QueryCache

CONSTANTS
  Views,     \* subset of {"citizen", "student", "faculty", "shared"}
  ProfileTexts, Tags, Photos,
  FirstText, FirstPhoto,  \* of the profile before the page's changes
  Empty,     \* the text of an empty field
  MaxTags,   \* 10 interests, 25 skills
  MaxCalls   \* bound on the saves and uploads of a page; then no dialog is opened

Profiles == [text : ProfileTexts \cup {Empty}, tags : SUBSET Tags, photo : Photos]

ASSUME ProfileAssumption ==
  /\ Views \subseteq {"citizen", "student", "faculty", "shared"}
  /\ FirstText \in ProfileTexts /\ FirstPhoto \in Photos
  /\ NoData \notin Profiles /\ MaxCalls \in Nat

VARIABLES
  view,
  server,    \* the stored profile
  cache,     \* the queries: "own" and "me" of the page, "bar" of the top bar
  dialog,    \* the edit dialog and its form
  calls,     \* the saves and uploads since the page was opened
  saving,    \* isSaving; in the citizen and shared views, the call the
             \* mutation hook follows is the last of "followed"
  followed,
  uploadingPhoto, \* isUploadingAvatar
  unheard    \* something was stored that some query of the page missed

profileVars == <<view, server, cache, dialog, calls, saving, followed, uploadingPhoto,
                 unheard>>

Keys == {"own", "me", "bar"}
Closed == [open |-> FALSE, text |-> Empty, tags |-> {}]

Own == IF view = "shared" THEN "me" ELSE "own"
Mounted == {Own, "bar"} \cup IF view = "faculty" THEN {"me"} ELSE {}

ProfileInit ==
  /\ view \in Views
  /\ server = [text |-> FirstText, tags |-> {}, photo |-> FirstPhoto]
  /\ cache = [k \in Mounted |-> Opened]
  /\ dialog = Closed
  /\ calls = <<>> /\ followed = 0
  /\ saving = FALSE /\ uploadingPhoto = FALSE /\ unheard = FALSE
-------------------------------------------------------------------------------
(* What the parts of a view show, and the query they take it from.            *)
CitizenHeader == {<<"text", "own">>, <<"photo", "own">>}
CitizenDetails == {<<"text", "own">>, <<"tags", "own">>}
SharedHeader == {<<"text", "me">>, <<"photo", "me">>}
FacultyHeader == {<<"text", "own">>, <<"tags", "own">>, <<"photo", "me">>}
StudentHeader == {<<"text", "own">>, <<"photo", "own">>}
StudentSkills == {<<"tags", "own">>}

(* The name in the top bar; a faculty member's changes do not refresh it.     *)
TopBar == {<<"photo", "bar">>} \cup
          IF view = "faculty" THEN {} ELSE {<<"text", "bar">>}

Shown == TopBar \cup
  CASE view = "citizen" -> CitizenHeader \cup CitizenDetails
    [] view = "student" -> StudentHeader \cup StudentSkills
    [] view = "faculty" -> FacultyHeader
    [] view = "shared"  -> SharedHeader

(* A citizen whose profile could not be read again sees an error instead of   *)
(* the page; the shared view waits for its data; the others show blanks.      *)
PageThere ==
  CASE view = "citizen" -> cache["own"].data # NoData /\ ~cache["own"].failed
    [] view = "shared"  -> cache["me"].data # NoData
    [] OTHER -> cache["own"].data # NoData \/ cache["own"].fetch = "idle"

(* The dialogs.                                                               *)
CitizenFields == {"text", "tags"}
SharedFields == {"text"}
FacultyFields == {"text", "tags"}
StudentFields == {"text", "tags"}
Fields == CASE view = "citizen" -> CitizenFields
            [] view = "student" -> StudentFields
            [] view = "faculty" -> FacultyFields
            [] view = "shared"  -> SharedFields

OpenEdit ==
  /\ PageThere /\ cache[Own].data # NoData /\ Len(calls) < MaxCalls
  /\ dialog' = [open |-> TRUE, text |-> cache[Own].data.text,
                tags |-> cache[Own].data.tags]
  /\ UNCHANGED <<view, server, cache, calls, saving, followed, uploadingPhoto, unheard>>

Editing == dialog.open /\ PageThere

EditText(t) ==
  /\ Editing /\ t # dialog.text
  /\ dialog' = [dialog EXCEPT !.text = t]
  /\ UNCHANGED <<view, server, cache, calls, saving, followed, uploadingPhoto, unheard>>

(* toggleInterest, handleAddSkill and handleRemoveSkill; research areas are   *)
(* typed.                                                                     *)
ToggleTag(g) ==
  /\ Editing /\ "tags" \in Fields
  /\ \/ /\ g \in dialog.tags
        /\ dialog' = [dialog EXCEPT !.tags = @ \ {g}]
     \/ /\ g \notin dialog.tags
        /\ view = "faculty" \/ Cardinality(dialog.tags) < MaxTags
        /\ dialog' = [dialog EXCEPT !.tags = @ \cup {g}]
  /\ UNCHANGED <<view, server, cache, calls, saving, followed, uploadingPhoto, unheard>>

(* The cross of the dialog is never disabled.                                 *)
CancelEdit ==
  /\ Editing
  /\ dialog' = Closed
  /\ UNCHANGED <<view, server, cache, calls, saving, followed, uploadingPhoto, unheard>>
-------------------------------------------------------------------------------
InFlight(i) == calls[i].stage \in {"sent", "stored", "patch", "patched"}

Quiet == \A i \in DOMAIN calls : calls[i].stage = "over"

(* The mutation hook is pending while its last call is.                       *)
Pending == followed # 0 /\ InFlight(followed)

SaveBusy == IF view \in {"citizen", "shared"} THEN Pending ELSE saving

Valid == view \in {"citizen", "student"} => dialog.text # Empty

Call(kind, form, p) ==
  [kind |-> kind, stage |-> "sent", text |-> form.text, tags |-> form.tags,
   photo |-> p, answer |-> NoData]

(* A call that is over, whatever it was, only counts.                         *)
Past == [Call("save", Closed, FirstPhoto) EXCEPT !.stage = "over"]

Save ==
  /\ calls' = Append(calls, Call("save", dialog, FirstPhoto))
  /\ IF view \in {"citizen", "shared"}
       THEN followed' = Len(calls) + 1 /\ UNCHANGED saving
       ELSE saving' = TRUE /\ UNCHANGED followed
  /\ UNCHANGED <<view, server, cache, dialog, uploadingPhoto, unheard>>

SaveProfile ==
  /\ Editing /\ ~SaveBusy /\ Valid /\ Len(calls) < MaxCalls
  /\ Save

(* The header's control of the shared and faculty views and the dialogs' is   *)
(* a file input; the citizen's and the student's are off during an upload.    *)
PickPhoto(p) ==
  /\ PageThere /\ Len(calls) < MaxCalls
  /\ view \in {"citizen", "student"} => ~uploadingPhoto
  /\ calls' = Append(calls, Call("photo", Closed, p))
  /\ uploadingPhoto' = TRUE
  /\ UNCHANGED <<view, server, cache, dialog, saving, followed, unheard>>

(* The server stores the fields that are sent.  An empty text is left out of  *)
(* the request (undefined), so it clears nothing; an empty list is sent.      *)
Patched(c) ==
  IF c.kind = "photo" THEN [server EXCEPT !.photo = c.photo]
  ELSE [server EXCEPT !.text = IF c.text = Empty THEN @ ELSE c.text,
                      !.tags = IF "tags" \in Fields THEN c.tags ELSE @]

(* POST upload-media stores the photo; PATCH stores its address again.        *)
Process(i) ==
  /\ calls[i].stage \in {"sent", "patch"}
  /\ server' = Patched(calls[i])
  /\ calls' = [calls EXCEPT ![i].answer = server',
                 ![i].stage = IF @ = "sent" THEN "stored" ELSE "patched"]
  /\ UNCHANGED <<view, cache, dialog, saving, followed, uploadingPhoto, unheard>>

(* What follows an accepted save, and an accepted photo.                      *)
SaveSets == CASE view = "citizen" -> {"own"} [] view = "shared" -> {"me"}
              [] OTHER -> {}
SaveRefetches == IF view = "faculty" THEN {"own"} ELSE {Own, "bar"}
PhotoSets == CASE view = "student" -> {} [] view = "citizen" -> {"own"}
               [] OTHER -> {"me"}
PhotoRefetches == IF view = "faculty" THEN {"me", "bar"} ELSE {Own, "bar"}

(* A query whose first fetch is still under way is not refetched, and that    *)
(* fetch may have read the profile before the change.                         *)
Unread == \E k \in Mounted : cache[k].data = NoData

Saved(i) ==
  /\ calls[i].kind = "save" /\ calls[i].stage = "stored"
  /\ calls' = [calls EXCEPT ![i] = Past]
  /\ cache' = RefetchAll(SetData(cache, SaveSets, calls[i].answer), SaveRefetches)
  /\ dialog' = Closed
  /\ saving' = FALSE
  /\ unheard' = (unheard \/ Unread)
  /\ UNCHANGED <<view, server, followed, uploadingPhoto>>

(* All but the student's view now patch the profile with the address.         *)
Uploaded(i) ==
  /\ calls[i].kind = "photo" /\ calls[i].stage = "stored"
  /\ IF view = "student"
       THEN /\ calls' = [calls EXCEPT ![i] = Past]
            /\ cache' = RefetchAll(cache, PhotoRefetches)
            /\ uploadingPhoto' = FALSE
            /\ unheard' = (unheard \/ Unread)
            /\ UNCHANGED followed
       ELSE /\ calls' = [calls EXCEPT ![i].stage = "patch", ![i].answer = NoData]
            /\ followed' = i
            /\ UNCHANGED <<cache, uploadingPhoto, unheard>>
  /\ UNCHANGED <<view, server, dialog, saving>>

\* Mutant of PhotoPatched: the queries are not invalidated.
PhotoPatched_NoRefetch(i) ==
  /\ calls[i].stage = "patched"
  /\ calls' = [calls EXCEPT ![i] =
                 IF view = "citizen" THEN Past ELSE [@ EXCEPT !.answer = NoData, !.stage = "again"]]
  /\ cache' = SetData(cache, PhotoSets, calls[i].answer)
  /\ uploadingPhoto' = (uploadingPhoto /\ view # "citizen")
  /\ unheard' = (unheard \/ Unread)
  /\ UNCHANGED <<view, server, dialog, saving, followed>>

(* onSuccess of the mutation; the shared and faculty views then wait for the  *)
(* refetched queries.                                                         *)
PhotoPatched(i) ==
  /\ calls[i].stage = "patched"
  /\ calls' = [calls EXCEPT ![i] =
                 IF view = "citizen" THEN Past ELSE [@ EXCEPT !.answer = NoData, !.stage = "again"]]
  /\ cache' = RefetchAll(SetData(cache, PhotoSets, calls[i].answer), PhotoRefetches)
  /\ uploadingPhoto' = (uploadingPhoto /\ view # "citizen")
  /\ unheard' = (unheard \/ Unread)
  /\ UNCHANGED <<view, server, dialog, saving, followed>>

(* await invalidateQueries; refetchSelf.  The wait ends with the fetch, or    *)
(* when another refetch gives it up.                                          *)
PhotoSettled(i) ==
  /\ calls[i].stage = "again"
  /\ calls' = [calls EXCEPT ![i] = Past]
  /\ cache' = RefetchAll(cache, {"me"})
  /\ uploadingPhoto' = FALSE
  /\ UNCHANGED <<view, server, dialog, saving, followed, unheard>>

(* Refused, timed out, or the answer is lost.  The dialog stays open.         *)
FailCall(i) ==
  /\ InFlight(i)
  /\ calls' = [calls EXCEPT ![i] = Past]
  /\ saving' = (saving /\ calls[i].kind = "photo")
  /\ uploadingPhoto' = (uploadingPhoto /\ calls[i].kind = "save")
  /\ unheard' = (unheard \/ calls[i].stage # "sent")
  /\ UNCHANGED <<view, server, cache, dialog, followed>>

Fetch(k) ==
  /\ \/ Asked(cache[k]) /\ cache' = [cache EXCEPT ![k] = Reads(@, server)]
     \/ Answered(cache[k]) /\ cache' = [cache EXCEPT ![k] = Shows(@)]
  /\ UNCHANGED <<view, server, dialog, calls, saving, followed, uploadingPhoto, unheard>>

MissFetch(k) ==
  /\ Asked(cache[k]) \/ Answered(cache[k])
  /\ cache' = [cache EXCEPT ![k] = Misses(@)]
  /\ UNCHANGED <<view, server, dialog, calls, saving, followed, uploadingPhoto, unheard>>
-------------------------------------------------------------------------------
Settle(i) == Process(i) \/ Saved(i) \/ Uploaded(i) \/ PhotoPatched(i)
             \/ PhotoSettled(i) \/ FailCall(i)

ProfileNext ==
  \/ OpenEdit \/ CancelEdit \/ SaveProfile
  \/ \E t \in ProfileTexts \cup {Empty} : EditText(t)
  \/ \E g \in Tags : ToggleTag(g)
  \/ \E p \in Photos : PickPhoto(p)
  \/ \E i \in DOMAIN calls : Settle(i)
  \/ \E k \in Mounted : Fetch(k) \/ MissFetch(k)

ProfileSpec == ProfileInit /\ [][ProfileNext]_profileVars
-------------------------------------------------------------------------------
(* Saves and uploads overlap, their answers (snapshots the page puts into its *)
(* cache) come back in any order and cross fetches under way.  When nothing   *)
(* travels any more, every part of the page and the top bar shows the stored  *)
(* profile, unless an answer or a fetch was lost, or the change was answered  *)
(* before the first fetch of some query was.                                  *)
PageSettles ==
  Quiet /\ ~unheard /\ (\A k \in Mounted : Settled(cache[k]))
  => \A s \in Shown : cache[s[2]].data[s[1]] = server[s[1]]
===============================================================================
