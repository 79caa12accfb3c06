--------------------------- MODULE ContextEditing ---------------------------
(***************************************************************************)
(* The editor of the context view (ContextView in AppShell.tsx): a record  *)
(* comes into it from the address, from the list or from a suggestion, is  *)
(* changed and saved, and whatever reloads the data of the page may put    *)
(* another one in its place.                                               *)
(*                                                                         *)
(* The editors of contacts and of conversations work alike and this is one *)
(* of them.  A record is a text, 0 for none yet; what is stored for it is  *)
(* told in ContextStore.                                                   *)
(***************************************************************************)
EXTENDS Naturals

CONSTANTS
  Records,   \* records by key
  NoRecord,  \* no record, no focus
  Posts,     \* requests that may be under way together
  MaxTyped,  \* bound: texts
  MaxTrips   \* bound: requests

ASSUME EditingAssumption ==
  NoRecord \notin Records /\ MaxTyped \in Nat /\ MaxTrips \in Nat

VARIABLES
  stored,  \* record -> what the server has
  known,   \* [there, texts]: data of the page, if the last load went well
  waiting, \* contextLoading
  trouble, \* contextError is set
  focus,   \* the record the address or a link names
  draft,   \* contactDraft or conversationDraft: [key, text]
  unsaved, \* it was changed since it was put there, by the one who edits
  posts,   \* request -> [step, key, text, got]
  typed, trips \* texts and requests so far

editingVars == <<stored, known, waiting, trouble, focus, draft, unsaved, posts, typed, trips>>
curtain == <<waiting, trouble>>

Texts == [Records -> Nat]
NoPost == [step |-> "idle", key |-> NoRecord, text |-> 0, got |-> [r \in Records |-> 0]]

EditingTypeOK ==
  /\ stored \in Texts
  /\ known \in [there : BOOLEAN, texts : Texts]
  /\ waiting \in BOOLEAN /\ trouble \in BOOLEAN
  /\ focus \in Records \cup {NoRecord}
  /\ draft \in [key : Records \cup {NoRecord}, text : Nat]
  /\ unsaved \in BOOLEAN
  /\ posts \in [Posts -> [step : {"idle", "sent", "stored", "refused", "reading", "landing"},
                          key : Records \cup {NoRecord}, text : Nat, got : Texts]]
  /\ typed \in Nat /\ trips \in Nat

EditingInit ==
  /\ stored = [r \in Records |-> 0]
  /\ known = [there |-> TRUE, texts |-> stored]
  /\ waiting = FALSE /\ trouble = FALSE
  /\ focus = NoRecord
  /\ draft = [key |-> NoRecord, text |-> 0]
  /\ unsaved = FALSE
  /\ posts = [p \in Posts |-> NoPost]
  /\ typed = 0 /\ trips = 0

Put(r, text) == draft' = [key |-> r, text |-> text] /\ unsaved' = FALSE
Trip == trips < MaxTrips /\ trips' = trips + 1

(* The editors and lists are on the screen; what is in the editors stays   *)
(* while they are not.                                                     *)
OnScreen == ~waiting /\ ~trouble

(* refreshContext begins and ends.                                         *)
BeginWaiting == waiting' = TRUE /\ trouble' = FALSE
EndWaiting == waiting' = FALSE

-----------------------------------------------------------------------------
(* The effect that follows focus and data: the record in focus, as it is   *)
(* in the data, or an empty one for it.                                    *)
FollowFocusAlways(f, data) ==
  IF data.there /\ (f # NoRecord \/ draft.key # NoRecord)
    THEN LET r == IF f # NoRecord THEN f ELSE draft.key IN Put(r, data.texts[r])
    ELSE UNCHANGED <<draft, unsaved>>
FollowFocus(f, data) ==
  IF f # NoRecord /\ data.there THEN Put(f, data.texts[f]) ELSE UNCHANGED <<draft, unsaved>>

Focus(r) ==
  /\ focus' = r
  /\ FollowFocus(r, known)
  /\ UNCHANGED <<stored, known, curtain, posts, typed, trips>>

(* Edit in the list, which leaves the focus where it was.                  *)
EditContext(r) ==
  /\ OnScreen
  /\ Put(r, known.texts[r])
  /\ UNCHANGED <<stored, known, curtain, focus, posts, typed, trips>>

(* A suggestion overwrites most of the record: a text of its own.          *)
ApplySuggestion(r) ==
  /\ OnScreen
  /\ typed < MaxTyped /\ typed' = typed + 1
  /\ Put(r, typed')
  /\ UNCHANGED <<stored, known, curtain, focus, posts, trips>>

TypeText ==
  /\ OnScreen /\ draft.key # NoRecord
  /\ typed < MaxTyped /\ typed' = typed + 1
  /\ draft' = [draft EXCEPT !.text = typed']
  /\ unsaved' = TRUE
  /\ UNCHANGED <<stored, known, curtain, focus, posts, trips>>

-----------------------------------------------------------------------------
(* saveContext: nothing keeps one from typing or choosing meanwhile.       *)
SaveContext(p) ==
  /\ OnScreen
  /\ posts[p] = NoPost /\ draft.key # NoRecord /\ Trip
  /\ posts' = [posts EXCEPT ![p] = [NoPost EXCEPT !.step = "sent", !.key = draft.key, !.text = draft.text]]
  /\ UNCHANGED <<stored, known, curtain, focus, draft, unsaved, typed>>

Stored(p) ==
  /\ posts[p].step = "sent"
  /\ stored' = [stored EXCEPT ![posts[p].key] = posts[p].text]
  /\ posts' = [posts EXCEPT ![p].step = "stored"]
  /\ UNCHANGED <<known, curtain, focus, draft, unsaved, typed, trips>>

(* The server says no, or the browser gives up, before or after it is done.*)
NotStored(p) ==
  /\ posts[p].step \in {"sent", "stored"}
  /\ posts' = [posts EXCEPT ![p] = NoPost]
  /\ UNCHANGED <<stored, known, curtain, focus, draft, unsaved, typed, trips>>

(* The record that was saved comes into the editor, whatever is in it by   *)
(* then; the data are loaded anew.                                         *)
Saved(p) ==
  /\ posts[p].step = "stored"
  /\ Put(posts[p].key, posts[p].text)
  /\ posts' = [posts EXCEPT ![p].step = "reading"]
  /\ BeginWaiting
  /\ UNCHANGED <<stored, known, focus, typed, trips>>

(* The refresh button, and saveSettings once it is done.                   *)
RefreshContext(p) ==
  /\ posts[p] = NoPost /\ Trip
  /\ posts' = [posts EXCEPT ![p].step = "reading"]
  /\ BeginWaiting
  /\ UNCHANGED <<stored, known, focus, draft, unsaved, typed>>

ReadContext(p) ==
  /\ posts[p].step = "reading"
  /\ posts' = [posts EXCEPT ![p].step = "landing", ![p].got = stored]
  /\ UNCHANGED <<stored, known, curtain, focus, draft, unsaved, typed, trips>>

LandContext(p) ==
  /\ posts[p].step = "landing"
  /\ known' = [there |-> TRUE, texts |-> posts[p].got]
  /\ posts' = [posts EXCEPT ![p] = NoPost]
  /\ EndWaiting
  /\ FollowFocus(focus, known')
  /\ UNCHANGED <<stored, trouble, focus, typed, trips>>

LandNoContext(p) ==
  /\ posts[p].step \in {"reading", "landing"}
  /\ known' = [known EXCEPT !.there = FALSE]
  /\ posts' = [posts EXCEPT ![p] = NoPost]
  /\ EndWaiting /\ trouble' = TRUE
  /\ UNCHANGED <<stored, focus, draft, unsaved, typed, trips>>

EditingNext ==
  \/ \E r \in Records : Focus(r) \/ EditContext(r) \/ ApplySuggestion(r)
  \/ TypeText
  \/ \E p \in Posts :
       \/ SaveContext(p) \/ Stored(p) \/ NotStored(p) \/ Saved(p)
       \/ RefreshContext(p) \/ ReadContext(p) \/ LandContext(p) \/ LandNoContext(p)

EditingSpec == EditingInit /\ [][EditingNext]_editingVars

-----------------------------------------------------------------------------
(* What is typed and not saved stays while lists are loaded anew, saves    *)
(* fail and data go missing.  It is lost when a record is chosen, when a   *)
(* save made earlier is answered, and when data are loaded while a record  *)
(* is in focus, which then comes back into the editor.                     *)
EditSurvivesRefresh ==
  [][unsaved /\ ~unsaved' =>
       \/ \E r \in Records : Focus(r) \/ EditContext(r) \/ ApplySuggestion(r)
       \/ \E p \in Posts : posts[p].step = "stored" /\ posts'[p].step = "reading"
       \/ focus # NoRecord /\ \E p \in Posts : posts[p].step = "landing"]_editingVars
=============================================================================
