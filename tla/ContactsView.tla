---------------------------- MODULE ContactsView ----------------------------
(***************************************************************************)
(* Editing contacts: Contacts in AppShell.tsx, PATCH of contacts/[id] and  *)
(* the address book behind it.                                             *)
(*                                                                         *)
(* The view works on a copy of the list that was loaded with the page.  A  *)
(* contact that is added has a local id until it is saved, and the address *)
(* book then gives it one of its own.  Saving asks nobody to wait: the     *)
(* editor stays open, may be changed, saved again or left.                 *)
(*                                                                         *)
(* A contact is a text, counted up with every change, and what the route   *)
(* does not pass on as it is: fields that may be empty (org stands for     *)
(* them), the labels of its points and its name.  What the address book    *)
(* has is told as the list of contacts would show it.                      *)
(***************************************************************************)
EXTENDS Naturals, FiniteSets

CONSTANTS
  Known,      \* ids in the address book when the page is loaded
  Made,       \* ids the address book has for new contacts
  Local,      \* ids the view has for new contacts
  NoContact,  \* no contact
  Saves,      \* requests that may be under way together
  MaxTexts,   \* bound: texts
  MaxDeeds    \* bound: saves, failures, removals, departures and reloads together

ASSUME ContactsAssumption ==
  /\ Known \cap (Made \cup Local) = {} /\ Made \cap Local = {}
  /\ NoContact \notin Known \cup Made \cup Local
  /\ MaxTexts \in Nat /\ MaxDeeds \in Nat

VARIABLES
  book,     \* contact -> what the address book has
  origin,   \* new contact -> the local one it was made of
  answer,   \* the list the server keeps for the next page (ContactsCache)
  contacts, \* the list this page was loaded with
  managed,  \* managedContacts: the list the view shows
  editor,   \* draftContact: [id, value]
  saves,    \* request -> [step, photo, id, value, gets, mounted]
  unsure,   \* contacts, by the id they had first, about which the view may err
  texts, deeds \* texts and deeds so far

contactsVars == <<book, origin, answer, contacts, managed, editor, saves, unsure, texts, deeds>>
lists == <<answer, contacts>>

Real == Known \cup Made
Ids == Real \cup Local
(* Whether an organization is named, whether every label is a type that    *)
(* the route knows, whether there is a name to display.                    *)
Entry == [n : Nat \ {0}, org : BOOLEAN, types : BOOLEAN, named : BOOLEAN]
Gone == [n |-> 0, org |-> FALSE, types |-> TRUE, named |-> TRUE]
Values == Entry \cup {Gone}
Blank == [n |-> 1, org |-> FALSE, types |-> TRUE, named |-> TRUE]
NoEditor == [id |-> NoContact, value |-> Gone]
NoSave == [step |-> "idle", photo |-> FALSE, id |-> NoContact, value |-> Gone, gets |-> NoContact,
           mounted |-> TRUE]

ContactsTypeOK ==
  /\ book \in [Real -> Values] /\ answer \in [Real -> Values]
  /\ contacts \in [Ids -> Values] /\ managed \in [Ids -> Values]
  /\ origin \in [Made -> Local \cup {NoContact}]
  /\ editor \in [id : Ids \cup {NoContact}, value : Values]
  /\ saves \in [Saves -> [step : {"idle", "sent", "done", "failed"}, photo : BOOLEAN,
                          id : Ids \cup {NoContact}, value : Values,
                          gets : Ids \cup {NoContact}, mounted : BOOLEAN]]
  /\ unsure \subseteq Ids
  /\ texts \in Nat /\ deeds \in Nat

AllOf(b) == [i \in Ids |-> IF i \in Real THEN b[i] ELSE Gone]

ContactsInit ==
  /\ \E types \in BOOLEAN :
       book = [i \in Real |-> IF i \in Known THEN [Blank EXCEPT !.org = TRUE, !.types = types]
                                             ELSE Gone]
  /\ origin = [i \in Made |-> NoContact]
  /\ answer = book
  /\ contacts = AllOf(book) /\ managed = AllOf(book)
  /\ editor = NoEditor
  /\ saves = [s \in Saves |-> NoSave]
  /\ unsure = {}
  /\ texts = 1 /\ deeds = 0

-----------------------------------------------------------------------------
Root(i) == IF i \in Made /\ origin[i] # NoContact THEN origin[i] ELSE i
UnderWayOn(i) == \E s \in Saves : saves[s] # NoSave /\ Root(saves[s].id) = Root(i)
Deed == deeds < MaxDeeds /\ deeds' = deeds + 1
NewText == texts < MaxTexts /\ texts' = texts + 1

-----------------------------------------------------------------------------
(* The view.                                                               *)

BeginAddContact ==
  \E l \in Local :
    /\ managed[l] = Gone /\ editor.id # l /\ ~UnderWayOn(l)
    /\ \A i \in Made : origin[i] # l
    /\ managed' = [managed EXCEPT ![l] = Blank]
    /\ editor' = [id |-> l, value |-> Blank]
    /\ UNCHANGED <<book, origin, lists, saves, unsure, texts, deeds>>

BeginContactEdit(i) ==
  /\ editor = NoEditor /\ managed[i] # Gone
  /\ editor' = [id |-> i, value |-> managed[i]]
  /\ UNCHANGED <<book, origin, lists, managed, saves, unsure, texts, deeds>>

(* A point that is added has the label "main", which is no type.           *)
UpdateDraft ==
  /\ editor # NoEditor
  /\ NewText
  /\ \E v \in [n : {texts'}, org : BOOLEAN, types : BOOLEAN, named : BOOLEAN] :
       editor' = [editor EXCEPT !.value = v]
  /\ UNCHANGED <<book, origin, lists, managed, saves, unsure, deeds>>

CancelContactEdit ==
  /\ editor # NoEditor
  /\ editor' = NoEditor
  /\ UNCHANGED <<book, origin, lists, managed, saves, unsure, texts, deeds>>

SaveContact(s, i, v, photo) ==
  /\ Deed
  /\ saves[s] = NoSave /\ s = CHOOSE t \in Saves : saves[t] = NoSave
  /\ saves' = [saves EXCEPT ![s] =
       [NoSave EXCEPT !.step = "sent", !.photo = photo, !.id = i, !.value = v]]
  /\ unsure' = unsure \cup (IF UnderWayOn(i) \/ (photo /\ i \in Local) THEN {Root(i)} ELSE {})

(* saveEdit finds a name for a contact that has none, importPhoto does not.*)
SaveEdit(s) ==
  /\ editor # NoEditor
  /\ SaveContact(s, editor.id, [editor.value EXCEPT !.named = TRUE], FALSE)
  /\ UNCHANGED <<book, origin, lists, managed, editor, texts>>

(* importPhoto saves at once, and the editor is open on the contact after. *)
ImportPhoto(s) ==
  /\ NewText
  /\ \E i \in Ids :
       /\ IF editor # NoEditor THEN editor.id = i ELSE managed[i] # Gone
       /\ LET old == IF editor # NoEditor THEN editor.value ELSE managed[i]
              new == [old EXCEPT !.n = texts']
          IN /\ managed' = IF managed[i] = Gone THEN managed ELSE [managed EXCEPT ![i] = new]
             /\ editor' = [id |-> i, value |-> new]
             /\ SaveContact(s, i, new, TRUE)
  /\ UNCHANGED <<book, origin, lists>>

RemoveSelectedContact(i) ==
  /\ editor = NoEditor /\ managed[i] # Gone
  /\ Deed
  /\ managed' = [managed EXCEPT ![i] = Gone]
  /\ UNCHANGED <<book, origin, lists, editor, saves, unsure, texts>>

-----------------------------------------------------------------------------
(* The server and the address book.                                        *)

(* contactArgs: a label that is no type becomes "other", a contact without *)
(* a name gets one.  It leaves out what is empty, and update_contact leaves*)
(* alone what is left out.                                                 *)
ContactArgs(v) == [v EXCEPT !.types = TRUE, !.named = TRUE]
Updated(old, v) == [ContactArgs(v) EXCEPT !.org = v.org \/ old.org]

(* Which id a new contact gets does not matter.                            *)
NewIds == {f \in Made : book[f] = Gone}

Patched(s) ==
  LET a == saves[s] IN
  /\ a.step = "sent"
  /\ \/ /\ a.id \in Local
        /\ NewIds # {}
        /\ LET f == CHOOSE i \in NewIds : TRUE
           IN /\ book' = [book EXCEPT ![f] = ContactArgs(a.value)]
              /\ origin' = [origin EXCEPT ![f] = a.id]
              /\ saves' = [saves EXCEPT ![s].step = "done", ![s].gets = f]
        /\ UNCHANGED unsure
     \/ /\ a.id \in Real
        /\ book' = [book EXCEPT ![a.id] = Updated(@, a.value)]
        /\ saves' = [saves EXCEPT ![s].step = "done", ![s].gets = a.id]
        /\ unsure' = unsure \cup (IF book'[a.id] # ContactArgs(a.value) THEN {Root(a.id)} ELSE {})
        /\ UNCHANGED origin
  /\ UNCHANGED <<lists, managed, editor, texts, deeds>>

(* contacts-mcp has no answer in time, or the answer is lost, before it    *)
(* has done what it was asked or after.                                    *)
NotPatched(s) ==
  /\ saves[s].step \in {"sent", "done"} /\ Deed
  /\ saves' = [saves EXCEPT ![s].step = "failed"]
  /\ unsure' = unsure \cup
       (IF saves[s].step = "done" \/ saves[s].photo THEN {Root(saves[s].id)} ELSE {})
  /\ UNCHANGED <<book, origin, lists, managed, editor, texts>>

(* The entry with the id that was sent becomes the saved contact.          *)
LandSaveUnderOldId(s) ==
  LET a == saves[s] IN
  /\ a.step = "done" /\ saves' = [saves EXCEPT ![s] = NoSave]
  /\ managed' = IF a.mounted /\ managed[a.id] # Gone THEN [managed EXCEPT ![a.id] = a.value] ELSE managed
  /\ editor' = IF a.mounted /\ ~a.photo THEN NoEditor ELSE editor
  /\ UNCHANGED <<book, origin, lists, unsure, texts, deeds>>
LandSaveOfNewOnly(s) ==
  LET a == saves[s] IN
  /\ a.step = "done" /\ saves' = [saves EXCEPT ![s] = NoSave]
  /\ managed' = IF a.mounted /\ managed[a.id] # Gone /\ a.id # a.gets
                  THEN [managed EXCEPT ![a.id] = Gone, ![a.gets] = a.value] ELSE managed
  /\ editor' = IF a.mounted /\ ~a.photo THEN NoEditor ELSE editor
  /\ UNCHANGED <<book, origin, lists, unsure, texts, deeds>>
LandSave(s) ==
  LET a == saves[s] IN
  /\ a.step = "done"
  /\ saves' = [saves EXCEPT ![s] = NoSave]
  /\ managed' = IF a.mounted /\ managed[a.id] # Gone
                  THEN [i \in Ids |-> IF i = a.gets THEN a.value ELSE IF i = a.id THEN Gone ELSE managed[i]]
                  ELSE managed
  /\ editor' = IF a.mounted /\ ~a.photo THEN NoEditor ELSE editor
  /\ UNCHANGED <<book, origin, lists, unsure, texts, deeds>>

LandFailure(s) ==
  /\ saves[s].step = "failed"
  /\ saves' = [saves EXCEPT ![s] = NoSave]
  /\ UNCHANGED <<book, origin, lists, managed, editor, unsure, texts, deeds>>

-----------------------------------------------------------------------------
(* The list is copied afresh; answers to what was asked before find no     *)
(* view any more.                                                          *)
Mount(list) ==
  /\ managed' = list
  /\ editor' = NoEditor
  /\ saves' = [s \in Saves |-> [saves[s] EXCEPT !.mounted = (saves[s] = NoSave)]]
  /\ unsure' = unsure
       \cup {Root(i) : i \in {j \in Real : list[j] # book[j]}}
       \cup {Root(saves[s].id) : s \in {t \in Saves : saves[t] # NoSave}}

(* To another view and back: the list is the one the page was loaded with. *)
LeaveAndReturn ==
  /\ Deed
  /\ Mount(contacts)
  /\ UNCHANGED <<book, origin, lists, texts>>

(* GET of the contacts: exported anew or what the server has kept, which   *)
(* no PATCH clears.                                                        *)
ReloadPage ==
  /\ Deed
  /\ answer' \in {answer, book}
  /\ contacts' = AllOf(answer')
  /\ Mount(contacts')
  /\ UNCHANGED <<book, origin, texts>>

ContactsNext ==
  \/ BeginAddContact \/ UpdateDraft \/ CancelContactEdit
  \/ \E i \in Ids : BeginContactEdit(i) \/ RemoveSelectedContact(i)
  \/ \E s \in Saves :
       SaveEdit(s) \/ ImportPhoto(s) \/ Patched(s) \/ NotPatched(s) \/ LandSave(s) \/ LandFailure(s)
  \/ LeaveAndReturn \/ ReloadPage

ContactsSpec == ContactsInit /\ [][ContactsNext]_contactsVars

-----------------------------------------------------------------------------
(* What the view shows of a contact that is not being saved is what the    *)
(* address book has, or what contactArgs made that of, although saving     *)
(* asks for no new list: saveEdit and importPhoto put in what they sent,   *)
(* under the id they were given, with the labels (and for a photo the      *)
(* missing name) that the route has replaced in the address book.  Beyond  *)
(* that the view errs after saves of one contact that overlap, one that    *)
(* failed or that failed to tell it had succeeded, one that empties a      *)
(* field, and after a return or a reload that brings an older list back.   *)
ViewTellsBook ==
  \A i \in Real :
    managed[i] # Gone /\ Root(i) \notin unsure /\ ~UnderWayOn(i) =>
      book[i] \in {managed[i], ContactArgs(managed[i])}

(* A contact that is added in the view and then changed and saved any      *)
(* number of times is one contact in the address book: create_contact for  *)
(* its local id, update_contact from then on.  Exempt are saves that       *)
(* overlap, that fail to tell that they have succeeded, or that are made   *)
(* of a photo before the contact is saved, and a view left while one is    *)
(* under way.                                                              *)
CreatedOnce ==
  \A l \in Local : l \notin unsure => Cardinality({f \in Made : origin[f] = l}) <= 1
=============================================================================
