----------------------------- MODULE Navigation -----------------------------
(***************************************************************************)
(* How an address leads to a conversation or a contact: routeFromPath and  *)
(* the resolve functions of AppShell, and the effects of Conversations and *)
(* Contacts that set the entry selected.                                   *)
(*                                                                         *)
(* The entries of the list are numbered in its order.  An entry answers to *)
(* several keys (its id, its name, its handles; routeKeyMatches), among    *)
(* them the one its own address has.  An entry selected is a number; 0 is  *)
(* none, and a key that no entry answers to is a number of its own above   *)
(* them, "missing:<service>:<key>" of AppShell.                            *)
(***************************************************************************)
EXTENDS Naturals

CONSTANT LastEntry  \* entries of the list are 1..LastEntry

ASSUME NavigationAssumption == LastEntry \in Nat \ {0}

VARIABLES
  tab,      \* the view that is looked at: "conversations" or "contacts"
  answers,  \* entry -> the keys it answers to
  own,      \* entry -> the key in its own address
  address,  \* the key in the address, NoKey for none
  loaded,   \* the lists have come
  mounted,  \* the view is on the screen
  selected, \* selectedId
  told      \* what was clicked or followed since the view came up with its list, 0 for nothing

navigationVars == <<tab, answers, own, address, loaded, mounted, selected, told>>
directory == <<tab, answers, own>>

Entries == 1..LastEntry
Keys == 0..LastEntry
NoKey == LastEntry + 1
Missing(k) == LastEntry + 1 + k
IsMissing(s) == s > LastEntry
Selections == 0..Missing(LastEntry)

NavigationTypeOK ==
  /\ tab \in {"conversations", "contacts"}
  /\ answers \in [Entries -> SUBSET Keys]
  /\ own \in [Entries -> Keys]
  /\ address \in Keys \cup {NoKey}
  /\ loaded \in BOOLEAN /\ mounted \in BOOLEAN
  /\ selected \in Selections /\ told \in Selections

(* A conversation's address has the number of its chat, a contact's the    *)
(* name, which others may have too.  The page opens on any address.        *)
NavigationInit ==
  /\ tab \in {"conversations", "contacts"}
  /\ own \in [Entries -> Keys]
  /\ tab = "conversations" => own = [i \in Entries |-> i]
  /\ answers \in [Entries -> SUBSET Keys]
  /\ \A i \in Entries : own[i] \in answers[i]
  /\ address \in Keys \cup {NoKey}
  /\ loaded = FALSE
  /\ mounted \in BOOLEAN
  /\ selected = 0 /\ told = 0

-----------------------------------------------------------------------------
(* resolveConversationRoute and resolveContactRoute: the first that        *)
(* answers.                                                                *)
Resolve(k) ==
  IF \E i \in Entries : k \in answers[i]
    THEN CHOOSE i \in Entries : k \in answers[i] /\ \A j \in 1..i - 1 : k \notin answers[j]
    ELSE 0

(* selectedConversationId and selectedContactId, as AppShell hands them    *)
(* down; 0 for undefined.                                                  *)
Requested(k, ready) ==
  IF k = NoKey THEN 0
  ELSE IF ready /\ Resolve(k) # 0 THEN Resolve(k)
  ELSE IF tab = "conversations" THEN Missing(k) ELSE 0

(* The effect that follows what is requested, when that has changed.       *)
FollowRequest(old, new, s) == IF new # old /\ new # 0 THEN new ELSE s

(* The effect that sees to it that something of the list is selected.      *)
SelectSomethingAlways(ready, s) == IF ready THEN (IF s \in Entries THEN s ELSE 1) ELSE 0
SelectSomething(ready, s) ==
  IF ~ready THEN 0
  ELSE IF s \in Entries \/ IsMissing(s) THEN s
  ELSE 1

-----------------------------------------------------------------------------
(* The view comes up.  Both effects run, and the second one, which still   *)
(* sees that nothing is selected, has the last word.                       *)
Show(k) ==
  /\ ~mounted
  /\ mounted' = TRUE
  /\ address' = k
  /\ selected' = SelectSomething(loaded, 0)
  /\ told' = 0
  /\ UNCHANGED <<directory, loaded>>

LeaveTab ==
  /\ mounted
  /\ mounted' = FALSE
  /\ address' = NoKey
  /\ selected' = 0 /\ told' = 0
  /\ UNCHANGED <<directory, loaded>>

(* The lists come.  Conversations runs both effects at once, as above;     *)
(* Contacts copies the list first, and the second effect comes a render    *)
(* later.                                                                  *)
Load ==
  /\ ~loaded
  /\ loaded' = TRUE
  /\ selected' =
       IF ~mounted THEN 0
       ELSE IF tab = "conversations" THEN SelectSomething(TRUE, selected)
       ELSE SelectSomething(TRUE, FollowRequest(Requested(address, FALSE), Requested(address, TRUE), selected))
  /\ told' = 0
  /\ UNCHANGED <<directory, address, mounted>>

(* A link, or back and forward: only what is requested changes, the second *)
(* effect comes a render later.                                            *)
Follow(k) ==
  /\ mounted /\ k # address
  /\ address' = k
  /\ selected' = SelectSomething(loaded,
       FollowRequest(Requested(address, loaded), Requested(k, loaded), selected))
  /\ told' = IF loaded THEN FollowRequest(Requested(address, TRUE), Requested(k, TRUE), told) ELSE 0
  /\ UNCHANGED <<directory, loaded, mounted>>

(* A row: it is selected, then its own address is followed.                *)
Click(i) ==
  /\ mounted /\ loaded
  /\ address' = own[i]
  /\ selected' = SelectSomething(TRUE,
       FollowRequest(Requested(address, TRUE), Requested(own[i], TRUE), i))
  /\ told' = i
  /\ UNCHANGED <<directory, loaded, mounted>>

NavigationNext ==
  \/ Load \/ LeaveTab
  \/ \E k \in Keys \cup {NoKey} : Show(k) \/ Follow(k)
  \/ \E i \in Entries : Click(i)

NavigationSpec == NavigationInit /\ [][NavigationNext]_navigationVars

-----------------------------------------------------------------------------
(* "Selecting a row loads that exact conversation"                         *)
(* (docs/conversation-architecture.md), and a link followed in the view    *)
(* the one it names or none: unless an entry further up answers to the key *)
(* in the address of the row.  A link that asks for what is asked for      *)
(* already changes nothing, and an address or a link that brings the view  *)
(* up is exempt (Load, Show).                                              *)
Unambiguous(i) == i \in Entries => Resolve(own[i]) = i
NamedIsShown == told # 0 /\ Unambiguous(told) => selected = told

(* "Invalid or stale conversation URLs show a not-found state instead of   *)
(* falling back to the latest conversation"                                *)
(* (docs/conversation-architecture.md:26).                                 *)
StaleUrlNotFound ==
  tab = "conversations" /\ loaded /\ mounted /\ address # NoKey /\ Resolve(address) = 0
    => selected \notin Entries
=============================================================================
