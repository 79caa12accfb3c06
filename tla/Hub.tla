-------------------------------- MODULE Hub --------------------------------
(***************************************************************************)
(* The parts of the hub beside drafts, sends and contexts, side by side:   *)
(* accounts and migrations on the server, and what the web client does     *)
(* with approvals, contacts, contexts and addresses.                       *)
(*                                                                         *)
(* No two of these areas share a variable, so what holds of each of them   *)
(* alone holds of all together, and a behaviour moves in one area only.    *)
(***************************************************************************)
EXTENDS Migrations, Accounts, ApprovalsFeed, ApprovalsActions, ContactsCache, ContactsView,
        ContextEditing, Navigation

VARIABLE area  \* the area that moves

serverVars == <<migrationVars, accountVars, cacheVars>>
approvalVars == <<feedVars, actionsVars>>
clientVars == <<contactsVars, editingVars, navigationVars>>
hubVars == <<area, serverVars, approvalVars, clientVars>>

Areas == {"migrations", "accounts", "cache", "feed", "actions", "contacts", "editing", "navigation"}

HubInit ==
  /\ area \in Areas
  /\ MigrationsInit /\ AccountsInit /\ CacheInit
  /\ FeedInit /\ ActionsInit
  /\ ContactsInit /\ EditingInit /\ NavigationInit
  \* where the address does not matter it is not varied
  /\ area # "navigation" =>
       /\ tab = "conversations" /\ answers = [i \in Entries |-> {i}]
       /\ address = NoKey /\ mounted = FALSE
  \* nor are labels, other than those the view gives
  /\ \A i \in Real : book[i].types
  \* nor are the drafts; where they matter there is one, or two and one event less
  /\ LET first == CHOOSE d \in Drafts : TRUE
         row == CHOOSE w \in Rows : TRUE
     IN IF area = "actions"
          THEN /\ first \in view.here /\ used = Cardinality(view.here) - 1
               /\ \A d \in Drafts : rows[d] \subseteq IF d = first THEN {row} ELSE {}
          ELSE view.here = Drafts /\ used = 0 /\ \A d \in Drafts : rows[d] = {}

HubNext ==
  /\ UNCHANGED area
  /\ \/ /\ area = "migrations" /\ MigrationsNext
        /\ UNCHANGED <<accountVars, cacheVars, approvalVars, clientVars>>
     \/ /\ area = "accounts" /\ AccountsNext
        /\ UNCHANGED <<migrationVars, cacheVars, approvalVars, clientVars>>
     \/ /\ area = "cache" /\ CacheNext
        /\ UNCHANGED <<migrationVars, accountVars, approvalVars, clientVars>>
     \/ /\ area = "feed" /\ FeedNext
        /\ UNCHANGED <<serverVars, actionsVars, clientVars>>
     \/ /\ area = "actions" /\ ActionsNext
        /\ UNCHANGED <<serverVars, feedVars, clientVars>>
     \/ /\ area = "contacts" /\ ContactsNext
        /\ UNCHANGED <<serverVars, approvalVars, editingVars, navigationVars>>
     \/ /\ area = "editing" /\ EditingNext
        /\ UNCHANGED <<serverVars, approvalVars, contactsVars, navigationVars>>
     \/ /\ area = "navigation" /\ NavigationNext
        /\ UNCHANGED <<serverVars, approvalVars, contactsVars, editingVars>>

HubSpec == HubInit /\ [][HubNext]_hubVars

(* Each area's variables keep to what its code can make of them.           *)
TypeOK ==
  CASE area = "migrations" -> MigrationsTypeOK
    [] area = "accounts" -> AccountsTypeOK
    [] area = "cache" -> CacheTypeOK
    [] area = "feed" -> FeedTypeOK
    [] area = "actions" -> ActionsTypeOK
    [] area = "contacts" -> ContactsTypeOK
    [] area = "editing" -> EditingTypeOK
    [] area = "navigation" -> NavigationTypeOK
=============================================================================
