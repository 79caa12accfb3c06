----------------------------- MODULE Hub_proofs -----------------------------
(***************************************************************************)
(* The specification that hub_areas checks has the invariants that are     *)
(* proved of its areas one by one, for every value of the constants.       *)
(***************************************************************************)
EXTENDS Hub, Accounts_proofs, Approvals_proofs, Views_proofs

(* All areas at once, each moving when it likes.  No two of them share a   *)
(* variable, so this is the conjunction of what they do one by one.        *)
SideBySide ==
  /\ MigrationsSpec /\ AccountsSpec /\ CacheSpec
  /\ FeedSpec /\ ActionsSpec
  /\ ContactsSpec /\ EditingSpec /\ NavigationSpec

(* A behaviour of the hub begins as each area does.                        *)
LEMMA HubBegins ==
  HubInit =>
    /\ MigrationsInit /\ AccountsInit /\ CacheInit
    /\ FeedInit /\ ActionsInit
    /\ ContactsInit /\ EditingInit /\ NavigationInit
BY DEF HubInit

(* A step of the hub is a step of each area or leaves it alone.            *)
LEMMA HubMoves ==
  [HubNext]_hubVars =>
    /\ [MigrationsNext]_migrationVars /\ [AccountsNext]_accountVars /\ [CacheNext]_cacheVars
    /\ [FeedNext]_feedVars /\ [ActionsNext]_actionsVars
    /\ [ContactsNext]_contactsVars /\ [EditingNext]_editingVars
    /\ [NavigationNext]_navigationVars
BY Zenon DEF HubNext, hubVars, serverVars, approvalVars, clientVars

(* One moving area per behaviour is a part of the areas side by side.      *)
LEMMA HubImplementsAreas == HubSpec => SideBySide
BY HubBegins, HubMoves, PTL
   DEF HubSpec, SideBySide, MigrationsSpec, AccountsSpec, CacheSpec, FeedSpec, ActionsSpec,
       ContactsSpec, EditingSpec, NavigationSpec

(* Every area keeps to its types, whichever of them moves.                 *)
THEOREM HubTyped == HubSpec => []TypeOK
<1>1. /\ MigrationsTypeOK /\ AccountsTypeOK /\ CacheTypeOK /\ FeedTypeOK /\ ActionsTypeOK
      /\ ContactsTypeOK /\ EditingTypeOK /\ NavigationTypeOK
      /\ area \in Areas
      => TypeOK
  BY Zenon DEF TypeOK, Areas
<1>2. HubInit => area \in Areas
  BY DEF HubInit
<1>3. area \in Areas /\ [HubNext]_hubVars => (area \in Areas)'
  BY DEF HubNext, hubVars
<1>4. HubSpec => [](area \in Areas)
  BY <1>2, <1>3, PTL DEF HubSpec
<1> QED
  BY <1>1, <1>4, HubImplementsAreas, UpgradeTyped, AccountsTyped, CacheTyped, FeedTyped,
     ActionsTyped, ContactsTyped, EditingTyped, NavigationTyped, PTL DEF SideBySide

(* What is in the database when an upgrade, or any mix of commands,        *)
(* sign-ins and requests, runs: the journal tells the truth and upgrades get through *)
(* (runMigrations), and accounts, sessions, tenants and the audit log      *)
(* agree as the auth package and _auth.ts mean them to.                    *)
THEOREM HubKeepsAccounts ==
  HubSpec =>
    /\ []JournalIsTrue /\ []UpgradeGetsThrough
    /\ []RolesAgree /\ []RevokedSessionsGone /\ []OneTenant
    /\ []AuditInOwnTenant /\ []ActionsLeaveTrace
BY HubImplementsAreas, JournalNeverLies, UpgradeNeverClashes, RolesAlwaysAgree, SessionsAreRevoked,
   TenantIsOne, AuditIsInOwnTenant, ActionsAlwaysLeaveTrace, PTL DEF SideBySide

(* What a reviewer is shown and may rely on in each of the views:          *)
(* approvals are of the text on the screen, a draft has one scheduled      *)
(* send, a view that is done loading is current or excused, and edits      *)
(* survive failures and refreshes (AppShell.tsx).                          *)
THEOREM HubKeepsViews ==
  HubSpec =>
    /\ []ShownWhenQuiescent /\ []SpinnerEnds
    /\ []ApprovedAsShown /\ []OneSchedulePerDraft /\ EditSurvivesFailure
    /\ []ServedRecently /\ []ViewTellsBook /\ []CreatedOnce
    /\ []NamedIsShown /\ EditSurvivesRefresh
BY HubImplementsAreas, ShownOrExcused, SpinnerAlwaysEnds, AlwaysApprovedAsShown, AlwaysOneSchedule,
   EditAlwaysSurvivesFailure, AlwaysServedRecently, ViewAlwaysTellsBook, AlwaysCreatedOnce,
   NamedAlwaysShown, EditAlwaysSurvivesRefresh, PTL DEF SideBySide
=============================================================================
