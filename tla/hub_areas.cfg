SPECIFICATION HubSpec
CONSTANTS
  Emails = {e1, e2}
  Tenants = {t1, t2}
  Tokens = {k1}
  Servers = {v1}
  Shells = {c1}
  Nobody = Nobody
  NoTenant = NoTenant
  MaxOps = 3
  MaxKills = 1
  Exports = {x1, x2}
  Ttl = 2
  Wait = 1
  MaxClock = 5
  MaxBook = 1
  Refreshes = {r1, r2}
  MaxChanges = 2
  MaxVisits = 2
  MaxReloads = 1
  MaxFaults = 1
  Drafts = {d1, d2}
  NoDraft = NoDraft
  Rows = {w1, w2}
  NoRow = NoRow
  Calls = {a1, a2}
  MaxEvents = 3
  Known = {b1}
  Made = {m1, m2}
  Local = {l1}
  NoContact = NoContact
  Saves = {s1, s2}
  MaxTexts = 3
  MaxDeeds = 3
  Records = {y1, y2}
  NoRecord = NoRecord
  Posts = {p1, p2}
  MaxTyped = 2
  MaxTrips = 2
  LastEntry = 2
INVARIANTS
  TypeOK
  JournalIsTrue
  UpgradeGetsThrough
  RevokedSessionsGone
  RolesAgree
  OneTenant
  AuditInOwnTenant
  ActionsLeaveTrace
  ServedRecently
  ShownWhenQuiescent
  SpinnerEnds
  ApprovedAsShown
  OneSchedulePerDraft
  ViewTellsBook
  CreatedOnce
  NamedIsShown
PROPERTIES
  EditSurvivesFailure
  EditSurvivesRefresh
CHECK_DEADLOCK FALSE
