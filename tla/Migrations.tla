----------------------------- MODULE Migrations -----------------------------
(***************************************************************************)
(* The schema of hub.db and runMigrations (packages/db/src/migrate.ts).    *)
(*                                                                         *)
(* The schema is a set of pieces, each made as a whole by one migration.   *)
(* Three programs write it: releases from before the migrations, the web   *)
(* server, which makes the tables of packages/auth whenever it needs them, *)
(* and runMigrations.  What runMigrations does before it hands over to     *)
(* drizzle is a row of statements without a transaction: it may be killed  *)
(* between any two of them and is then started again.                      *)
(***************************************************************************)
EXTENDS Integers

(* "auth" is the four account tables, "cols" the columns later releases    *)
(* added to them, "sig" and "dlv" columns added to the context tables.     *)
Pieces == {"auth", "cols", "audit", "sched", "ctx", "ver", "sig", "dlv"}

(* What each file of migrations/ makes, by its tag.  ContextSignature also *)
(* makes the tenants' settings.                                            *)
RoundMorph == {"auth", "cols"}
HeavySauron == {"audit"}
FaultyRocketRacer == {"sched"}
AromaticAnnihilus == {"ctx"}
RichNuke == {"ver"}
ContextSignature == {"sig"}
ContextDeliveryService == {"dlv"}

(* Their order is that of migrations/meta/_journal.json.                   *)
MigrationFiles == 0..6
Makes == [i \in MigrationFiles |->
  CASE i = 0 -> RoundMorph [] i = 1 -> HeavySauron [] i = 2 -> FaultyRocketRacer
    [] i = 3 -> AromaticAnnihilus [] i = 4 -> RichNuke [] i = 5 -> ContextSignature
    [] i = 6 -> ContextDeliveryService]

(* The migrations that are taken as applied to a database without journal. *)
BaselineShort == 0..1
Baseline == 0..2

VARIABLES
  have,     \* pieces of schema the database has
  journal,  \* migrations __drizzle_migrations names
  upgrade,  \* what runMigrations does next: [step, file]
  legacy,   \* what a release from before the migrations left behind
  cut       \* a run was killed while it seeded the journal

migrationVars == <<have, journal, upgrade, legacy, cut>>

NotUpgrading == [step |-> "idle", file |-> 0]
UpgradeSteps == {"idle", "columns", "file", "seed", "drizzle"}

(* What older releases left behind: account tables without the newer       *)
(* columns, or the pieces up to one of today's migrations, as far as the   *)
(* context tables, whose columns ensureLegacyColumns completes; never a    *)
(* journal.                                                                *)
Legacy == {{"auth"}} \cup {UNION {Makes[j] : j \in 0..i} : i \in MigrationFiles}

MigrationsTypeOK ==
  /\ have \subseteq Pieces
  /\ journal \subseteq MigrationFiles
  /\ upgrade \in [step : UpgradeSteps, file : MigrationFiles]
  /\ legacy \in Legacy \cup {{}}
  /\ cut \in BOOLEAN

MigrationsInit ==
  /\ have = {}
  /\ journal = {}
  /\ upgrade = NotUpgrading
  /\ legacy = {}
  /\ cut = FALSE

Proceed(s, i) == upgrade' = [step |-> s, file |-> i]

-----------------------------------------------------------------------------
OlderRelease ==
  /\ have = {} /\ journal = {} /\ upgrade = NotUpgrading
  /\ have' \in Legacy
  /\ legacy' = have'
  /\ UNCHANGED <<journal, upgrade, cut>>

(* ensureAuthTables: CREATE TABLE IF NOT EXISTS, so old tables stay old.   *)
EnsureAuthTables ==
  /\ have' = have \cup (IF "auth" \in have THEN {} ELSE {"auth", "cols"})
  /\ UNCHANGED <<journal, upgrade, legacy, cut>>

-----------------------------------------------------------------------------
(* runMigrations.                                                          *)

(* databaseHasUserTables and an empty journal: adopt the database first.   *)
UpgradeBegin ==
  /\ upgrade = NotUpgrading
  /\ Proceed(IF have # {} /\ journal = {} THEN "columns" ELSE "drizzle", 0)
  /\ UNCHANGED <<have, journal, legacy, cut>>

(* ensureLegacyColumns: only for tables that exist, and only once.         *)
LegacyColumnsLeftOut ==
  upgrade.step = "columns" /\ Proceed("file", 0) /\ UNCHANGED <<have, journal, legacy, cut>>
LegacyColumns ==
  /\ upgrade.step = "columns"
  /\ have' = have \cup (IF "auth" \in have THEN {"cols"} ELSE {})
                  \cup (IF "ctx" \in have THEN {"dlv"} ELSE {})
  /\ Proceed("file", 0)
  /\ UNCHANGED <<journal, legacy, cut>>

(* applyLegacyCompatibleMigrations: CREATE ... IF NOT EXISTS, file by file.*)
LegacyFileWithoutEnd ==
  /\ upgrade.step = "file"
  /\ have' = have \cup Makes[upgrade.file]
  /\ Proceed("file", upgrade.file + 1)
  /\ UNCHANGED <<journal, legacy, cut>>
LegacyFile ==
  /\ upgrade.step = "file"
  /\ have' = have \cup (IF upgrade.file = 0 /\ "auth" \in have THEN {} ELSE Makes[upgrade.file])
  /\ IF upgrade.file + 1 \in Baseline THEN Proceed("file", upgrade.file + 1) ELSE Proceed("seed", 0)
  /\ UNCHANGED <<journal, legacy, cut>>

(* seedMigrationJournal: one INSERT per migration.                         *)
SeedJournal ==
  /\ upgrade.step = "seed"
  /\ journal' = journal \cup {upgrade.file}
  /\ IF upgrade.file + 1 \in Baseline THEN Proceed("seed", upgrade.file + 1) ELSE Proceed("drizzle", 0)
  /\ UNCHANGED <<have, legacy, cut>>

(* drizzle applies all migrations newer than the newest in the journal, in *)
(* one transaction, which fails when one makes what is already there.      *)
Due == {i \in MigrationFiles : \A j \in journal : j < i}
Clashes == \E i \in Due : Makes[i] \cap have # {}

Drizzle ==
  /\ upgrade.step = "drizzle"
  /\ IF Clashes
       THEN UNCHANGED <<have, journal>>
       ELSE /\ have' = have \cup UNION {Makes[i] : i \in Due}
            /\ journal' = journal \cup Due
  /\ upgrade' = NotUpgrading
  /\ UNCHANGED <<legacy, cut>>

KillUpgrade ==
  /\ upgrade # NotUpgrading
  /\ upgrade' = NotUpgrading
  /\ cut' = (cut \/ upgrade.step = "seed")
  /\ UNCHANGED <<have, journal, legacy>>

MigrationsNext ==
  \/ OlderRelease \/ EnsureAuthTables
  \/ UpgradeBegin \/ LegacyColumns \/ LegacyFile \/ SeedJournal \/ Drizzle \/ KillUpgrade

MigrationsSpec == MigrationsInit /\ [][MigrationsNext]_migrationVars

-----------------------------------------------------------------------------
(* Whatever the journal names is there, so that no later start leaves a    *)
(* piece out: whoever made the tables, older columns or not, and wherever  *)
(* earlier runs were killed (ensureLegacyColumns and the baseline files    *)
(* before seedMigrationJournal).                                           *)
JournalIsTrue == \A i \in journal : Makes[i] \subseteq have

(* An upgrade that is repeated gets through: the journal never comes to    *)
(* say that a migration is due whose tables exist, but in two cases.  A    *)
(* kill between the INSERTs of seedMigrationJournal does that for good,    *)
(* since a journal that is not empty is never seeded again.  And so does a *)
(* database without journal that has the context tables: runMigrations     *)
(* completes their columns and seeds the baseline, which ends before the   *)
(* migration that creates them, so every later start fails there.          *)
UpgradeGetsThrough ==
  journal # {} /\ Clashes =>
    \/ cut \/ upgrade.step = "seed"
    \/ "ctx" \in legacy /\ journal = Baseline
=============================================================================
