------------------------------ MODULE Storage -------------------------------
(***************************************************************************)
(* The database file over the versions of its schema: the start of the bot *)
(* (init_db, verify_schema_version), scripts/migrate.py, and backup.sh and *)
(* restore.sh, in production, on SQLite.                                   *)
(*                                                                         *)
(* The database commits every CREATE INDEX and PRAGMA by itself, as long   *)
(* as no DELETE has opened a transaction: the steps of init_db and of the  *)
(* first migration are steps here, the second migration is one.  A process *)
(* may die between any two steps.  The operator runs one script at a time; *)
(* the bot starts and ends beside it.                                      *)
(***************************************************************************)
EXTENDS Naturals

CONSTANTS
    Contact,    \* what a row of contact_lists says: user, list and contact
    Free,       \* no row
    NoBackup,
    MaxRows,    \* bound: ids of contact_lists
    Targets     \* values of TARGET_SCHEMA_VERSION; SCHEMA_VERSION if unset

SCHEMA_VERSION == 3
Id == 1..MaxRows

ASSUME StorageAssumption == /\ Free \notin Contact
                            /\ MaxRows \in Nat
                            /\ Targets \subseteq 1..SCHEMA_VERSION

Rows == [Id -> Contact \cup {Free}]
Database == [version : 0..SCHEMA_VERSION, tables : BOOLEAN,
             index : {"none", "plain", "unique"}, rows : Rows]

ASSUME BackupAssumption == NoBackup \notin Database

HasDuplicates(rows) ==
    \E i, j \in Id : i < j /\ rows[i] = rows[j] /\ rows[i] # Free
Contacts(rows) == {rows[i] : i \in Id} \ {Free}

\* Databases that earlier releases left: 1.0.0 without a version, 1.0.1 with
\* one, 1.0.3 with indexes, and today's.
Databases ==
    {db \in Database :
        /\ ~db.tables => db.version = 0 /\ Contacts(db.rows) = {}
        /\ db.version < 2 => db.index = "none"
        /\ db.version = 2 => db.index # "unique"
        /\ db.version = SCHEMA_VERSION => db.index = "unique"
        /\ db.index = "unique" => ~HasDuplicates(db.rows)}

VARIABLES
    db,       \* the database file
    backup,   \* the backup the operator would restore
    bot,      \* where the bot is in its start
    script,   \* where the script in progress is
    target,   \* the target version of migrate.py
    current,  \* the version it has read
    late      \* history: the start of the bot met a script that may set the
              \* schema back

scriptVars == <<script, target, current>>
vars == <<db, backup, bot, scriptVars, late>>

Init ==
    /\ db \in Databases
    /\ backup = NoBackup
    /\ bot = "off"
    /\ script = "none"
    /\ target = SCHEMA_VERSION
    /\ current = 0
    /\ late = FALSE

-----------------------------------------------------------------------------
(* Steps on the database that both programs take                           *)

\* create_all: missing tables come with their indexes.
CreateAll == db' = IF db.tables THEN db ELSE [db EXCEPT !.tables = TRUE, !.index = "unique"]

\* An index is created if there is none of its name; the unique one raises
\* on duplicates.
IndexRaises == db.index = "none" /\ HasDuplicates(db.rows)
EnsureIndexes == db' = IF db.index = "none" THEN [db EXCEPT !.index = "unique"] ELSE db

\* Variant: the version after the one reached.
SetNextVersion(v) == db' = [db EXCEPT !.version = v + 1]

SetVersion(v) == db' = [db EXCEPT !.version = v]

-----------------------------------------------------------------------------
(* The bot                                                                 *)

ScriptRuns == script \notin {"none", "dead"}

\* A script is at work that may set the schema back.
SetsBack == ScriptRuns /\ (script = "restoring" \/ target < SCHEMA_VERSION)

\* The instance lock is taken, and the database opened.
BotStarts ==
    /\ bot = "off"
    /\ bot' = "creating"
    /\ late' = SetsBack
    /\ UNCHANGED <<db, backup, scriptVars>>

BotCreates ==
    /\ bot = "creating"
    /\ bot' = "indexing"
    /\ CreateAll
    /\ UNCHANGED <<backup, scriptVars, late>>

BotIndexes ==
    /\ bot = "indexing"
    /\ \/ IndexRaises /\ bot' = "off" /\ UNCHANGED db
       \/ ~IndexRaises /\ bot' = "checking" /\ EnsureIndexes
    /\ UNCHANGED <<backup, scriptVars, late>>

\* ensure_schema_version: a database without a version gets the current
\* one, any other old version is refused.
BotChecks ==
    /\ bot = "checking"
    /\ \/ /\ db.version \in {0, SCHEMA_VERSION}
          /\ bot' = "verifying"
          /\ SetVersion(SCHEMA_VERSION)
       \/ /\ db.version \notin {0, SCHEMA_VERSION}
          /\ bot' = "off"
          /\ UNCHANGED db
    /\ UNCHANGED <<backup, scriptVars, late>>

\* verify_schema_version.
BotVerifies ==
    /\ bot = "verifying"
    /\ bot' = IF db.version = SCHEMA_VERSION THEN "serving" ELSE "off"
    /\ UNCHANGED <<db, backup, scriptVars, late>>

\* The bot ends or dies, in its start too.
BotEnds ==
    /\ bot # "off"
    /\ bot' = "off"
    /\ UNCHANGED <<db, backup, scriptVars, late>>

\* /whitelist add: a contact that is in the list already is not added.
AddContact(c) ==
    /\ bot = "serving"
    /\ db.tables
    /\ c \notin Contacts(db.rows)
    /\ \E i \in Id :
          /\ \A j \in Id : j >= i => db.rows[j] = Free
          /\ i > 1 => db.rows[i - 1] # Free
          /\ db' = [db EXCEPT !.rows[i] = c]
    /\ UNCHANGED <<backup, bot, scriptVars, late>>

\* /whitelist remove: the one row of the contact.
RemoveContact(c) ==
    /\ bot = "serving"
    /\ \E i \in Id :
          /\ \A j \in Id : db.rows[j] = c <=> j = i
          /\ db' = [db EXCEPT !.rows[i] = Free]
    /\ UNCHANGED <<backup, bot, scriptVars, late>>

\* /whitelist clear, for a list that has the contacts cs.
ClearContacts(cs) ==
    /\ bot = "serving"
    /\ db' = [db EXCEPT !.rows = [i \in Id |-> IF db.rows[i] \in cs THEN Free ELSE db.rows[i]]]
    /\ UNCHANGED <<backup, bot, scriptVars, late>>

BotCommand ==
    \/ \E c \in Contact : AddContact(c) \/ RemoveContact(c)
    \/ \E cs \in SUBSET Contact : ClearContacts(cs)

-----------------------------------------------------------------------------
(* migrate.py                                                              *)

MigrateStarts(t) ==
    /\ ~ScriptRuns
    /\ script' = "creating"
    /\ target' = t
    /\ late' = (late \/ (t < SCHEMA_VERSION /\ bot \notin {"off", "serving"}))
    /\ UNCHANGED <<db, backup, bot, current>>

MigrateCreates ==
    /\ script = "creating"
    /\ script' = "reading"
    /\ CreateAll
    /\ UNCHANGED <<backup, bot, target, current, late>>

\* The version decides what is left to do; a newer database is refused.
MigrateReads ==
    /\ script = "reading"
    /\ current' = db.version
    /\ script' = IF db.version >= target THEN "none"
                 ELSE IF db.version < 2 THEN "indexing" ELSE "deduping"
    /\ UNCHANGED <<db, backup, bot, target, late>>

\* Variant: the indexes are created without checkfirst.
MigrateIndexesAnew ==
    /\ script = "indexing"
    /\ \/ /\ IndexRaises \/ db.index # "none"
          /\ script' = "none"
          /\ UNCHANGED db
       \/ ~IndexRaises /\ db.index = "none" /\ script' = "stamping" /\ EnsureIndexes
    /\ UNCHANGED <<backup, bot, target, current, late>>

MigrateIndexes ==
    /\ script = "indexing"
    /\ \/ IndexRaises /\ script' = "none" /\ UNCHANGED db
       \/ ~IndexRaises /\ script' = "stamping" /\ EnsureIndexes
    /\ UNCHANGED <<backup, bot, target, current, late>>

\* A database without a version is now at the target, one of version 1 at 2.
MigrateStamps ==
    /\ script = "stamping"
    /\ SetVersion(IF current = 0 THEN target ELSE 2)
    /\ current' = 2
    /\ script' = IF current = 0 \/ target = 2 THEN "none" ELSE "deduping"
    /\ UNCHANGED <<backup, bot, target, late>>

\* Variant: every row that has a duplicate is removed.
RemoveDuplicates(rows) ==
    [i \in Id |-> IF \E j \in Id : i # j /\ rows[j] = rows[i] THEN Free ELSE rows[i]]

\* _dedupe_contact_lists: the row with the lowest id stays.
Dedupe(rows) ==
    [i \in Id |-> IF \E j \in Id : j < i /\ rows[j] = rows[i] THEN Free ELSE rows[i]]

\* From version 2 to 3, in the transaction that the DELETE opens.
MigrateDedupes ==
    /\ script = "deduping"
    /\ script' = "none"
    /\ db' = [db EXCEPT !.rows = Dedupe(db.rows), !.index = "unique",
                        !.version = SCHEMA_VERSION]
    /\ UNCHANGED <<backup, bot, target, current, late>>

Migrate == MigrateCreates \/ MigrateReads \/ MigrateIndexes \/ MigrateStamps \/ MigrateDedupes

-----------------------------------------------------------------------------
(* backup.sh and restore.sh                                                *)

\* A copy of the database, running or not, checked before it gets its name;
\* cron may take it at any time.
Backup ==
    /\ backup' = db
    /\ UNCHANGED <<db, bot, scriptVars, late>>

\* Variant: the instance lock is not looked at.
RestoreStartsAnyway ==
    /\ ~ScriptRuns
    /\ backup # NoBackup
    /\ script' = "restoring"
    /\ UNCHANGED <<db, backup, bot, target, current, late>>

\* The instance lock must be free; it is not held any longer.
RestoreStarts ==
    /\ ~ScriptRuns
    /\ backup # NoBackup
    /\ bot = "off"
    /\ script' = "restoring"
    /\ UNCHANGED <<db, backup, bot, target, current, late>>

\* mv puts the copy in place.  A bot that started meanwhile finds it at its
\* next connection.
RestoreReplaces ==
    /\ script = "restoring"
    /\ script' = "none"
    /\ db' = backup
    /\ UNCHANGED <<backup, bot, target, current, late>>

\* A script dies, or a backup does not validate.
ScriptDies ==
    /\ ScriptRuns
    /\ script' = "dead"
    /\ UNCHANGED <<db, backup, bot, target, current, late>>

Next ==
    \/ BotStarts \/ BotCreates \/ BotIndexes \/ BotChecks \/ BotVerifies \/ BotEnds
    \/ BotCommand
    \/ \E t \in Targets : MigrateStarts(t)
    \/ Migrate
    \/ Backup \/ RestoreStarts \/ RestoreReplaces \/ ScriptDies

Spec == Init /\ [][Next]_vars

\* Scripts run to their end, and the operator runs migrate.py to the current
\* version again and again.
OperatorFairness ==
    /\ WF_vars(Migrate \/ RestoreReplaces)
    /\ SF_vars(MigrateStarts(SCHEMA_VERSION))

FairSpec == Spec /\ OperatorFairness

-----------------------------------------------------------------------------
(* Properties                                                              *)

TypeOK ==
    /\ db \in Database
    /\ backup \in Database \cup {NoBackup}
    /\ bot \in {"off", "creating", "indexing", "checking", "verifying", "serving"}
    /\ script \in {"none", "dead", "creating", "reading", "indexing", "stamping",
                   "deduping", "restoring"}
    /\ target \in 1..SCHEMA_VERSION
    /\ current \in 0..SCHEMA_VERSION
    /\ late \in BOOLEAN

\* A bot that serves has a database of the current version whose unique
\* index is there and holds, whatever releases, migrations, crashes, backups
\* and restores led here, unless its start met a restore or a migration to
\* an earlier version.
BotServesCurrent ==
    bot = "serving" /\ ~late
        => /\ db.version = SCHEMA_VERSION
           /\ db.index = "unique"
           /\ ~HasDuplicates(db.rows)

\* No program loses a contact or invents one: only a command of the user
\* and a restore change the set of contacts.
ContactsKept ==
    [][BotCommand \/ RestoreReplaces \/ Contacts(db'.rows) = Contacts(db.rows)]_vars

\* What no migration gets over: duplicates older than version 2, for the
\* unique index is created before they are removed.
Blocked == db.version < 2 /\ IndexRaises

\* database.py 159, "请先运行 scripts/migrate.py 升级": an operator who runs
\* migrate.py again after every crash gets the current version, unless the
\* database is blocked.
UpgradeCompletes ==
    (<>[][~ScriptDies /\ ~RestoreReplaces]_vars)
        => []<>(db.version = SCHEMA_VERSION \/ Blocked)
=============================================================================
