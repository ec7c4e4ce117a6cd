---------------------------- MODULE StorageProofs ---------------------------
(* Proofs about Storage, for any contacts, ids and target versions.        *)
EXTENDS Storage, SortedSeqTheorems, TLAPS

USE DEF SCHEMA_VERSION

-----------------------------------------------------------------------------
(* The inductive invariant                                                 *)

\* What holds of every database file: a plain index is one of version 2, a
\* unique one holds, and there are no rows without tables.
Sound(d) ==
    /\ d.index = "plain" => d.version = 2
    /\ d.index = "unique" => ~HasDuplicates(d.rows)
    /\ ~d.tables => Contacts(d.rows) = {}

FilesSound == Sound(db) /\ (backup # NoBackup => Sound(backup))

\* What migrate.py has read is still so, except that the bot may have given
\* a database without a version the current one.
ReadingHolds ==
    script \in {"indexing", "stamping"}
        => /\ current \in {0, 1}
           /\ current = 1 => db.version = 1
           /\ current = 0 => db.version \in {0, SCHEMA_VERSION}

IndexedBeforeStamping == script = "stamping" => db.index # "none"

RestoreHasBackup == script = "restoring" => backup # NoBackup

\* A bot that is not late shares its time with no restore, and with a
\* migration to an earlier version only once it serves, and then only until
\* that has read the version.
LateIsKnown ==
    bot # "off" /\ ~late
        => /\ script # "restoring"
           /\ ScriptRuns /\ target < SCHEMA_VERSION
                => bot = "serving" /\ script \in {"creating", "reading"}

BotIndexed ==
    bot \in {"checking", "verifying", "serving"} /\ ~late => db.index # "none"

BotCurrent == bot = "serving" /\ ~late => db.version = SCHEMA_VERSION

IInv ==
    /\ TypeOK
    /\ FilesSound
    /\ ReadingHolds
    /\ IndexedBeforeStamping
    /\ RestoreHasBackup
    /\ LateIsKnown
    /\ BotIndexed
    /\ BotCurrent

-----------------------------------------------------------------------------
(* Rows                                                                    *)

\* No contacts, no duplicates.
LEMMA EmptyHasNoDuplicates ==
    ASSUME NEW rows \in Rows, Contacts(rows) = {}
    PROVE  ~HasDuplicates(rows)
BY DEF Contacts, HasDuplicates, Rows

\* _dedupe_contact_lists leaves no duplicate and invents no contact.
LEMMA DedupeRemovesDuplicates ==
    ASSUME NEW rows \in Rows
    PROVE  /\ Dedupe(rows) \in Rows
           /\ ~HasDuplicates(Dedupe(rows))
           /\ Contacts(Dedupe(rows)) \subseteq Contacts(rows)
<1>1. Dedupe(rows) \in Rows
  BY DEF Dedupe, Rows
<1>2. ~HasDuplicates(Dedupe(rows))
  <2>1. ASSUME NEW i \in Id, NEW j \in Id, i < j, Dedupe(rows)[i] = Dedupe(rows)[j],
               Dedupe(rows)[i] # Free
        PROVE  FALSE
    BY <2>1 DEF Dedupe
  <2>. QED
    BY <2>1 DEF HasDuplicates
<1>3. Contacts(Dedupe(rows)) \subseteq Contacts(rows)
  BY DEF Contacts, Dedupe
<1>. QED
  BY <1>1, <1>2, <1>3

\* It keeps a row of every contact: the one with the least id.
LEMMA DedupeKeepsContacts ==
    ASSUME NEW rows \in Rows
    PROVE  Contacts(Dedupe(rows)) = Contacts(rows)
<1>1. ASSUME NEW c \in Contacts(rows)
      PROVE  c \in Contacts(Dedupe(rows))
  <2>. DEFINE T == {j \in Id : rows[j] = c}
  <2>1. T # {} /\ T \in SUBSET Nat /\ c # Free
    BY <1>1, StorageAssumption DEF Contacts, Id
  <2>2. PICK n \in T : \A j \in T : n <= j
    BY <2>1, LeastNumber
  <2>3. n \in Id /\ rows[n] = c /\ \A j \in Id : rows[j] = c => n <= j
    BY <2>2
  <2>4. ~\E j \in Id : j < n /\ rows[j] = rows[n]
    BY <2>3, StorageAssumption DEF Id
  <2>5. Dedupe(rows)[n] = c
    BY <2>3, <2>4 DEF Dedupe
  <2>. QED
    BY <2>1, <2>3, <2>5 DEF Contacts
<1>. QED
  BY <1>1, DedupeRemovesDuplicates

\* A row of a contact that has none yet makes no duplicate.
LEMMA AddKeepsUnique ==
    ASSUME NEW rows \in Rows, NEW c \in Contact, NEW i \in Id,
           ~HasDuplicates(rows), c \notin Contacts(rows)
    PROVE  ~HasDuplicates([rows EXCEPT ![i] = c])
<1>. DEFINE new == [rows EXCEPT ![i] = c]
<1>1. ASSUME NEW j \in Id, NEW k \in Id, j < k, new[j] = new[k], new[j] # Free
      PROVE  FALSE
  <2>1. new[i] = c /\ \A l \in Id : l # i => new[l] = rows[l]
    BY DEF Rows
  <2>2. \A l \in Id : rows[l] # c
    BY StorageAssumption DEF Contacts
  <2>3. j # k
    BY <1>1 DEF Id
  <2>. QED
    BY <1>1, <2>1, <2>2, <2>3 DEF HasDuplicates
<1>. QED
  BY <1>1 DEF HasDuplicates

\* Rows that become free make no duplicate.
LEMMA FreeKeepsUnique ==
    ASSUME NEW rows \in Rows, NEW new \in Rows, ~HasDuplicates(rows),
           \A i \in Id : new[i] \in {rows[i], Free}
    PROVE  ~HasDuplicates(new)
BY DEF HasDuplicates

LEMMA FreeKeepsEmpty ==
    ASSUME NEW rows \in Rows, NEW new \in Rows, Contacts(rows) = {},
           \A i \in Id : new[i] \in {rows[i], Free}
    PROVE  Contacts(new) = {}
BY DEF Contacts

-----------------------------------------------------------------------------
(* Every step keeps the invariant                                          *)

LEMMA InitSound == Init => IInv
<1>. SUFFICES ASSUME Init PROVE IInv
  OBVIOUS
<1>1. TypeOK
  <2>1. db \in Database
    BY DEF Init, Databases
  <2>2. target \in 1..SCHEMA_VERSION /\ current \in 0..SCHEMA_VERSION
    BY DEF Init
  <2>. QED
    BY <2>1, <2>2 DEF Init, TypeOK
<1>2. FilesSound
  BY DEF Init, FilesSound, Sound, Databases, Database
<1>. QED
  BY <1>1, <1>2 DEF Init, IInv, ReadingHolds, IndexedBeforeStamping, RestoreHasBackup,
     LateIsKnown, ScriptRuns,
     BotIndexed, BotCurrent

\* create_all, run by either program.
LEMMA CreateAllSound ==
    ASSUME TypeOK, FilesSound, CreateAll
    PROVE  /\ db' \in Database
           /\ Sound(db')
           /\ db'.version = db.version
           /\ db.index # "none" => db'.index # "none"
           /\ db'.rows = db.rows
<1>1. CASE db.tables
  BY <1>1 DEF CreateAll, FilesSound, TypeOK
<1>2. CASE ~db.tables
  <2>1. db' = [db EXCEPT !.tables = TRUE, !.index = "unique"]
    BY <1>2 DEF CreateAll
  <2>2. ~HasDuplicates(db.rows)
    BY <1>2, EmptyHasNoDuplicates DEF FilesSound, Sound, TypeOK, Database
  <2>. QED
    BY <2>1, <2>2 DEF TypeOK, Database, Sound
<1>. QED
  BY <1>1, <1>2

\* _ensure_indexes, when it does not raise.
LEMMA EnsureIndexesSound ==
    ASSUME TypeOK, FilesSound, EnsureIndexes, ~IndexRaises
    PROVE  /\ db' \in Database
           /\ Sound(db')
           /\ db'.version = db.version
           /\ db'.index # "none"
           /\ db'.rows = db.rows
<1>1. CASE db.index = "none"
  BY <1>1 DEF EnsureIndexes, IndexRaises, FilesSound, Sound, TypeOK, Database
<1>2. CASE db.index # "none"
  BY <1>2 DEF EnsureIndexes, FilesSound, Sound, TypeOK, Database
<1>. QED
  BY <1>1, <1>2

LEMMA SetVersionSound ==
    ASSUME TypeOK, FilesSound, NEW v \in 0..SCHEMA_VERSION, SetVersion(v),
           db.index = "plain" => v = 2
    PROVE  /\ db' \in Database
           /\ Sound(db')
           /\ db'.version = v
           /\ db'.index = db.index
           /\ db'.rows = db.rows
BY DEF SetVersion, FilesSound, Sound, TypeOK, Database


\* A backup is copied from a sound file, and nothing else touches it.
LEMMA NextSound == IInv /\ [Next]_vars => IInv'
<1>. SUFFICES ASSUME IInv, [Next]_vars PROVE IInv'
  OBVIOUS
<1>. USE StorageAssumption DEF IInv
<1>a. TypeOK /\ FilesSound /\ ReadingHolds /\ IndexedBeforeStamping /\ RestoreHasBackup
      /\ LateIsKnown /\ BotIndexed /\ BotCurrent
  OBVIOUS
<1>1. CASE UNCHANGED vars
  BY <1>1 DEF vars, scriptVars, TypeOK, FilesSound, ReadingHolds, IndexedBeforeStamping,
     RestoreHasBackup, LateIsKnown, ScriptRuns, BotIndexed, BotCurrent
<1>2. CASE BotStarts
  BY <1>2 DEF BotStarts, SetsBack, scriptVars, TypeOK, FilesSound, ReadingHolds,
     IndexedBeforeStamping, RestoreHasBackup, LateIsKnown, ScriptRuns, BotIndexed, BotCurrent
<1>3. CASE BotCreates
  <2>1. /\ db' \in Database /\ Sound(db') /\ db'.version = db.version
        /\ db.index # "none" => db'.index # "none"
    BY <1>3, CreateAllSound DEF BotCreates
  <2>. QED
    BY <1>3, <2>1 DEF BotCreates, scriptVars, TypeOK, FilesSound, ReadingHolds,
       IndexedBeforeStamping, RestoreHasBackup, LateIsKnown, ScriptRuns, BotIndexed, BotCurrent
<1>4. CASE BotIndexes
  <2>1. CASE IndexRaises /\ bot' = "off" /\ UNCHANGED db
    BY <1>4, <2>1 DEF BotIndexes, scriptVars, TypeOK, FilesSound, ReadingHolds,
       IndexedBeforeStamping, RestoreHasBackup, LateIsKnown, ScriptRuns, BotIndexed, BotCurrent
  <2>2. CASE ~IndexRaises /\ bot' = "checking" /\ EnsureIndexes
    <3>1. /\ db' \in Database /\ Sound(db') /\ db'.version = db.version
          /\ db'.index # "none"
      BY <2>2, EnsureIndexesSound
    <3>. QED
      BY <1>4, <2>2, <3>1 DEF BotIndexes, scriptVars, TypeOK, FilesSound, ReadingHolds,
         IndexedBeforeStamping, RestoreHasBackup, LateIsKnown, ScriptRuns, BotIndexed, BotCurrent
  <2>. QED
    BY <1>4, <2>1, <2>2 DEF BotIndexes
<1>5. CASE BotChecks
  <2>1. CASE db.version \in {0, SCHEMA_VERSION} /\ bot' = "verifying"
             /\ SetVersion(SCHEMA_VERSION)
    <3>1. /\ db' \in Database /\ Sound(db') /\ db'.version = SCHEMA_VERSION
          /\ db'.index = db.index
      BY <2>1, SetVersionSound DEF FilesSound, Sound
    <3>. QED
      BY <1>5, <2>1, <3>1 DEF BotChecks, scriptVars, TypeOK, FilesSound, ReadingHolds,
         IndexedBeforeStamping, RestoreHasBackup, LateIsKnown, ScriptRuns, BotIndexed, BotCurrent
  <2>2. CASE bot' = "off" /\ UNCHANGED db
    BY <1>5, <2>2 DEF BotChecks, scriptVars, TypeOK, FilesSound, ReadingHolds,
       IndexedBeforeStamping, RestoreHasBackup, LateIsKnown, ScriptRuns, BotIndexed, BotCurrent
  <2>. QED
    BY <1>5, <2>1, <2>2 DEF BotChecks
<1>6. CASE BotVerifies
  BY <1>6 DEF BotVerifies, scriptVars, TypeOK, FilesSound, ReadingHolds,
     IndexedBeforeStamping, RestoreHasBackup, LateIsKnown, ScriptRuns, BotIndexed, BotCurrent
<1>7. CASE BotEnds
  BY <1>7 DEF BotEnds, scriptVars, TypeOK, FilesSound, ReadingHolds,
     IndexedBeforeStamping, RestoreHasBackup, LateIsKnown, ScriptRuns, BotIndexed, BotCurrent
<1>8. CASE BotCommand
  <2>. DEFINE StaysUnique ==
          /\ bot' = bot /\ backup' = backup /\ UNCHANGED <<scriptVars, late>>
          /\ \E rows \in Rows : db' = [db EXCEPT !.rows = rows] /\ Sound(db')
  <2>1. StaysUnique
    <3>2. db \in Database /\ db.rows \in Rows /\ Sound(db)
      BY DEF TypeOK, Database, FilesSound
    <3>3. ASSUME NEW c \in Contact, AddContact(c) PROVE StaysUnique
      <4>1. PICK i \in Id : db' = [db EXCEPT !.rows[i] = c]
        BY <3>3 DEF AddContact
      <4>. DEFINE new == [db.rows EXCEPT ![i] = c]
      <4>2. new \in Rows /\ db' = [db EXCEPT !.rows = new]
        BY <3>2, <4>1 DEF Rows, Database
      <4>3. c \notin Contacts(db.rows) /\ db.tables
        BY <3>3 DEF AddContact
      <4>4. ~HasDuplicates(db.rows) => ~HasDuplicates(new)
        BY <3>2, <4>3, AddKeepsUnique
      <4>5. Sound(db')
        BY <3>2, <4>2, <4>3, <4>4 DEF Sound, Database
      <4>. QED
        BY <3>3, <4>2, <4>5 DEF AddContact
    <3>4. ASSUME NEW c \in Contact, RemoveContact(c) PROVE StaysUnique
      <4>1. PICK i \in Id : db' = [db EXCEPT !.rows[i] = Free]
        BY <3>4 DEF RemoveContact
      <4>. DEFINE new == [db.rows EXCEPT ![i] = Free]
      <4>2. /\ new \in Rows /\ db' = [db EXCEPT !.rows = new]
            /\ \A j \in Id : new[j] \in {db.rows[j], Free}
        BY <3>2, <4>1 DEF Rows, Database
      <4>3. /\ ~HasDuplicates(db.rows) => ~HasDuplicates(new)
            /\ Contacts(db.rows) = {} => Contacts(new) = {}
        BY <3>2, <4>2, FreeKeepsUnique, FreeKeepsEmpty
      <4>5. Sound(db')
        BY <3>2, <4>2, <4>3 DEF Sound, Database
      <4>. QED
        BY <3>4, <4>2, <4>5 DEF RemoveContact
    <3>5. ASSUME NEW cs \in SUBSET Contact, ClearContacts(cs) PROVE StaysUnique
      <4>. DEFINE new == [i \in Id |-> IF db.rows[i] \in cs THEN Free ELSE db.rows[i]]
      <4>2. /\ new \in Rows /\ db' = [db EXCEPT !.rows = new]
            /\ \A j \in Id : new[j] \in {db.rows[j], Free}
        BY <3>2, <3>5 DEF ClearContacts, Rows
      <4>3. /\ ~HasDuplicates(db.rows) => ~HasDuplicates(new)
            /\ Contacts(db.rows) = {} => Contacts(new) = {}
        BY <3>2, <4>2, FreeKeepsUnique, FreeKeepsEmpty
      <4>5. Sound(db')
        BY <3>2, <4>2, <4>3 DEF Sound, Database
      <4>. QED
        BY <3>5, <4>2, <4>5 DEF ClearContacts
    <3>. QED
      BY <1>8, <3>3, <3>4, <3>5 DEF BotCommand
  <2>2. /\ db' \in Database /\ Sound(db')
        /\ db'.version = db.version /\ db'.index = db.index
    BY <2>1 DEF TypeOK, Database
  <2>. QED
    BY <2>1, <2>2 DEF scriptVars, TypeOK, FilesSound, ReadingHolds,
       IndexedBeforeStamping, RestoreHasBackup, LateIsKnown, ScriptRuns, BotIndexed, BotCurrent
<1>9. ASSUME NEW t \in Targets, MigrateStarts(t) PROVE IInv'
  BY <1>9 DEF MigrateStarts, TypeOK, FilesSound, ReadingHolds,
     IndexedBeforeStamping, RestoreHasBackup, LateIsKnown, ScriptRuns, BotIndexed, BotCurrent
<1>10. CASE MigrateCreates
  <2>1. /\ db' \in Database /\ Sound(db') /\ db'.version = db.version
        /\ db.index # "none" => db'.index # "none"
    BY <1>10, CreateAllSound DEF MigrateCreates
  <2>. QED
    BY <1>10, <2>1 DEF MigrateCreates, TypeOK, FilesSound, ReadingHolds,
       IndexedBeforeStamping, RestoreHasBackup, LateIsKnown, ScriptRuns, BotIndexed, BotCurrent
<1>11. CASE MigrateReads
  <2>1. db.version \in 0..SCHEMA_VERSION
    BY DEF TypeOK, Database
  <2>2. script' = "indexing" => current' \in {0, 1} /\ current' < target
    BY <1>11, <2>1 DEF MigrateReads, TypeOK
  <2>3. bot = "serving" /\ ~late => script' = "none" \/ target = SCHEMA_VERSION
    BY <1>11 DEF MigrateReads, BotCurrent, TypeOK
  <2>. QED
    BY <1>11, <2>1, <2>2, <2>3 DEF MigrateReads, TypeOK, FilesSound, ReadingHolds,
       IndexedBeforeStamping, RestoreHasBackup, LateIsKnown, ScriptRuns, BotIndexed, BotCurrent
<1>12. CASE MigrateIndexes
  <2>1. CASE IndexRaises /\ script' = "none" /\ UNCHANGED db
    BY <1>12, <2>1 DEF MigrateIndexes, TypeOK, FilesSound, ReadingHolds,
       IndexedBeforeStamping, RestoreHasBackup, LateIsKnown, ScriptRuns, BotIndexed, BotCurrent
  <2>2. CASE ~IndexRaises /\ script' = "stamping" /\ EnsureIndexes
    <3>1. /\ db' \in Database /\ Sound(db') /\ db'.version = db.version
          /\ db'.index # "none"
      BY <2>2, EnsureIndexesSound
    <3>. QED
      BY <1>12, <2>2, <3>1 DEF MigrateIndexes, TypeOK, FilesSound, ReadingHolds,
         IndexedBeforeStamping, RestoreHasBackup, LateIsKnown, ScriptRuns, BotIndexed, BotCurrent
  <2>. QED
    BY <1>12, <2>1, <2>2 DEF MigrateIndexes
<1>13. CASE MigrateStamps
  <2>. DEFINE v == IF current = 0 THEN target ELSE 2
  <2>1. v \in 0..SCHEMA_VERSION
    BY DEF TypeOK
  <2>2. db.index # "plain"
    BY <1>13 DEF MigrateStamps, ReadingHolds, FilesSound, Sound, TypeOK
  <2>3. /\ db' \in Database /\ Sound(db') /\ db'.version = v
        /\ db'.index = db.index
    BY <1>13, <2>1, <2>2, SetVersionSound DEF MigrateStamps
  <2>4. bot = "serving" /\ ~late => v = SCHEMA_VERSION
    BY <1>13 DEF MigrateStamps, ReadingHolds, LateIsKnown, ScriptRuns, BotCurrent, TypeOK
  <2>. QED
    BY <1>13, <2>3, <2>4 DEF MigrateStamps, TypeOK, FilesSound, ReadingHolds,
       IndexedBeforeStamping, RestoreHasBackup, LateIsKnown, ScriptRuns, BotIndexed, BotCurrent
<1>14. CASE MigrateDedupes
  <2>. DEFINE new == Dedupe(db.rows)
  <2>1. /\ new \in Rows /\ ~HasDuplicates(new) /\ Contacts(new) \subseteq Contacts(db.rows)
    BY DedupeRemovesDuplicates DEF TypeOK, Database
  <2>2. db' = [db EXCEPT !.rows = new, !.index = "unique", !.version = SCHEMA_VERSION]
    BY <1>14 DEF MigrateDedupes
  <2>3. /\ db' \in Database /\ db'.rows = new /\ db'.index = "unique"
        /\ db'.version = SCHEMA_VERSION /\ db'.tables = db.tables
    <3>. HIDE DEF new
    <3>1. db \in [version : 0..SCHEMA_VERSION, tables : BOOLEAN,
                 index : {"none", "plain", "unique"}, rows : Rows]
      BY <1>a DEF TypeOK, Database
    <3>2. db' = [version |-> SCHEMA_VERSION, tables |-> db.tables, index |-> "unique",
                 rows |-> new]
      BY <2>2, <3>1
    <3>3. db.tables \in BOOLEAN /\ new \in Rows
      BY <2>1, <3>1
    <3>. QED
      BY <3>2, <3>3 DEF Database
  <2>4. Sound(db')
    BY <2>1, <2>3 DEF Sound, FilesSound
  <2>. QED
    BY <1>14, <2>3, <2>4 DEF MigrateDedupes, TypeOK, FilesSound, ReadingHolds,
       IndexedBeforeStamping, RestoreHasBackup, LateIsKnown, ScriptRuns, BotIndexed, BotCurrent
<1>15. CASE Backup
  BY <1>15, BackupAssumption DEF Backup, scriptVars, TypeOK, FilesSound, ReadingHolds,
     IndexedBeforeStamping, RestoreHasBackup, LateIsKnown, ScriptRuns, BotIndexed, BotCurrent
<1>16. CASE RestoreStarts
  BY <1>16 DEF RestoreStarts, TypeOK, FilesSound, ReadingHolds,
     IndexedBeforeStamping, RestoreHasBackup, LateIsKnown, ScriptRuns, BotIndexed, BotCurrent
<1>17. CASE RestoreReplaces
  BY <1>17 DEF RestoreReplaces, TypeOK, FilesSound, ReadingHolds,
     IndexedBeforeStamping, RestoreHasBackup, LateIsKnown, ScriptRuns, BotIndexed, BotCurrent
<1>18. CASE ScriptDies
  BY <1>18 DEF ScriptDies, TypeOK, FilesSound, ReadingHolds,
     IndexedBeforeStamping, RestoreHasBackup, LateIsKnown, ScriptRuns, BotIndexed, BotCurrent
<1>. QED
  BY <1>1, <1>2, <1>3, <1>4, <1>5, <1>6, <1>7, <1>8, <1>9, <1>10, <1>11, <1>12, <1>13,
     <1>14, <1>15, <1>16, <1>17, <1>18 DEF Next, Migrate

-----------------------------------------------------------------------------
(* Theorems                                                                *)

LEMMA Invariance == Spec => []IInv
BY InitSound, NextSound, PTL DEF Spec

\* The files, the bot and the script always have their types.
THEOREM TypeCorrect == Spec => []TypeOK
BY Invariance, PTL DEF IInv

\* A bot that serves has the current version and a unique index that holds,
\* unless its start met a restore or a migration to an earlier version
\* (init_db, ensure_schema_version, verify_schema_version, migrate_db).
THEOREM ServesCurrent == Spec => []BotServesCurrent
<1>1. IInv => BotServesCurrent
  BY DEF IInv, TypeOK, Database, FilesSound, Sound, BotIndexed, BotCurrent, BotServesCurrent
<1>. QED
  BY Invariance, <1>1, PTL

\* No program loses a contact or invents one: the removal of duplicates
\* (_dedupe_contact_lists) keeps a row of each, and no other step of the bot,
\* of migrate.py or of a backup touches the rows.
THEOREM NoContactLost == Spec => ContactsKept
<1>1. TypeOK /\ [Next]_vars
         => [BotCommand \/ RestoreReplaces \/ Contacts(db'.rows) = Contacts(db.rows)]_vars
  <2>. SUFFICES ASSUME TypeOK, Next, ~BotCommand, ~RestoreReplaces
                PROVE  Contacts(db'.rows) = Contacts(db.rows)
    OBVIOUS
  <2>1. db \in Database /\ db.rows \in Rows
    BY DEF TypeOK, Database
\* The steps that both programs take on the schema.
  <2>2. ASSUME CreateAll \/ EnsureIndexes \/ (\E v \in 0..SCHEMA_VERSION : SetVersion(v))
               \/ UNCHANGED db
        PROVE  db'.rows = db.rows
    BY <2>1, <2>2 DEF CreateAll, EnsureIndexes, SetVersion, Database
  <2>3. CASE MigrateDedupes
    <3>1. db'.rows = Dedupe(db.rows)
      BY <2>1, <2>3 DEF MigrateDedupes, Database
    <3>. QED
      BY <2>1, <3>1, DedupeKeepsContacts
  <2>4. CASE BotStarts \/ BotCreates \/ BotIndexes \/ BotChecks \/ BotVerifies \/ BotEnds
    <3>1. CreateAll \/ EnsureIndexes \/ SetVersion(SCHEMA_VERSION) \/ UNCHANGED db
      BY <2>4 DEF BotStarts, BotCreates, BotIndexes, BotChecks, BotVerifies, BotEnds
    <3>. QED
      BY <2>2, <3>1
  <2>5. CASE MigrateCreates \/ MigrateReads \/ MigrateIndexes
    BY <2>2, <2>5 DEF MigrateCreates, MigrateReads, MigrateIndexes
  <2>6. CASE MigrateStamps
    <3>1. \E v \in 0..SCHEMA_VERSION : SetVersion(v)
      BY <2>6 DEF MigrateStamps, TypeOK
    <3>. QED
      BY <2>2, <3>1
  <2>7. CASE (\E t \in Targets : MigrateStarts(t)) \/ Backup \/ RestoreStarts \/ ScriptDies
    BY <2>2, <2>7 DEF MigrateStarts, Backup, RestoreStarts, ScriptDies
  <2>. QED
    BY <2>3, <2>4, <2>5, <2>6, <2>7 DEF Next, Migrate
<1>. QED
  BY <1>1, TypeCorrect, PTL DEF Spec, ContactsKept
=============================================================================
