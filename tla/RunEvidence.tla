----------------------------- MODULE RunEvidence -----------------------------
(***************************************************************************)
(* What finished runs leave behind when several of them share one output   *)
(* root and one database: the reservation of the run directory and the     *)
(* publication steps of arena/benchmark/benchmark_runner.py, the bundle of *)
(* arena/reports/bundle.py, and the migrations and the save of             *)
(* arena/storage (db.py, repository.py).                                   *)
(*                                                                         *)
(* Each run is a process.  A file is opened (and truncated) and written in *)
(* two steps, SQLite statements are atomic, DDL commits by itself, and a   *)
(* process may die between any two steps.                                  *)
(***************************************************************************)
EXTENDS Naturals, Sequences, FiniteSets

CONSTANTS Runs,     \* concurrent runs
          Long,     \* those whose run.json is longer than the others'
          Passes,   \* the columns of each call of _add_columns, in their order
          V2Pass,   \* the first call of _migrate_v2; the ones before are _migrate_v1's
          Base,     \* those that a table has when schema.sql creates it
          MaxSecond, \* bound on the clock
          Nil

ASSUME EvidenceAssumption ==
    /\ IsFiniteSet(Runs) /\ Long \subseteq Runs /\ MaxSecond \in Nat /\ Nil \notin Runs
    /\ "absent" \notin Runs /\ "torn" \notin Runs
    /\ Len(Passes) \in Nat \ {0} /\ V2Pass \in 1..Len(Passes)

VARIABLES
    second,   \* the clock, at the resolution of a run id
    pc,       \* where each run is
    base,     \* the timestamp its candidates start with
    suffix,   \* the suffix of its next candidate; 0: none
    dirs,     \* directories that exist
    files,    \* content of the files of each directory
    seal,     \* checksums.json of each directory
    latest,   \* root/latest.json: whose bytes are at its head and its tail
    version,  \* PRAGMA user_version
    cols,     \* columns of the tables; Nil when there are none yet
    old_row,  \* a row from before versioning: its run_status, or Nil
    rows,     \* current rows by run id
    pass,     \* the call of _add_columns a process is in
    missing   \* columns it found missing and has not added yet

disk == <<dirs, files, seal, latest>>
db == <<version, cols, old_row, rows>>
migration == <<pass, missing>>
vars == <<second, pc, base, suffix, disk, db, migration>>

Artifacts == {"run.json", "report.md", "report.html", "run_manifest.json"}
SCHEMA_VERSION == 2

\* A run id is a second and a suffix; it names the directory and the row.
Ids == (0..MaxSecond) \X (0..Cardinality(Runs))
Id(r) == <<base[r], suffix[r]>>

Columns == UNION {Passes[n] : n \in 1..Len(Passes)}

\* Those a database at version 1 has.
V1Columns == UNION {Passes[n] : n \in 1..(V2Pass - 1)}

ASSUME SchemaAssumption == Base \subseteq Columns /\ Nil \notin Columns

Blank == [f \in Artifacts |-> "absent"]
Unsealed(state) == [state |-> state, hashes |-> Blank]

Init ==
    /\ second = 0
    /\ pc = [r \in Runs |-> "start"]
    /\ base = [r \in Runs |-> 0]
    /\ suffix = [r \in Runs |-> 0]
    /\ dirs = {}
    /\ files = [d \in Ids |-> Blank]
    /\ seal = [d \in Ids |-> Unsealed("absent")]
    /\ latest = [head |-> Nil, tail |-> Nil]
    /\ \/ version = 0 /\ cols = {Nil} /\ old_row = Nil      \* no database yet
       \/ version = 0 /\ cols = {} /\ old_row = "unset"     \* one from before versioning
       \/ version = 1 /\ cols = V1Columns /\ old_row = "unset"
       \/ version = SCHEMA_VERSION + 1 /\ cols = Columns /\ old_row = Nil
    /\ rows = [d \in Ids |-> Nil]
    /\ pass = [r \in Runs |-> 1]
    /\ missing = [r \in Runs |-> {}]

Goto(r, l) == pc' = [pc EXCEPT ![r] = l]

-----------------------------------------------------------------------------
(* _reserve_run_dir *)

Start(r) ==
    /\ pc[r] = "start"
    /\ base' = [base EXCEPT ![r] = second]
    /\ Goto(r, "reserve")
    /\ UNCHANGED <<second, suffix, disk, db, migration>>

\* Mutant of Taken: mkdir with exist_ok.
TakenNever(r) == FALSE

\* mkdir raises FileExistsError.
Taken(r) == Id(r) \in dirs

\* One round of the loop: mkdir, or the next candidate.
Reserve(r) ==
    /\ pc[r] = "reserve"
    /\ IF Taken(r)
       THEN suffix' = [suffix EXCEPT ![r] = @ + 1] /\ UNCHANGED <<pc, dirs>>
       ELSE dirs' = dirs \cup {Id(r)} /\ Goto(r, "run.json") /\ suffix' = suffix
    /\ UNCHANGED <<second, base, files, seal, latest, db, migration>>

-----------------------------------------------------------------------------
(* Publication, after snapshot.verify. *)

\* Mutant of Following: latest.json is replaced before the bundle is sealed.
FollowingUnsealed(f) == CASE f = "run.json" -> "report.md"
                          [] f = "report.md" -> "report.html"
                          [] f = "report.html" -> "run_manifest.json"
                          [] f = "run_manifest.json" -> "latest"

Following(f) == CASE f = "run.json" -> "report.md"
                  [] f = "report.md" -> "report.html"
                  [] f = "report.html" -> "run_manifest.json"
                  [] f = "run_manifest.json" -> "seal"

\* The four reports in their order, each opened and then written.
WriteReport(r) ==
    /\ pc[r] \in Artifacts
    /\ IF files[Id(r)][pc[r]] = "torn"
       THEN files' = [files EXCEPT ![Id(r)][pc[r]] = r] /\ Goto(r, Following(pc[r]))
       ELSE files' = [files EXCEPT ![Id(r)][pc[r]] = "torn"] /\ pc' = pc
    /\ UNCHANGED <<second, base, suffix, dirs, seal, latest, db, migration>>

\* write_bundle_checksums: the hashes of the files that are there.
Seal(r) ==
    /\ pc[r] = "seal"
    /\ IF seal[Id(r)].state = "torn"
       THEN /\ seal' = [seal EXCEPT ![Id(r)] = [state |-> "whole", hashes |-> files[Id(r)]]]
            /\ Goto(r, "latest")
       ELSE seal' = [seal EXCEPT ![Id(r)] = Unsealed("torn")] /\ pc' = pc
    /\ UNCHANGED <<second, base, suffix, dirs, files, latest, db, migration>>

\* shutil.copyfile truncates latest.json, then writes over what is there: the
\* tail of a longer file written in between stays.
CopyLatest(r) ==
    /\ \/ /\ pc[r] = "latest"
          /\ latest' = [head |-> Nil, tail |-> Nil]
          /\ Goto(r, "copying")
       \/ /\ pc[r] = "copying"
          /\ latest' = [head |-> r, tail |-> IF r \in Long THEN r ELSE latest.tail]
          /\ Goto(r, "connect")
    /\ UNCHANGED <<second, base, suffix, dirs, files, seal, db, migration>>

-----------------------------------------------------------------------------
(* connect and _migrate, then save. *)

\* user_version decides: an up-to-date database is used as it is, a newer one is
\* a StorageError, and an older one gets the migrations it has not had.
Connect(r) ==
    /\ pc[r] = "connect"
    /\ \/ /\ version >= SCHEMA_VERSION
          /\ Goto(r, IF version = SCHEMA_VERSION THEN "save" ELSE "failed")
          /\ pass' = pass
       \/ version = 0 /\ Goto(r, "script") /\ pass' = pass
       \/ version = 1 /\ Goto(r, "info") /\ pass' = [pass EXCEPT ![r] = V2Pass]
    /\ UNCHANGED <<second, base, suffix, disk, db, missing>>

\* schema.sql: CREATE TABLE IF NOT EXISTS.
Script(r) ==
    /\ pc[r] = "script"
    /\ cols' = IF cols = {Nil} THEN Base ELSE cols
    /\ Goto(r, "info")
    /\ UNCHANGED <<second, base, suffix, disk, version, old_row, rows, migration>>

\* Mutant of Missing: every column is taken to be missing.
MissingAll(r) == Passes[pass[r]]

\* _add_columns reads the table's columns once and adds the ones not there.
Missing(r) == Passes[pass[r]] \ cols

TableInfo(r) ==
    /\ pc[r] = "info"
    /\ missing' = [missing EXCEPT ![r] = Missing(r)]
    /\ Goto(r, "alter")
    /\ UNCHANGED <<second, base, suffix, disk, db, pass>>

\* One ALTER TABLE.  A column that has appeared meanwhile is an error, and the
\* process leaves connect, save and the run with it.
Alter(r) ==
    /\ pc[r] = "alter"
    /\ \E c \in missing[r] :
        IF c \in cols
        THEN Goto(r, "failed") /\ UNCHANGED <<cols, missing>>
        ELSE /\ cols' = cols \cup {c}
             /\ missing' = [missing EXCEPT ![r] = @ \ {c}]
             /\ pc' = pc
    /\ UNCHANGED <<second, base, suffix, disk, version, old_row, rows, pass>>

NextPass(r) ==
    /\ pc[r] = "alter" /\ missing[r] = {} /\ pass[r] < Len(Passes)
    /\ pass' = [pass EXCEPT ![r] = @ + 1]
    /\ Goto(r, "info")
    /\ UNCHANGED <<second, base, suffix, disk, db, missing>>

\* Mutant of Migrated: the version is set before the last columns are there.
MigratedAlmost(r) == pc[r] = "alter" /\ pass[r] = Len(Passes)

Migrated(r) == pc[r] = "alter" /\ missing[r] = {} /\ pass[r] = Len(Passes)

\* The UPDATE that marks old rows, user_version and the commit are one
\* transaction.
Stamp(r) ==
    /\ Migrated(r)
    /\ old_row' = IF old_row = "unset" THEN "legacy" ELSE old_row
    /\ version' = SCHEMA_VERSION
    /\ Goto(r, "save")
    /\ UNCHANGED <<second, base, suffix, disk, cols, rows, migration>>

\* save: INSERT OR REPLACE and the rows below it, in one transaction.
Save(r) ==
    /\ pc[r] = "save"
    /\ rows' = [rows EXCEPT ![Id(r)] = r]
    /\ Goto(r, "done")
    /\ UNCHANGED <<second, base, suffix, disk, version, cols, old_row, migration>>

-----------------------------------------------------------------------------

Ended(r) == pc[r] \in {"done", "failed", "crashed"}

\* The process dies, or a write or a statement raises.
Crash(r) ==
    /\ ~Ended(r)
    /\ Goto(r, "crashed")
    /\ UNCHANGED <<second, base, suffix, disk, db, migration>>

Tick ==
    /\ second < MaxSecond
    /\ second' = second + 1
    /\ UNCHANGED <<pc, base, suffix, disk, db, migration>>

Step(r) ==
    \/ Start(r) \/ Reserve(r) \/ WriteReport(r) \/ Seal(r) \/ CopyLatest(r)
    \/ Connect(r) \/ Script(r) \/ TableInfo(r) \/ Alter(r) \/ NextPass(r)
    \/ Stamp(r) \/ Save(r)

AllEnded == (\A r \in Runs : Ended(r)) /\ UNCHANGED vars

Next == (\E r \in Runs : Step(r) \/ Crash(r)) \/ Tick \/ AllEnded

\* A process that does not die goes on.
Spec == Init /\ [][Next]_vars /\ \A r \in Runs : WF_vars(Step(r))

-----------------------------------------------------------------------------

Labels == {"start", "reserve"} \cup Artifacts
          \cup {"seal", "latest", "copying", "connect", "script", "info", "alter", "save",
                "done", "failed", "crashed"}

Contents == [Artifacts -> {"absent", "torn"} \cup Runs]

TypeOK ==
    /\ second \in 0..MaxSecond
    /\ pc \in [Runs -> Labels]
    /\ base \in [Runs -> 0..MaxSecond]
    /\ suffix \in [Runs -> 0..Cardinality(Runs)]
    /\ dirs \subseteq Ids
    /\ files \in [Ids -> Contents]
    /\ seal \in [Ids -> [state : {"absent", "torn", "whole"}, hashes : Contents]]
    /\ latest \in [head : Runs \cup {Nil}, tail : Runs \cup {Nil}]
    /\ version \in 0..(SCHEMA_VERSION + 1)
    /\ cols \subseteq Columns \cup {Nil}
    /\ pass \in [Runs -> 1..Len(Passes)]
    /\ old_row \in {Nil, "unset", "legacy"}
    /\ rows \in [Ids -> Runs \cup {Nil}]
    /\ missing \in [Runs -> SUBSET Columns]

\* verify_bundle without an expected id.
VerifyBundle(d) == seal[d].state = "whole" /\ seal[d].hashes = files[d]

Sealed(r) == \A f \in Artifacts : VerifyBundle(Id(r)) /\ files[Id(r)][f] = r

\* A bundle that verifies is the whole evidence of one run, whatever runs were
\* started in the same second and wherever they died; and a run that got past
\* the sealing has such a bundle from then on.
BundleIsOneRun ==
    /\ \A d \in dirs : VerifyBundle(d) => \E r \in Runs : Id(r) = d /\ Sealed(r)
    /\ \A r \in Runs :
         pc[r] \in {"latest", "copying", "connect", "script", "info", "alter", "save", "done", "failed"}
           => Sealed(r)

\* latest.json and the database hold nothing of a run without a sealed bundle,
\* and a saved run keeps its row.
EvidencePrecedesPointers ==
    /\ \A r \in {latest.head, latest.tail} \ {Nil} : Sealed(r)
    /\ \A d \in Ids : rows[d] # Nil => Id(rows[d]) = d /\ Sealed(rows[d])
    /\ \A r \in Runs : pc[r] = "done" => rows[Id(r)] = r

\* Once the database says it is migrated every column is there, rows of old
\* runs are marked legacy, and a run's row is only written to such a database,
\* not to one that a newer arena has taken over.
VersionMeansMigrated ==
    /\ version = SCHEMA_VERSION => cols = Columns /\ old_row \in {Nil, "legacy"}
    /\ \A d \in Ids : rows[d] # Nil => version = SCHEMA_VERSION

\* "versioned, idempotent migrations": a process that opens a database of any
\* version it knows while no other is at work on it brings the migration to its end, wherever an
\* earlier process died in it.
MigrationRecovers ==
    \A r \in Runs :
        (pc[r] = "connect" /\ version <= SCHEMA_VERSION /\ \A q \in Runs \ {r} : Ended(q))
            ~> pc[r] \in {"done", "crashed"}

=============================================================================
