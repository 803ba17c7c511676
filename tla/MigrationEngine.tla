--------------------------- MODULE MigrationEngine ---------------------------
(***************************************************************************)
(* The journaled migration of one chain to the current format:             *)
(* migration/engine.rs.  A legacy chain file is preserved, upgraded into a *)
(* staged file, swapped in with one rename and tidied up after; a durable  *)
(* journal says how far that went, so that a killed process can be         *)
(* succeeded by another.                                                   *)
(*                                                                         *)
(* One process at a time works on the directory (the data-directory lock   *)
(* and the chain lock see to it), so one program counter is enough; what   *)
(* makes it hard is that the process can die, be asked to stop, or have a  *)
(* file operation fail between any two writes to the disk.                 *)
(*                                                                         *)
(* The content of a file is "old", the legacy records; "new", the same     *)
(* records upgraded; "grown", the upgraded records and others appended     *)
(* since; "partial", what an unfinished copy left; or "none", no file.     *)
(***************************************************************************)
EXTENDS Naturals

CONSTANTS
    MaxAttempts, \* MAX_ATTEMPTS
    MaxCrashes,  \* bound: times the process is killed
    MaxFaults,   \* bound: failed file operations
    MaxStops     \* bound: clean stops and operator commands

ASSUME AttemptsAssumption == MaxAttempts \in Nat \ {0}
ASSUME BoundAssumption ==
    MaxCrashes \in Nat /\ MaxFaults \in Nat /\ MaxStops \in Nat

VARIABLES
    live,                  \* the binary chain file
    jsonl,                 \* the legacy JSONL chain file
    staged,                \* the staged file
    backup,                \* the preserved original
    registered,            \* the registration of the chain: "old", or "new" once migrated
    derived,               \* sidecars and verified-prefix checkpoint: "old", "none", "new"
    journal,               \* the journal file
    mine,                  \* the journal in the memory of the running process
    pc,                    \* the next step of the command in progress
    path,                  \* "fresh" in execute(), "recovery" below recover_locked(), and
                           \* "forced" in rollback_chain() with --force
    before,                \* attempts before this run
    purged,                \* history: was a backup purged?
    crashes, faults, stops \* counters of the bounds

files == <<live, jsonl, staged, backup, registered, derived>>
process == <<mine, pc, path, before>>
bounds == <<crashes, faults, stops>>
engineVars == <<files, journal, process, purged, bounds>>

Kinds == {"binary", "jsonl"}
Unfinished == {"planned", "backed_up", "staged", "committed"}
Quarantined == {"failed", "skipped", "rolled_back"}
States == Unfinished \cup Quarantined \cup {"finalized"}

\* MigrationJournal; state "none" stands for a journal that does not exist.
Journal == [state: States \cup {"none"}, attempts: Nat, kind: Kinds,
            registration: {"old", "new"}]
\* MigrationJournal::new
NewJournal(kind, attempts) ==
    [state |-> "planned", attempts |-> attempts, kind |-> kind,
     registration |-> registered]
NoJournal == [state |-> "none", attempts |-> 0, kind |-> "binary",
              registration |-> "old"]

\* A legacy chain, binary or JSONL, with or without derived files.
EngineInit ==
    /\ \/ live = "old" /\ jsonl = "none"
       \/ live = "none" /\ jsonl = "old"
    /\ staged = "none" /\ backup = "none"
    /\ registered = "old" /\ derived \in {"old", "none"}
    /\ journal = NoJournal /\ mine = NoJournal
    /\ pc = "idle" /\ path = "fresh" /\ before = 0
    /\ purged = "no"
    /\ crashes = 0 /\ faults = 0 /\ stops = 0

-----------------------------------------------------------------------------
(* Steps of a run.  Each makes at most one change to the disk.             *)

Goto(step) == pc' = step /\ UNCHANGED <<mine, path, before>>
\* MigrationJournal::set_state
Save(state) == journal' = [mine EXCEPT !.state = state]

\* run_chain_migration: a quarantined chain is left alone, an unfinished run
\* is recovered first.
StartRun ==
    /\ pc = "idle" /\ journal.state \notin Quarantined
    /\ mine' = journal
    /\ before' = IF journal.state \in Unfinished THEN journal.attempts ELSE 0
    /\ pc' = IF journal.state \in Unfinished THEN "recover" ELSE "detect"
    /\ path' = IF journal.state \in Unfinished THEN "recovery" ELSE "fresh"
    /\ UNCHANGED <<files, journal, purged, bounds>>

\* recover_locked gives up on a run that was cut off too often, whatever it
\* had reached ...
Exhaust ==
    /\ pc = "recover" /\ mine.attempts >= MaxAttempts
    /\ staged' = "none"
    /\ Goto("exhausted")
    /\ UNCHANGED <<live, jsonl, backup, registered, derived, journal, purged, bounds>>
SaveExhausted ==
    /\ pc = "exhausted"
    /\ Save("failed")
    /\ Goto("idle")
    /\ UNCHANGED <<files, purged, bounds>>

\* ... discards what has not reached the live file ...
Restart ==
    /\ staged' = "none"
    /\ pc' = "detect" /\ path' = "fresh"
    /\ UNCHANGED <<live, mine, before>>

\* Variant: a run that was preparing its staged file is taken for a staged one.
RecoverUnchecked ==
    /\ pc = "recover" /\ mine.attempts < MaxAttempts
    /\ CASE mine.state = "committed" ->
              Goto("drop_source") /\ UNCHANGED <<live, staged>>
         [] mine.state # "committed" /\ staged # "none" ->
              live' = staged /\ staged' = "none" /\ Goto("commit")
         [] mine.state = "staged" /\ staged = "none" /\ live = "new" ->
              Goto("commit") /\ UNCHANGED <<live, staged>>
         [] OTHER -> Restart
    /\ UNCHANGED <<jsonl, backup, registered, derived, journal, purged,
                   bounds>>

\* Variant: a rename that was done already is not recognised.
RecoverForgetsRename ==
    /\ pc = "recover" /\ mine.attempts < MaxAttempts
    /\ CASE mine.state = "committed" ->
              Goto("drop_source") /\ UNCHANGED <<live, staged>>
         [] mine.state = "staged" /\ staged = "new" ->
              live' = "new" /\ staged' = "none" /\ Goto("commit")
         [] OTHER -> Restart
    /\ UNCHANGED <<jsonl, backup, registered, derived, journal, purged,
                   bounds>>

\* ... and otherwise completes it: a staged file that matches its digest is
\* swapped in, unless it already was.
Recover ==
    /\ pc = "recover" /\ mine.attempts < MaxAttempts
    /\ CASE mine.state = "committed" ->
              Goto("drop_source") /\ UNCHANGED <<live, staged>>
         [] mine.state = "staged" /\ staged = "new" ->
              live' = "new" /\ staged' = "none" /\ Goto("commit")
         [] mine.state = "staged" /\ staged = "none" /\ live = "new" ->
              Goto("commit") /\ UNCHANGED <<live, staged>>
         [] OTHER -> Restart
    /\ UNCHANGED <<jsonl, backup, registered, derived, journal, purged,
                   bounds>>

\* detect_with_kind, from the first record of whichever file is there.
Detect ==
    /\ pc = "detect"
    /\ \/ /\ live # "none" /\ jsonl # "none"
          /\ mine' = NewJournal("binary", before) /\ pc' = "quarantine"
       \/ /\ live = "none" /\ jsonl # "none"
          /\ mine' = NewJournal("jsonl", before + 1) /\ pc' = "plan"
       \/ /\ live = "old" /\ jsonl = "none"
          /\ mine' = NewJournal("binary", before + 1) /\ pc' = "plan"
       \/ /\ live \notin {"old", "partial"} /\ jsonl = "none"
          /\ pc' = "idle" /\ UNCHANGED mine
    /\ UNCHANGED <<files, journal, path, before, purged, bounds>>

SavePlanned ==
    /\ pc = "plan"
    /\ Save("planned")
    /\ Goto("clear_backup")
    /\ UNCHANGED <<files, purged, bounds>>

\* backup_original: an earlier backup goes, the source is linked or copied.
ClearBackup ==
    /\ pc = "clear_backup"
    /\ backup' = "none"
    /\ Goto("make_backup")
    /\ UNCHANGED <<live, jsonl, staged, registered, derived, journal, purged, bounds>>
Source == IF mine.kind = "binary" THEN live ELSE jsonl
MakeBackup ==
    /\ pc = "make_backup"
    /\ backup' = Source
    /\ Goto("save_backup")
    /\ UNCHANGED <<live, jsonl, staged, registered, derived, journal, purged, bounds>>
SaveBackedUp ==
    /\ pc = "save_backup"
    /\ Save("backed_up")
    /\ mine' = [mine EXCEPT !.state = "backed_up"] /\ pc' = "stage"
    /\ UNCHANGED <<files, path, before, purged, bounds>>

\* stream_upgrade: the staged file is created, filled and synced.
CreateStaged ==
    /\ pc = "stage"
    /\ staged' = "partial"
    /\ Goto("upgrade")
    /\ UNCHANGED <<live, jsonl, backup, registered, derived, journal, purged, bounds>>
FillStaged ==
    /\ pc = "upgrade"
    /\ staged' = IF Source = "old" THEN "new" ELSE Source
    /\ Goto("save_staged")
    /\ UNCHANGED <<live, jsonl, backup, registered, derived, journal, purged, bounds>>
SaveStaged ==
    /\ pc = "save_staged"
    /\ Save("staged")
    /\ Goto("rename")
    /\ UNCHANGED <<files, purged, bounds>>

CommitRename ==
    /\ pc = "rename"
    /\ live' = staged /\ staged' = "none"
    /\ Goto("commit")
    /\ UNCHANGED <<jsonl, backup, registered, derived, journal, purged,
                   bounds>>
SaveCommitted ==
    /\ pc = "commit"
    /\ Save("committed")
    /\ Goto("drop_source")
    /\ UNCHANGED <<files, purged, bounds>>

\* finalize: the superseded JSONL file, the registration, the derived files.
DropSource ==
    /\ pc = "drop_source"
    /\ jsonl' = IF mine.kind = "jsonl" THEN "none" ELSE jsonl
    /\ Goto("register")
    /\ UNCHANGED <<live, staged, backup, registered, derived, journal, purged, bounds>>

\* Variant: derived files are kept although the hashes changed.
UpdateRegistryOnly ==
    /\ pc = "register"
    /\ registered' = "new"
    /\ Goto("finish")
    /\ UNCHANGED <<live, jsonl, staged, backup, derived, journal, purged, bounds>>

UpdateRegistry ==
    /\ pc = "register"
    /\ registered' = "new"
    /\ Goto("drop_derived")
    /\ UNCHANGED <<live, jsonl, staged, backup, derived, journal, purged, bounds>>
DropDerived ==
    /\ pc = "drop_derived"
    /\ derived' = "none"
    /\ Goto("finish")
    /\ UNCHANGED <<live, jsonl, staged, backup, registered, journal, purged, bounds>>
SaveFinalized ==
    /\ pc = "finish"
    /\ Save("finalized")
    /\ Goto("idle")
    /\ UNCHANGED <<files, purged, bounds>>

RunSteps == {"plan", "clear_backup", "make_backup", "save_backup", "stage",
             "upgrade", "save_staged", "rename", "commit", "drop_source",
             "register", "drop_derived", "finish"}

\* The first record cannot be read: a new journal records the failure.
DetectFails ==
    /\ pc = "detect" /\ faults < MaxFaults
    /\ faults' = faults + 1
    /\ mine' = NewJournal("binary", before) /\ pc' = "quarantine"
    /\ UNCHANGED <<files, journal, path, before, purged, crashes,
                   stops>>

\* An operation of the run fails.  execute() quarantines the chain; the
\* errors of recovery and of the first journal write are only returned.
RunFails ==
    /\ pc \in RunSteps \cup {"recover", "exhausted"} /\ faults < MaxFaults
    /\ faults' = faults + 1
    /\ backup' \in IF pc = "make_backup" THEN {backup, "partial"} ELSE {backup}
    /\ Goto(IF path = "recovery" \/ pc = "plan" THEN "idle" ELSE "quarantine")
    /\ UNCHANGED <<live, jsonl, staged, registered, derived, journal, purged, crashes, stops>>

\* quarantine: the error of saving the journal is ignored.
Quarantine ==
    /\ pc = "quarantine"
    /\ staged' = "none"
    /\ \/ Save("failed") /\ UNCHANGED faults
       \/ faults < MaxFaults /\ faults' = faults + 1 /\ UNCHANGED journal
    /\ Goto("idle")
    /\ UNCHANGED <<live, jsonl, backup, registered, derived, purged,
                   crashes, stops>>

\* A stop on request: before the backup, at a record, or before verification.
\* Staging is discarded and the attempt is handed back.
Interrupt ==
    /\ pc \in {"clear_backup", "upgrade", "save_staged"} /\ stops < MaxStops
    /\ stops' = stops + 1
    /\ staged' = "none"
    /\ \/ journal' = [mine EXCEPT !.attempts = before] /\ UNCHANGED faults
       \/ faults < MaxFaults /\ faults' = faults + 1 /\ UNCHANGED journal
    /\ Goto("idle")
    /\ UNCHANGED <<live, jsonl, backup, registered, derived, purged,
                   crashes>>

-----------------------------------------------------------------------------
(* Rolling back and the other commands of the operator.                    *)

\* Variant: the chain is rolled back whether it grew or not.
StartRollbackUnchecked(force) ==
    /\ pc = "idle" /\ stops < MaxStops
    /\ journal.state \in {"committed", "finalized"} /\ backup # "none"
    /\ stops' = stops + 1
    /\ mine' = journal /\ pc' = "restore"
    /\ path' = IF force THEN "forced" ELSE "fresh"
    /\ UNCHANGED <<files, journal, before, purged, crashes, faults>>

\* rollback_chain refuses a chain that grew since, unless it is forced.
StartRollback(force) ==
    /\ pc = "idle" /\ stops < MaxStops
    /\ journal.state \in {"committed", "finalized"} /\ backup # "none"
    /\ force \/ live = "new"
    /\ stops' = stops + 1
    /\ mine' = journal /\ pc' = "restore"
    /\ path' = IF force THEN "forced" ELSE "fresh"
    /\ UNCHANGED <<files, journal, before, purged, crashes, faults>>

RestoreFile ==
    /\ pc = "restore"
    /\ IF mine.kind = "binary" THEN live' = backup /\ UNCHANGED jsonl
                               ELSE jsonl' = backup /\ UNCHANGED live
    /\ Goto("remove_live")
    /\ UNCHANGED <<staged, backup, registered, derived, journal, purged,
                   bounds>>
RemoveLive ==
    /\ pc = "remove_live"
    /\ live' = IF mine.kind = "jsonl" THEN "none" ELSE live
    /\ Goto("restore_registry")
    /\ UNCHANGED <<jsonl, staged, backup, registered, derived, journal, purged, bounds>>
RestoreRegistry ==
    /\ pc = "restore_registry"
    /\ registered' = mine.registration
    /\ Goto("rollback_derived")
    /\ UNCHANGED <<live, jsonl, staged, backup, derived, journal, purged, bounds>>
RollbackDerived ==
    /\ pc = "rollback_derived"
    /\ derived' = "none"
    /\ Goto("save_rollback")
    /\ UNCHANGED <<live, jsonl, staged, backup, registered, journal, purged, bounds>>
SaveRolledBack ==
    /\ pc = "save_rollback"
    /\ Save("rolled_back")
    /\ Goto("idle")
    /\ UNCHANGED <<files, purged, bounds>>

RollbackSteps == {"restore", "remove_live", "restore_registry",
                  "rollback_derived", "save_rollback"}
RollbackFails ==
    /\ pc \in RollbackSteps /\ faults < MaxFaults
    /\ faults' = faults + 1
    /\ Goto("idle")
    /\ UNCHANGED <<files, journal, purged, crashes, stops>>

Kept == IF journal.state = "none"
          THEN NewJournal(IF live # "none" THEN "binary" ELSE "jsonl", 0)
          ELSE journal

\* skip_chain
Skip ==
    /\ pc = "idle" /\ stops < MaxStops /\ journal.state \notin Unfinished
    /\ stops' = stops + 1
    /\ journal' = [Kept EXCEPT !.state = "skipped"]
    /\ UNCHANGED <<files, process, purged, crashes, faults>>

\* MigrationManager::assess persists a quarantine for a chain it cannot read.
Assess ==
    /\ pc = "idle" /\ journal.state \in {"none", "finalized"}
    /\ \/ live # "none" /\ jsonl # "none" /\ UNCHANGED faults
       \/ live # "none" /\ jsonl = "none"
            /\ faults < MaxFaults /\ faults' = faults + 1
    /\ journal' = [Kept EXCEPT !.state = "failed"]
    /\ UNCHANGED <<files, process, purged, crashes, stops>>

\* retry_chain
Retry ==
    /\ pc = "idle" /\ stops < MaxStops
    /\ journal.state \in Quarantined \cup {"finalized"}
    /\ stops' = stops + 1
    /\ staged' = "none"
    /\ journal' = NoJournal
    /\ UNCHANGED <<live, jsonl, backup, registered, derived, process, purged,
                   crashes, faults>>

\* purge_backups: only the originals of finished migrations.
Purge ==
    /\ pc = "idle" /\ journal.state = "finalized" /\ backup # "none"
    /\ backup' = "none" /\ purged' = "yes"
    /\ UNCHANGED <<live, jsonl, staged, registered, derived, journal, process,
                   bounds>>

\* The daemon serves a chain that has no migration to wait for: its derived
\* files are built where they are missing, and thoughts are appended.
Served == journal.state \in {"none", "finalized"} /\ jsonl = "none"
            /\ live \in {"new", "grown"}
Serve ==
    /\ pc = "idle" /\ Served
    /\ live' \in {live, "grown"}
    /\ derived' = IF derived = "none" THEN "new" ELSE derived
    /\ registered' = "new"
    /\ UNCHANGED <<jsonl, staged, backup, journal, process, purged,
                   bounds>>

\* The process is killed.  Nothing of it is left but the disk; a rename into
\* the other directory may have left the staged name behind.
Crash ==
    /\ pc # "idle" /\ crashes < MaxCrashes
    /\ crashes' = crashes + 1
    /\ backup' \in IF pc = "make_backup" THEN {backup, "partial"} ELSE {backup}
    /\ staged' \in IF pc = "commit" THEN {staged, live} ELSE {staged}
    /\ Goto("idle")
    /\ UNCHANGED <<live, jsonl, registered, derived, journal, purged, faults,
                   stops>>

Work == \/ Exhaust \/ SaveExhausted \/ Recover \/ Detect \/ SavePlanned
        \/ ClearBackup \/ MakeBackup \/ SaveBackedUp \/ CreateStaged
        \/ FillStaged \/ SaveStaged \/ CommitRename \/ SaveCommitted
        \/ DropSource \/ UpdateRegistry \/ DropDerived \/ SaveFinalized
        \/ Quarantine
RollBack == \/ RestoreFile \/ RemoveLive \/ RestoreRegistry \/ RollbackDerived
            \/ SaveRolledBack
Operator == \/ \E force \in BOOLEAN : StartRollback(force)
            \/ Skip \/ Assess \/ Retry \/ Purge \/ Serve

EngineNext == StartRun \/ Work \/ DetectFails \/ RunFails \/ Interrupt \/ RollBack \/ RollbackFails
          \/ Operator \/ Crash

EngineSpec == EngineInit /\ [][EngineNext]_engineVars
\* A running command goes on, and a daemon is started again in the end.
EngineFairSpec == EngineSpec /\ WF_engineVars(Work) /\ WF_engineVars(RollBack) /\ WF_engineVars(StartRun)

-----------------------------------------------------------------------------
(* What must hold. *)

Contents == {"none", "partial", "old", "new", "grown"}

\* The variables hold the values the code gives them; no run starts with
\* more attempts behind it than MAX_ATTEMPTS.
EngineTypeOK ==
    /\ {live, jsonl, staged, backup} \subseteq Contents
    /\ registered \in {"old", "new"} /\ derived \in {"old", "none", "new"}
    /\ journal \in Journal /\ mine \in Journal
    /\ pc \in RunSteps \cup RollbackSteps
              \cup {"idle", "recover", "exhausted", "detect", "quarantine"}
    /\ path \in {"fresh", "recovery", "forced"} /\ before \in 0..MaxAttempts
    /\ purged \in {"no", "yes"}
    /\ crashes \in 0..MaxCrashes /\ faults \in 0..MaxFaults
    /\ stops \in 0..MaxStops

\* Wherever the process is killed, what lies under the name of a chain is a
\* whole chain, never a staged file that was cut off; and a finished migration
\* that is served left nothing behind: the registration is the new one and no
\* derived file is bound to the old hashes.
LiveIsWhole ==
    /\ live # "partial" /\ jsonl # "partial"
    /\ journal.state = "finalized" /\ Served => registered = "new" /\ derived # "old"

\* Thoughts appended since a migration are only ever discarded by a rollback
\* with --force, whatever crashes, retries and recoveries come in between.
GrowthKept == [][live = "grown" /\ live' # "grown" => path = "forced"]_engineVars

\* An unfinished migration is finished or given up in the end.
Resumes == journal.state \in Unfinished ~> journal.state \notin Unfinished

\* README.md says that a migration "can always go back": the records are in a
\* live file or in the backup.
RecordsKept == "old" \in {live, jsonl, backup} \/ live \in {"new", "grown"}

=============================================================================
