----------------------------- MODULE BackupRestore -----------------------------
(***************************************************************************)
(* `mentisdb backup` of one data directory and `mentisdb restore` into      *)
(* another (backup.rs, run_backup and run_restore in cli/mod.rs).           *)
(*                                                                         *)
(* A directory is followed through the two files of one chain that have to *)
(* fit together: the chain file and its agent registry.  A thought is an   *)
(* id, which stands for its hash, and the key that signed it.  The source's *)
(* daemon may run while the backup is taken; a restore holds the lock of    *)
(* its directory, and can stop half way.  Every chain file can be opened,   *)
(* so `--overwrite` makes no difference.                                    *)
(***************************************************************************)
EXTENDS Naturals, Sequences, SequencesExt

CONSTANTS
    Signers,                    \* the keys that sign thoughts
    None,
    MaxImports,                 \* bound: the copies of the chain under another key
    MaxSourceIds, MaxTargetIds, \* bound: the thoughts of each side
    MaxBackups,                 \* bound: the archives
    MaxRestores,                \* bound: the restores begun
    MaxHalts                    \* bound: restores that stop half way

\* A thought: where it was written, which stands for its hash, and its signer.
SignedThought == [id : {"source", "target"} \X Nat, by : Signers]

ASSUME BackupAssumption ==
    /\ MaxImports \in Nat
    /\ None \notin Seq(SignedThought) /\ \A keys \in SUBSET Signers : keys # None

Files == {"agents", "chain"}

\* The keys a chain may have in the target: 0 is its own, then "-imported",
\* "-imported-2" and so on.
ChainKeys == 0 .. MaxImports

VARIABLES
    governed,                   \* whether the chain of the target has private segments
    source,                     \* the files of the source directory
    target,                     \* those of each chain of the target directory
    listed,                     \* whether the target has a registry that lists a chain
    backup,                     \* the backup in progress: [pc, manifest, body, seen]
    archives,                   \* the finished ones, in their order
    restore,                    \* the restore in progress: [pc, from, key, files]
    idsMinted, restores, halts, \* counters
    restored                    \* history: the archives restored

backupVars == <<governed, source, target, listed, backup, archives, restore, idsMinted,
                restores, halts, restored>>

NoFiles == [f \in Files |-> None]
NoBackup == [pc |-> "idle", manifest |-> NoFiles, body |-> NoFiles, seen |-> NoFiles]
NoRestore == [pc |-> "idle", from |-> 0, key |-> 0, files |-> <<>>]

BackupInit ==
    /\ governed \in BOOLEAN
    /\ source = NoFiles
    /\ target = [k \in ChainKeys |-> NoFiles]
    /\ listed = FALSE
    /\ backup = NoBackup /\ archives = <<>>
    /\ restore = NoRestore
    /\ idsMinted = [source |-> 0, target |-> 0]
    /\ restores = 0 /\ halts = 0
    /\ restored = {}

-----------------------------------------------------------------------------
(* The two daemons, as far as these files show them. *)

KeysIn(dir) == IF dir["agents"] = None THEN {} ELSE dir["agents"]
ThoughtsIn(dir) == IF dir["chain"] = None THEN <<>> ELSE dir["chain"]

\* A key is registered and then thoughts are signed with it; the registry may not
\* have been saved.
WithKey(dir, s) == [dir EXCEPT !["agents"] = KeysIn(dir) \cup {s}]
Extended(dir, id, s) == [dir EXCEPT !["chain"] = Append(ThoughtsIn(dir), [id |-> id, by |-> s])]

SourceWrites ==
    /\ \E s \in Signers :
         \/ /\ s \notin KeysIn(source)
            /\ source' = WithKey(source, s)
            /\ UNCHANGED idsMinted
         \/ /\ idsMinted.source < MaxSourceIds
            /\ source' = Extended(source, <<"source", idsMinted.source + 1>>, s)
            /\ idsMinted' = [idsMinted EXCEPT !.source = @ + 1]
    /\ UNCHANGED <<governed, target, listed, backup, archives, restore, restores, halts, restored>>

\* The daemon of the target cannot run while a restore has the lock.
TargetWrites ==
    /\ restore.pc = "idle" /\ idsMinted.target < MaxTargetIds
    /\ \E k \in ChainKeys, s \in Signers :
         /\ k # 0 => target[k]["chain"] # None
         /\ target' = [target EXCEPT ![k] =
                         Extended(WithKey(@, s), <<"target", idsMinted.target + 1>>, s)]
    /\ idsMinted' = [idsMinted EXCEPT !.target = @ + 1]
    /\ listed' = TRUE
    /\ UNCHANGED <<governed, source, backup, archives, restore, restores, halts, restored>>

-----------------------------------------------------------------------------
(* create_backup: the files there are now, each hashed in turn; then each is *)
(* copied, as it is by then.                                                 *)

\* The walk is in the order of the names.
HashAgents ==
    /\ backup.pc = "idle" /\ Len(archives) < MaxBackups
    /\ source["chain"] # None
    /\ backup' = [NoBackup EXCEPT !.pc = "hash", !.manifest["agents"] = source["agents"]]
    /\ UNCHANGED <<governed, source, target, listed, archives, restore, idsMinted, restores, halts, restored>>

HashChain ==
    /\ backup.pc = "hash"
    /\ backup' = [backup EXCEPT !.pc = "agents", !.manifest["chain"] = source["chain"],
                                !.seen = source]
    /\ UNCHANGED <<governed, source, target, listed, archives, restore, idsMinted, restores, halts, restored>>

\* Variant: a file's digest is taken of what is copied.
CopyHashing(f) ==
    /\ backup.pc = f
    /\ LET b == [backup EXCEPT !.pc = "chain", !.body[f] = source[f], !.manifest[f] = source[f]]
       IN IF f = "agents" THEN backup' = b /\ UNCHANGED archives
                          ELSE backup' = NoBackup /\ archives' = Append(archives, b)
    /\ UNCHANGED <<governed, source, target, listed, restore, idsMinted, restores, halts, restored>>

CopyIntoArchive(f) ==
    /\ backup.pc = f
    /\ LET b == [backup EXCEPT !.pc = "chain", !.body[f] = source[f]]
       IN IF f = "agents" THEN backup' = b /\ UNCHANGED archives
                          ELSE backup' = NoBackup /\ archives' = Append(archives, b)
    /\ UNCHANGED <<governed, source, target, listed, restore, idsMinted, restores, halts, restored>>

\* BackupManifest::verify_archive.
Verifies(a) == a.body = a.manifest

-----------------------------------------------------------------------------
(* restore_backup. *)

Staged == archives[restore.from].body

\* Variant: the longer chain extends the shorter one.
ClassifyByLength(local, staged) ==
    IF Len(local) = Len(staged) /\ local # staged THEN "Divergent"
    ELSE IF Len(local) < Len(staged) THEN "BackupExtendsLocal"
    ELSE IF local = staged THEN "Identical" ELSE "LocalExtendsBackup"

\* classify_chain_relationship.
Classify(local, staged) ==
    CASE local = staged -> "Identical"
      [] local # staged /\ IsPrefix(local, staged) -> "BackupExtendsLocal"
      [] local # staged /\ IsPrefix(staged, local) -> "LocalExtendsBackup"
      [] OTHER -> "Divergent"

\* verify_governed_suffix, with the registry of the archive.
SuffixVerifies(staged, from) ==
    \A i \in from + 1 .. Len(staged["chain"]) :
        staged["chain"][i].by \in KeysIn(staged)

\* Variant: the first name is taken whether or not it is in use.
ImportKeyFixed(k) == k = 1

\* next_import_chain_key: the first name that is not in use.  A restore that needs
\* one more than there are is left out (bound).
ImportKey(k) ==
    /\ target[k]["chain"] = None
    /\ \A j \in 1 .. k - 1 : target[j]["chain"] # None

RestoreEnds ==
    /\ restored' = restored \cup {restore.from}
    /\ restore' = NoRestore

\* An archive that does not verify is refused before anything is written.
BeginRestore ==
    /\ restore.pc = "idle" /\ restores < MaxRestores /\ restores' = restores + 1
    /\ \E a \in DOMAIN archives :
         /\ Verifies(archives[a])
         /\ restore' = [NoRestore EXCEPT !.pc = "target", !.from = a]
    /\ UNCHANGED <<governed, source, target, listed, backup, archives, idsMinted, halts, restored>>

\* target_is_effectively_empty: the whole instance, the registry first; or the
\* chain by itself.
LookAtTarget ==
    /\ restore.pc = "target"
    /\ LET empty == ~ listed /\ \A k \in ChainKeys : target[k] = NoFiles
       IN /\ restore' = [restore EXCEPT !.pc = IF empty THEN "copy" ELSE "import",
                                        !.files = IF empty THEN <<"agents", "chain">> ELSE <<>>]
          /\ listed' = TRUE
    /\ UNCHANGED <<governed, source, target, backup, archives, idsMinted, restores, halts, restored>>

\* copy_chain_bundle: the chain file, then what goes with it.
CopyAs(k) == [restore EXCEPT !.pc = "copy", !.key = k, !.files = <<"chain", "agents">>]

\* import_chain_from_staging.
Import ==
    LET local == target[0]["chain"]
        staged == Staged["chain"]
        relation == Classify(local, staged)
        splices == governed => SuffixVerifies(Staged, Len(local))
    IN /\ restore.pc = "import"
       /\ \/ local = None /\ restore' = CopyAs(0) /\ UNCHANGED restored
          \/ /\ local # None /\ relation \in {"Identical", "LocalExtendsBackup"}
             /\ RestoreEnds
          \/ /\ local # None /\ relation = "BackupExtendsLocal" /\ splices
             /\ restore' = [restore EXCEPT !.pc = "splice"]
             /\ UNCHANGED restored
          \/ /\ local # None
             /\ relation = "Divergent" \/ (relation = "BackupExtendsLocal" /\ ~ splices)
             /\ \E k \in ChainKeys \ {0} : ImportKey(k) /\ restore' = CopyAs(k)
             /\ UNCHANGED restored
       /\ UNCHANGED <<governed, source, target, listed, backup, archives, idsMinted, restores, halts>>

\* copy_staged_file_as: written beside it and renamed, unless it is there.
CopyInto(dir, f) == IF dir[f] = None THEN [dir EXCEPT ![f] = Staged[f]] ELSE dir

CopyFile ==
    /\ restore.pc = "copy" /\ restore.files # <<>>
    /\ target' = [target EXCEPT ![restore.key] = CopyInto(@, Head(restore.files))]
    /\ restore' = [restore EXCEPT !.files = Tail(@)]
    /\ UNCHANGED <<governed, source, listed, backup, archives, idsMinted, restores, halts, restored>>

\* normalize_imported_chain opens the chain and saves its registries.
Normalize ==
    /\ restore.pc = "copy" /\ restore.files = <<>>
    /\ target' = [target EXCEPT ![restore.key]["agents"] = KeysIn(target[restore.key])]
    /\ RestoreEnds
    /\ UNCHANGED <<governed, source, listed, backup, archives, idsMinted, restores, halts>>

\* append_verified_suffix: a thought at a time; then the chain is opened and its
\* registries saved.
Splice ==
    LET n == Len(target[0]["chain"])
        staged == Staged["chain"]
    IN /\ restore.pc = "splice"
       /\ IF n < Len(staged)
            THEN /\ target' = [target EXCEPT ![0]["chain"] = Append(@, staged[n + 1])]
                 /\ UNCHANGED <<restore, restored>>
            ELSE /\ target' = [target EXCEPT ![0]["agents"] = KeysIn(target[0])]
                 /\ RestoreEnds
       /\ UNCHANGED <<governed, source, listed, backup, archives, idsMinted, restores, halts>>

\* The process is killed, or an operation on a file fails.
HaltRestore ==
    /\ restore.pc # "idle" /\ halts < MaxHalts /\ halts' = halts + 1
    /\ restore' = NoRestore
    /\ UNCHANGED <<governed, source, target, listed, backup, archives, idsMinted, restores, restored>>

BackupNext ==
    \/ SourceWrites \/ TargetWrites
    \/ HashAgents \/ HashChain \/ \E f \in Files : CopyIntoArchive(f)
    \/ BeginRestore \/ LookAtTarget \/ Import \/ CopyFile \/ Normalize \/ Splice
    \/ HaltRestore

BackupSpec == BackupInit /\ [][BackupNext]_backupVars

-----------------------------------------------------------------------------
(* Properties. *)

\* README.md:1954, "to ensure a consistent snapshot": an archive
\* that verifies holds all files as they were at one moment, although the daemon
\* went on writing them while they were hashed and copied one by one.
VerifiedIsSnapshot ==
    \A a \in DOMAIN archives : Verifies(archives[a]) => archives[a].body = archives[a].seen

\* A restore that returned Ok has brought every thought of its archive, into the
\* chain or into a copy beside it, also when earlier ones stopped half way or came
\* from other archives.
BackupArrives ==
    \A a \in restored : \E k \in ChainKeys :
        IsPrefix(archives[a].body["chain"], ThoughtsIn(target[k]))

\* A backup serves its purpose: what verifies is of one moment, what was restored of it
\* is there.
BackupsAreGood == VerifiedIsSnapshot /\ BackupArrives

\* tests/backup_governed_tests.rs:76, "A newer backup of a governed chain
\* fast-forwards it when its suffix verifies": if the signatures of all archives
\* restored verify, those of the chains they went to do as well.
RestoredVerifies ==
    restore.pc = "idle" /\ (\A a \in restored : SuffixVerifies(archives[a].body, 0)) =>
        \A k \in ChainKeys : target[k]["chain"] # None => SuffixVerifies(target[k], 0)

=============================================================================
