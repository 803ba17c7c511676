----------------------------- MODULE SidecarWal -----------------------------
(***************************************************************************)
(* One vector sidecar on disk, a snapshot file and a write-ahead log, and  *)
(* the threads that touch the pair: search/sidecar.rs and the flush and    *)
(* rebuild paths of lib.rs.                                                *)
(*                                                                         *)
(* Entries are appended to the sidecar in memory and flushed to the log    *)
(* under derived_flush_lock; a compaction folds the log into a new         *)
(* snapshot on its own thread; a rebuild writes a snapshot from scratch on *)
(* the rebuild worker, without that lock; any thread may load the pair.    *)
(* The process may die between any two file operations.                    *)
(*                                                                         *)
(* A digest is a pair <<generation, entries>>: every record's digest is    *)
(* chained from the one before, so it names the full digest (one per       *)
(* rebuild) the chain of records started from, and its length.  The model  *)
(* has one sidecar and whole thoughts: EmbedPipeline is about the vectors  *)
(* that arrive late.                                                       *)
(***************************************************************************)
EXTENDS Naturals, Sequences, SequencesExt

CONSTANTS
    MaxEntries,      \* bound: thoughts appended
    MaxRebuilds,     \* bound: rebuilds
    MaxCrashes,      \* bound: times the process is killed
    MaxSidecarFaults \* bound: failed log writes

ASSUME BoundAssumption ==
    MaxEntries \in Nat /\ MaxRebuilds \in Nat /\ MaxCrashes \in Nat
    /\ MaxSidecarFaults \in Nat

VARIABLES
    snapshot,                   \* the snapshot file: the digest its log chains from
    version,                    \* its file stamp: how often it was replaced
    wal,                        \* the log file: digests of its records, and what torn writes left
    chainLength,                \* length of the chain
    sidecar,                    \* digest of the sidecar in memory; NoDigest while there is none
    pending,                    \* pending_derived.sidecar_wals
    wanted,                     \* pending_derived.sidecar_compactions: one is queued
    lock,                       \* derived_flush_lock: "free", or who holds it
    batch,                      \* records flush_pending_derived has taken and not yet written,
    taken,                      \* and the compaction it has taken
    compactor,                  \* the compaction thread
    rebuild,                    \* the rebuild of the sidecar
    loader,                     \* a thread in load_from_path
    damaged,                    \* history, a set: "write", a log write has failed since the log
                                \* was started; "race", a compaction replaced a rebuilt snapshot
    generation, crashes, faults \* counters: rebuilds begun, and the bounds

disk   == <<snapshot, version, wal, chainLength>>
queued == <<pending, wanted, batch, taken>>
bounds == <<generation, crashes, faults>>
sidecarVars   == <<disk, sidecar, queued, lock, compactor, rebuild, loader, damaged,
            bounds>>

Digest == (0 .. MaxRebuilds) \X (0 .. MaxEntries)
Gen(digest) == digest[1]
Count(digest) == digest[2]
NextDigest(digest) == <<Gen(digest), Count(digest) + 1>>
PrevDigest(digest) == <<Gen(digest), Count(digest) - 1>>

\* Not digests.  A failed write leaves a few bytes of a record's length, or
\* more of it.
NoDigest == <<MaxRebuilds + 1, 0>>
Bad  == <<MaxRebuilds + 2, 0>>
Stub == <<MaxRebuilds + 3, 0>>
Torn == <<MaxRebuilds + 4, 0>>

-----------------------------------------------------------------------------
(* replay_sidecar_wal_bytes: what the log makes of a snapshot. *)

\* How many records at the head of the log the snapshot may already cover: they
\* chain and end where the snapshot's log starts, and the others chain from there.
Covered(snap, log) ==
    {k \in 0 .. Len(log) :
        /\ \A i \in 1 .. k :
              /\ log[i] \in Digest
              /\ PrevDigest(log[i]) # snap
              /\ Count(log[i]) <= Count(snap)
              /\ i > 1 => log[i] = NextDigest(log[i - 1])
        /\ k > 0 => log[k] = snap
        /\ \A i \in k + 1 .. Len(log) : log[i] = <<Gen(snap), Count(snap) + (i - k)>>}

EndsTorn(log) == log # <<>> /\ Last(log) = Stub
ReplayLog(snap, log) ==
    LET whole == IF EndsTorn(log) THEN Front(log) ELSE log
    IN  IF Covered(snap, whole) = {} THEN Bad
        ELSE LET k == CHOOSE k \in Covered(snap, whole) : TRUE
             IN  <<Gen(snap), Count(snap) + (Len(whole) - k)>>

\* VectorSidecar::freshness
Fresh(digest) == digest # Bad /\ digest # NoDigest /\ Count(digest) = chainLength

NoCompaction == [pc |-> "idle", stamp |-> 0, merged |-> NoDigest,
                 folded |-> <<>>, tail |-> <<>>]
NoSidecarRebuild == [pc |-> "idle", digest |-> NoDigest]
NoReader == [pc |-> "idle", attempt |-> 1, stamp |-> 0, digest |-> NoDigest,
             floor |-> 0]

SidecarInit ==
    /\ snapshot = <<0, 0>> /\ version = 0 /\ wal = <<>> /\ chainLength = 0
    /\ sidecar = <<0, 0>>
    /\ pending = <<>> /\ wanted = "no" /\ batch = <<>>
    /\ taken = "no" /\ lock = "free"
    /\ compactor = NoCompaction /\ rebuild = NoSidecarRebuild /\ loader = NoReader
    /\ damaged = {}
    /\ generation = 0 /\ crashes = 0 /\ faults = 0

-----------------------------------------------------------------------------
(* Appends and flushes *)

\* A thought whose vector extends the sidecar; while a rebuild is pending, or
\* the sidecar is behind, only the chain grows.  The record that reaches the
\* threshold also asks for a compaction.
IndexThought ==
    /\ chainLength < MaxEntries
    /\ chainLength' = chainLength + 1
    /\ IF Fresh(sidecar) /\ rebuild.pc = "idle"
         THEN /\ sidecar' = NextDigest(sidecar)
              /\ pending' = Append(pending, NextDigest(sidecar))
              /\ wanted' \in {wanted, "yes"}
         ELSE UNCHANGED <<sidecar, pending, wanted>>
    /\ UNCHANGED <<snapshot, version, wal, batch, taken, lock, compactor, rebuild, loader,
                   damaged, bounds>>

StartFlush ==
    /\ lock = "free" /\ (pending # <<>> \/ wanted = "yes")
    /\ lock' = "flush"
    /\ batch' = pending /\ pending' = <<>>
    /\ taken' = wanted /\ wanted' = "no"
    /\ UNCHANGED <<disk, sidecar, compactor, rebuild, loader, damaged,
                   bounds>>

\* append_sidecar_wal_record
WriteRecord ==
    /\ lock = "flush" /\ batch # <<>>
    /\ wal' = Append(wal, Head(batch))
    /\ batch' = Tail(batch)
    /\ UNCHANGED <<snapshot, version, chainLength, sidecar, pending, wanted, taken, lock,
                   compactor, rebuild, loader, damaged, bounds>>

\* The failing record is dropped, those after it are queued again.
WriteFails ==
    /\ lock = "flush" /\ batch # <<>> /\ faults < MaxSidecarFaults
    /\ wal' \in {wal, Append(wal, Stub), Append(wal, Torn)}
    /\ pending' = Tail(batch) \o pending
    /\ batch' = <<>>
    /\ wanted' = (IF taken = "yes" THEN "yes" ELSE wanted) /\ taken' = "no"
    /\ lock' = "free"
    /\ damaged' = damaged \cup {"write"}
    /\ faults' = faults + 1
    /\ UNCHANGED <<snapshot, version, chainLength, sidecar, compactor, rebuild,
                   loader, generation, crashes>>

\* The compaction starts once every record queued before it is on disk; there
\* is at most one of a snapshot.
EndFlush ==
    /\ lock = "flush" /\ batch = <<>>
    /\ taken' = "no"
    /\ compactor' = IF taken = "yes" /\ compactor.pc = "idle"
                      THEN [compactor EXCEPT !.pc = "stamp"] ELSE compactor
    /\ lock' = "free"
    /\ UNCHANGED <<disk, sidecar, pending, wanted, batch, rebuild, loader, damaged,
                   bounds>>

-----------------------------------------------------------------------------
(* compact_sidecar_snapshot *)

Compacting(step) == compactor.pc = step
CompactorOnly ==
    UNCHANGED <<chainLength, sidecar, queued, rebuild, loader, bounds>>
Untouched == UNCHANGED <<snapshot, version, wal, damaged>>

ReadStamp ==
    /\ Compacting("stamp")
    /\ compactor' = [compactor EXCEPT !.pc = "read", !.stamp = version]
    /\ UNCHANGED lock /\ Untouched /\ CompactorOnly
ReadSnapshot ==
    /\ Compacting("read")
    /\ compactor' = [compactor EXCEPT !.pc = "copy", !.merged = snapshot]
    /\ UNCHANGED lock /\ Untouched /\ CompactorOnly
CopyWal ==
    /\ Compacting("copy") /\ lock = "free"
    /\ compactor' = [compactor EXCEPT !.pc = "fold", !.folded = wal]
    /\ UNCHANGED lock /\ Untouched /\ CompactorOnly

\* A log that does not replay, or ends in a torn record, is left alone.
Fold ==
    /\ Compacting("fold")
    /\ LET head == ReplayLog(compactor.merged, compactor.folded)
       IN  compactor' = IF ~EndsTorn(compactor.folded) /\ head # Bad
                          THEN [compactor EXCEPT !.pc = "check", !.merged = head]
                          ELSE NoCompaction
    /\ UNCHANGED lock /\ Untouched /\ CompactorOnly

\* Under the lock: give up if the snapshot was replaced or the log restarted.
Check ==
    /\ Compacting("check") /\ lock = "free"
    /\ IF version = compactor.stamp /\ IsPrefix(compactor.folded, wal)
         THEN /\ lock' = "compact"
              /\ compactor' = [compactor EXCEPT !.pc = "swap", !.tail =
                    SubSeq(wal, Len(compactor.folded) + 1, Len(wal))]
         ELSE lock' = lock /\ compactor' = NoCompaction
    /\ Untouched /\ CompactorOnly

SwapSnapshot ==
    /\ Compacting("swap")
    /\ snapshot' = compactor.merged /\ version' = version + 1
    /\ damaged' = IF version = compactor.stamp THEN damaged ELSE damaged \cup {"race"}
    /\ compactor' = [compactor EXCEPT !.pc = "tail"]
    /\ UNCHANGED <<wal, lock>> /\ CompactorOnly

\* swap_wal_tail: the log keeps what was appended since it was copied.
EndCompaction(log) ==
    /\ Compacting("tail")
    /\ wal' = log
    /\ lock' = "free"
    /\ compactor' = NoCompaction
    /\ UNCHANGED <<snapshot, version, damaged>> /\ CompactorOnly
\* Variant: what was appended meanwhile is dropped with the rest.
SwapNothing == EndCompaction(<<>>)
SwapTail == EndCompaction(compactor.tail)

-----------------------------------------------------------------------------
(* Rebuilds *)

\* schedule_sidecar_rebuild_job: every thought of the chain, a new digest.
Schedule ==
    /\ rebuild.pc = "idle" /\ generation < MaxRebuilds
    /\ generation' = generation + 1
    /\ rebuild' = [pc |-> "remove", digest |-> <<generation + 1, chainLength>>]
    /\ UNCHANGED <<disk, sidecar, queued, lock, compactor, loader, damaged,
                   crashes, faults>>

\* save_to_path, on the rebuild worker: the log goes first.
RemoveWal ==
    /\ rebuild.pc = "remove"
    /\ wal' = <<>>
    /\ rebuild' = [rebuild EXCEPT !.pc = "replace"]
    /\ UNCHANGED <<snapshot, version, chainLength, sidecar, queued, lock, compactor, loader,
                   damaged, bounds>>
ReplaceSnapshot ==
    /\ rebuild.pc = "replace"
    /\ snapshot' = rebuild.digest /\ version' = version + 1
    /\ damaged' = damaged \ {"race"}
    /\ rebuild' = [rebuild EXCEPT !.pc = "adopt"]
    /\ UNCHANGED <<wal, chainLength, sidecar, queued, lock, compactor, loader,
                   bounds>>

\* adopt_rebuilt_sidecar: a fresh log, and the records of the thoughts appended
\* meanwhile; the records of the old sidecar are dropped.  That a gap beyond
\* SIDECAR_ADOPT_CATCHUP_LIMIT is closed in several steps is left out.
AdoptWith(records) ==
    /\ rebuild.pc = "adopt" /\ lock = "free"
    /\ wal' = <<>>
    /\ damaged' = damaged \ {"write"}
    /\ sidecar' = <<Gen(rebuild.digest), chainLength>>
    /\ pending' = records \o
          [i \in 1 .. chainLength - Count(rebuild.digest) |->
              <<Gen(rebuild.digest), Count(rebuild.digest) + i>>]
    /\ rebuild' = NoSidecarRebuild
    /\ UNCHANGED <<snapshot, version, chainLength, wanted, batch, taken, lock,
                   compactor, loader, bounds>>
\* Variant: the records of the old sidecar stay queued.
AdoptKeepsQueue == AdoptWith(pending)
Adopt == AdoptWith(<<>>)

\* The worker's embedding model fails: the sidecar stays as it was.
RebuildFails ==
    /\ rebuild.pc = "remove" /\ faults < MaxSidecarFaults
    /\ rebuild' = NoSidecarRebuild
    /\ faults' = faults + 1
    /\ UNCHANGED <<disk, sidecar, queued, lock, compactor, loader, damaged,
                   generation, crashes>>

-----------------------------------------------------------------------------
(* load_from_path: again while the snapshot changes, at most three times. *)

Attempts == 3

\* What is on disk when the load starts, if nothing is in the way of reading it.
OnDisk ==
    IF rebuild.pc = "idle" /\ damaged = {} /\ ReplayLog(snapshot, wal) # Bad
      THEN Count(ReplayLog(snapshot, wal)) ELSE 0

ReaderOnly ==
    UNCHANGED <<disk, sidecar, queued, lock, compactor, rebuild, damaged,
                bounds>>
StartLoad ==
    /\ loader.pc = "idle"
    /\ loader' = [NoReader EXCEPT !.pc = "snapshot", !.stamp = version,
                                  !.floor = OnDisk]
    /\ ReaderOnly
LoadSnapshot ==
    /\ loader.pc = "snapshot"
    /\ loader' = [loader EXCEPT !.pc = "log", !.digest = snapshot]
    /\ ReaderOnly

\* The log is read without the lock: a record may be half written.  A log that
\* does not replay ends the load.
LoadLog ==
    /\ loader.pc = "log"
    /\ \E log \in {wal} \cup IF lock = "flush" /\ batch # <<>>
                              THEN {Append(wal, Stub), Append(wal, Torn)}
                              ELSE {} :
          LET digest == ReplayLog(loader.digest, log)
          IN  loader' = [loader EXCEPT
                           !.pc = IF digest = Bad THEN "done" ELSE "settle",
                           !.digest = digest]
    /\ ReaderOnly

Settled == loader.stamp = version
\* Variant: the load does not look at the snapshot again.
SettleAtOnce ==
    /\ loader.pc = "settle"
    /\ loader' = [loader EXCEPT !.pc = "done"]
    /\ ReaderOnly
Settle ==
    /\ loader.pc = "settle"
    /\ IF Settled \/ loader.attempt = Attempts
         THEN loader' = [loader EXCEPT !.pc = "done"]
         ELSE loader' = [loader EXCEPT !.pc = "snapshot", !.stamp = version,
                                       !.attempt = loader.attempt + 1]
    /\ ReaderOnly
EndLoad ==
    /\ loader.pc = "done"
    /\ loader' = NoReader
    /\ ReaderOnly

-----------------------------------------------------------------------------
\* The process dies, maybe within a write, and the chain is opened again:
\* manage_vector_sidecar takes what it can load if that is fresh.
Crash ==
    /\ crashes < MaxCrashes
    /\ crashes' = crashes + 1
    /\ \/ wal' = wal /\ damaged' = damaged
       \/ /\ lock = "flush" /\ batch # <<>>
          /\ wal' \in {Append(wal, Stub), Append(wal, Torn)}
          /\ damaged' = damaged \cup {"write"}
    /\ LET loaded == ReplayLog(snapshot, wal')
       IN  sidecar' = IF Fresh(loaded) THEN loaded ELSE NoDigest
    /\ pending' = <<>> /\ wanted' = "no" /\ batch' = <<>> /\ taken' = "no"
    /\ lock' = "free"
    /\ compactor' = NoCompaction /\ rebuild' = NoSidecarRebuild /\ loader' = NoReader
    /\ UNCHANGED <<snapshot, version, chainLength, generation, faults>>

-----------------------------------------------------------------------------
Flush == StartFlush \/ WriteRecord \/ WriteFails \/ EndFlush
Compact ==
    \/ ReadStamp \/ ReadSnapshot \/ CopyWal \/ Fold \/ Check \/ SwapSnapshot
    \/ SwapTail
Rebuild == Schedule \/ RemoveWal \/ ReplaceSnapshot \/ Adopt \/ RebuildFails
Load == StartLoad \/ LoadSnapshot \/ LoadLog \/ Settle \/ EndLoad

SidecarNext == IndexThought \/ Flush \/ Compact \/ Rebuild \/ Load \/ Crash

SidecarSpec == SidecarInit /\ [][SidecarNext]_sidecarVars

-----------------------------------------------------------------------------
(* Properties *)

\* Types; and a compaction, a rebuild or a load that is not under way leaves
\* nothing behind.
SidecarTypeOK ==
    /\ snapshot \in Digest /\ version \in Nat
    /\ wal \in Seq(Digest \cup {Stub, Torn})
    /\ chainLength \in 0 .. MaxEntries /\ sidecar \in Digest \cup {NoDigest}
    /\ pending \in Seq(Digest) /\ batch \in Seq(Digest)
    /\ wanted \in {"no", "yes"} /\ taken \in {"no", "yes"}
    /\ lock \in {"free", "flush", "compact"}
    /\ (lock = "compact") = (compactor.pc \in {"swap", "tail"})
    /\ batch # <<>> => lock = "flush"
    /\ damaged \subseteq {"write", "race"}

\* The files hold the sidecar in memory less what waits to be flushed, at every
\* moment of a flush or a compaction: whenever the process dies, a load gets
\* every record that was written.  Excepted are the times after a log write that
\* failed or was torn, until a new log is begun, and after a compaction that took
\* the place of a rebuilt snapshot, until the next one (damaged).
Whole ==
    ReplayLog(snapshot, wal) =
        <<Gen(sidecar), Count(sidecar) - Len(pending) - Len(batch)>>
DiskIsWhole ==
    rebuild.pc = "idle" /\ sidecar # NoDigest /\ damaged = {} => Whole

\* A load that runs while records are appended and folded returns every record
\* that was on disk when it began, unless the snapshot changed in each of its
\* three attempts, or a rebuild, which starts from nothing, took its place.
LoadIsComplete == [][
    generation = 0 /\ loader.attempt < Attempts
    /\ loader.pc = "settle" /\ loader'.pc = "done"
        => Count(loader.digest) >= loader.floor]_sidecarVars

=============================================================================
