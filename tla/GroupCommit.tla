----------------------------- MODULE GroupCommit -----------------------------
(***************************************************************************)
(* The binary chain file of MentisDB and the background writer that        *)
(* appends to it: BinaryStorageAdapter, WriterState and BackgroundWriter   *)
(* in lib.rs, with the part of MentisDb::append_thought that decides       *)
(* whether a record joins the chain in memory.                             *)
(*                                                                         *)
(* Two threads take part.  A caller holds the adapter's `state` mutex for  *)
(* the whole of a call, the wait for the acknowledgement included, so the  *)
(* callers that queue for the mutex have done nothing yet and one program  *)
(* counter, pc, stands for the call in progress.  The writer thread owns   *)
(* the file and shares with the caller the bounded command channel, the    *)
(* acknowledgement and the `background_error` slot.  Files fail, processes *)
(* die and, when PowerLoss holds, so do machines.                          *)
(*                                                                         *)
(* A record is the position it claims in the chain and the number of the   *)
(* append call that built it, so that two records claiming one position    *)
(* can be told apart.                                                      *)
(***************************************************************************)
EXTENDS Naturals, Sequences

CONSTANTS
    Capacity,       \* BACKGROUND_WRITE_QUEUE_CAPACITY
    FlushThreshold, \* FLUSH_THRESHOLD
    SyncCommits,    \* fsync_on_commit(): is MENTISDB_FSYNC set?
    PowerLoss,      \* may a crash take the operating system's cache with it?
    MaxAppends,     \* bound: append calls
    MaxFaults,      \* bound: failed file operations
    MaxCrashes      \* bound: crashes of the process or the machine

ASSUME CapacityAssumption == Capacity \in Nat \ {0}
ASSUME ThresholdAssumption == FlushThreshold \in Nat \ {0}
ASSUME SwitchAssumption == SyncCommits \in BOOLEAN /\ PowerLoss \in BOOLEAN
ASSUME BoundAssumption ==
    MaxAppends \in Nat /\ MaxFaults \in Nat /\ MaxCrashes \in Nat

VARIABLES
    file,      \* the complete records the operating system holds, in order
    tail,      \* "torn" when a partial record follows them
    stable,    \* how many of them are on stable storage
    process,   \* "up" while a running process has the chain open
    chain,     \* MentisDb::thoughts, the chain in memory
    mode,      \* WriterState::auto_flush, "strict" or "buffered"
    bgError,   \* the background_error slot, "set" once the writer failed
    queue,     \* the channel: commands sent and not yet received
    buffer,    \* write_buffer: records received and not yet written
    handle,    \* the file handle of the writer: "open" once it is
    wstate,    \* what the writer thread does next
    job,       \* the flush the writer works on
    op, pc,    \* the call in progress and its next step
    reply,     \* what the writer answered it
    acked,     \* history: the chain when a durable append last returned Ok
    flushed,   \* history: the chain when a flush last returned Ok
    attempts, faults, crashes  \* counters of the bounds

disk   == <<file, tail, stable>>
thread == <<buffer, handle, wstate, job>>
call   == <<op, pc, reply>>
bounds == <<attempts, faults, crashes>>
vars == <<disk, process, chain, mode, bgError, queue, thread, call,
          acked, flushed, bounds>>

Record == [index: Nat, id: Nat]
Command == [kind: {"append", "durable"}, record: Record]
             \cup [kind: {"flush", "shutdown"}]
Jobs == {"group", "threshold", "flush", "shutdown", "final"}
Ops  == {"append", "flush", "strict", "buffered", "close"}

\* s is a prefix of t.
Prefix(s, t) == Len(s) <= Len(t) /\ \A i \in DOMAIN s : s[i] = t[i]

Init ==
    /\ file = <<>> /\ tail = "clean" /\ stable = 0
    /\ process = "up" /\ chain = <<>> /\ mode = "strict" /\ bgError = "none"
    /\ queue = <<>> /\ buffer = <<>> /\ handle = "none"
    /\ wstate = "off" /\ job = "final"
    /\ op = "append" /\ pc = "idle" /\ reply = "none"
    /\ acked = <<>> /\ flushed = <<>>
    /\ attempts = 0 /\ faults = 0 /\ crashes = 0

-----------------------------------------------------------------------------
(* The caller: a call takes the state mutex and keeps it until it returns. *)

\* The record append_thought builds: the next position, prev_hash included.
NextRecord == [index |-> Len(chain) + 1, id |-> attempts]

\* Variant: a failed append stays in the chain in memory.
FailKeepsRecord ==
    /\ pc' = "idle"
    /\ chain' = IF op = "append" THEN Append(chain, NextRecord) ELSE chain
    /\ UNCHANGED <<mode, acked, flushed, process>>

\* The call returns Err: nothing it was going to do to the chain happens.
Fail ==
    /\ pc' = "idle"
    /\ UNCHANGED <<chain, mode, acked, flushed, process>>

\* The call returns Ok.  An append joins the chain in memory; only a durable
\* one promises that the record is in the file.
Return ==
    /\ pc' = "idle"
    /\ chain' = IF op = "append" THEN Append(chain, NextRecord) ELSE chain
    /\ acked' = IF op = "append" /\ mode = "strict" THEN chain' ELSE acked
    /\ flushed' = IF op = "flush" THEN chain ELSE flushed
    /\ mode' = IF op \in {"strict", "buffered"} THEN op ELSE mode
    /\ process' = IF op = "close" THEN "down" ELSE "up"

\* append_thought and set_auto_flush start the writer; flush, drop and the
\* switch from buffered to strict mode only talk to one that is there.
Begin(o) ==
    /\ process = "up" /\ pc = "idle"
    /\ o = "append" => attempts < MaxAppends
    /\ o = "buffered" => mode = "strict"
    /\ op' = o
    /\ attempts' = IF o = "append" THEN attempts + 1 ELSE attempts
    /\ pc' = IF o \in {"append", "buffered"} \/ (o = "strict" /\ mode = "strict")
               THEN "ensure"
               ELSE IF wstate = "off" THEN "return" ELSE "send"
    /\ reply' = "none"
    /\ UNCHANGED <<disk, process, chain, mode, bgError, queue, thread,
                   acked, flushed, faults, crashes>>

\* ensure_background_writer: the first append of an adapter repairs the torn
\* tail, which syncs the file, and starts the writer thread.
EnsureWriter ==
    /\ pc = "ensure"
    /\ pc' = IF op = "append" THEN "check" ELSE "return"
    /\ IF wstate # "off"
         THEN UNCHANGED <<tail, stable, bgError, queue, thread>>
         ELSE /\ bgError' = "none"
              /\ tail' = "clean"
              /\ stable' = IF tail = "torn" THEN Len(file) ELSE stable
              /\ queue' = <<>> /\ buffer' = <<>> /\ handle' = "none"
              /\ wstate' = "recv"
              /\ UNCHANGED job
    /\ UNCHANGED <<file, process, chain, mode, op, reply, acked, flushed,
                   bounds>>

\* The repair fails, before or after it cut the tail off.
SpawnFails ==
    /\ pc = "ensure" /\ wstate = "off" /\ faults < MaxFaults
    /\ faults' = faults + 1
    /\ bgError' = "none"
    /\ tail' \in {tail, "clean"}
    /\ Fail
    /\ UNCHANGED <<file, stable, queue, thread, op, reply, attempts, crashes>>

\* BackgroundWriter::append refuses once the writer has failed.
CheckError ==
    /\ pc = "check"
    /\ IF bgError = "set"
         THEN Fail
         ELSE /\ pc' = "send"
              /\ UNCHANGED <<chain, mode, acked, flushed, process>>
    /\ UNCHANGED <<disk, bgError, queue, thread, op, reply, bounds>>

CommandOf(o) ==
    CASE o = "append" -> [kind   |-> IF mode = "strict" THEN "durable" ELSE "append",
                          record |-> NextRecord]
      [] o = "close" -> [kind |-> "shutdown"]
      [] OTHER -> [kind |-> "flush"]

\* SyncSender::send blocks while the channel is full.  A buffered append
\* returns as soon as its command is queued; everything else waits.
Send ==
    /\ pc = "send" /\ wstate # "gone" /\ Len(queue) < Capacity
    /\ queue' = Append(queue, CommandOf(op))
    /\ IF op = "append" /\ mode = "buffered"
         THEN Return
         ELSE /\ pc' = "await"
              /\ UNCHANGED <<chain, mode, acked, flushed, process>>
    /\ UNCHANGED <<disk, bgError, thread, op, reply, bounds>>

\* The receiver was dropped: send fails.  Drop ignores the error.
SendFails ==
    /\ pc = "send" /\ wstate = "gone"
    /\ IF op = "close" THEN Return ELSE Fail
    /\ UNCHANGED <<disk, bgError, queue, thread, op, reply, bounds>>

\* Variant: a dropped acknowledgement counts as success.
AwaitForgives ==
    /\ pc = "await"
    /\ reply # "none" \/ wstate = "gone"
    /\ op = "close" => wstate = "gone"
    /\ IF reply # "err" \/ op = "close" THEN Return ELSE Fail
    /\ UNCHANGED <<disk, bgError, queue, thread, op, reply, bounds>>

\* Variant: the caller does not notice that the writer is gone.
AwaitForever ==
    /\ pc = "await" /\ reply # "none"
    /\ op = "close" => wstate = "gone"
    /\ IF reply = "ok" \/ op = "close" THEN Return ELSE Fail
    /\ UNCHANGED <<disk, bgError, queue, thread, op, reply, bounds>>

\* The acknowledgement arrived, or its sender was dropped with the channel.
\* shutdown joins the writer thread before it returns.
Await ==
    /\ pc = "await"
    /\ reply # "none" \/ wstate = "gone"
    /\ op = "close" => wstate = "gone"
    /\ IF reply = "ok" \/ op = "close" THEN Return ELSE Fail
    /\ UNCHANGED <<disk, bgError, queue, thread, op, reply, bounds>>

\* The steps after which a call returns without having used the channel.
ReturnNow ==
    /\ pc = "return"
    /\ Return
    /\ UNCHANGED <<disk, bgError, queue, thread, op, reply, bounds>>

Caller == EnsureWriter \/ CheckError \/ Send \/ SendFails \/ Await \/ ReturnNow

-----------------------------------------------------------------------------
(* The writer thread. *)

\* Receive a buffered append; the batch is written at the threshold.
TakeAppend ==
    /\ wstate = "recv" /\ queue # <<>> /\ Head(queue).kind = "append"
    /\ queue' = Tail(queue)
    /\ buffer' = Append(buffer, Head(queue).record)
    /\ IF Len(buffer) + 1 >= FlushThreshold
         THEN wstate' = "flush" /\ job' = "threshold"
         ELSE UNCHANGED <<wstate, job>>
    /\ UNCHANGED <<disk, process, chain, mode, bgError, handle, call, acked,
                   flushed, bounds>>

\* Receive a durable append and look for more work to share its group commit.
TakeDurable ==
    /\ wstate = "recv" /\ queue # <<>> /\ Head(queue).kind = "durable"
    /\ queue' = Tail(queue)
    /\ buffer' = Append(buffer, Head(queue).record)
    /\ wstate' = "gather"
    /\ UNCHANGED <<disk, process, chain, mode, bgError, handle, job, call,
                   acked, flushed, bounds>>

\* try_recv finds the channel empty and the group is closed.  The branches
\* that receive another command are never taken: NobodyJoinsAGroup says why.
CloseGroup ==
    /\ wstate = "gather" /\ queue = <<>>
    /\ wstate' = "flush" /\ job' = "group"
    /\ UNCHANGED <<disk, process, chain, mode, bgError, queue, buffer, handle,
                   call, acked, flushed, bounds>>

\* Receive an explicit flush or the shutdown of the adapter.
TakeControl ==
    /\ wstate = "recv" /\ queue # <<>>
    /\ Head(queue).kind \in {"flush", "shutdown"}
    /\ queue' = Tail(queue)
    /\ wstate' = "flush" /\ job' = Head(queue).kind
    /\ UNCHANGED <<disk, process, chain, mode, bgError, buffer, handle, call,
                   acked, flushed, bounds>>

\* Variant: a group commit never syncs.
SyncsOnRequest == job \in {"flush", "shutdown", "final"}

\* The `sync` argument of flush_background_buffer at each of its call sites.
Syncs == job \in {"flush", "shutdown", "final"} \/ (job = "group" /\ SyncCommits)

\* What the loop does with the result of a flush: record the error, answer the
\* caller, and go on, or leave the loop for the final flush, or end.
Finish(ok) ==
    /\ bgError' = IF ok THEN bgError ELSE "set"
    /\ reply' = IF job \in {"group", "flush", "shutdown"}
                  THEN (IF ok THEN "ok" ELSE "err") ELSE reply
    /\ \/ job = "final" /\ wstate' = "gone" /\ queue' = <<>> /\ UNCHANGED job
       \/ /\ job \in {"group", "threshold", "flush"} /\ ok
          /\ wstate' = "recv" /\ UNCHANGED <<queue, job>>
       \/ /\ job = "shutdown" \/ (job # "final" /\ ~ok)
          /\ wstate' = "flush" /\ job' = "final" /\ UNCHANGED queue

\* An empty buffer returns before anything is written or synced.
FlushNothing ==
    /\ wstate = "flush" /\ buffer = <<>>
    /\ Finish(TRUE)
    /\ UNCHANGED <<disk, process, chain, mode, buffer, handle, op, pc, acked,
                   flushed, bounds>>

\* open_append_writer fails: the early return leaves the buffer as it is.
OpenFails ==
    /\ wstate = "flush" /\ buffer # <<>> /\ handle = "none" /\ faults < MaxFaults
    /\ faults' = faults + 1
    /\ Finish(FALSE)
    /\ UNCHANGED <<disk, process, chain, mode, buffer, handle, op, pc, acked,
                   flushed, attempts, crashes>>

\* commit_group: the whole buffer reaches the operating system.
WriteOk ==
    /\ wstate = "flush" /\ buffer # <<>>
    /\ file' = file \o buffer
    /\ buffer' = <<>> /\ handle' = "open"
    /\ IF Syncs THEN wstate' = "sync" /\ UNCHANGED <<bgError, reply, queue, job>>
                ELSE Finish(TRUE)
    /\ UNCHANGED <<tail, stable, process, chain, mode, op, pc, acked, flushed,
                   bounds>>

\* commit_group: the write fails, and rolling it back may fail too and leave
\* n whole records and perhaps a torn one.
WriteFails ==
    /\ wstate = "flush" /\ buffer # <<>> /\ faults < MaxFaults
    /\ faults' = faults + 1
    /\ \E n \in 0..(Len(buffer) - 1) :
         /\ file' = file \o SubSeq(buffer, 1, n)
         /\ tail' \in {"clean", "torn"}
    /\ buffer' = <<>> /\ handle' = "open"
    /\ Finish(FALSE)
    /\ UNCHANGED <<stable, process, chain, mode, op, pc, acked, flushed,
                   attempts, crashes>>

SyncOk ==
    /\ wstate = "sync"
    /\ stable' = Len(file)
    /\ Finish(TRUE)
    /\ UNCHANGED <<file, tail, process, chain, mode, buffer, handle, op, pc,
                   acked, flushed, bounds>>

SyncFails ==
    /\ wstate = "sync" /\ faults < MaxFaults
    /\ faults' = faults + 1
    /\ Finish(FALSE)
    /\ UNCHANGED <<disk, process, chain, mode, buffer, handle, op, pc, acked,
                   flushed, attempts, crashes>>

WriterWorks == TakeAppend \/ TakeDurable \/ CloseGroup \/ TakeControl
                 \/ FlushNothing \/ WriteOk \/ SyncOk
FileFails == OpenFails \/ WriteFails \/ SyncFails \/ SpawnFails

-----------------------------------------------------------------------------
(* Crashes and reopening. *)

\* Nothing of the process is left but what the disk holds.
Down ==
    /\ process' = "down"
    /\ pc' = "idle"
    /\ queue' = <<>> /\ buffer' = <<>> /\ wstate' = "off"

\* The process dies, perhaps in the middle of a write.
Crash ==
    /\ process = "up" /\ crashes < MaxCrashes
    /\ crashes' = crashes + 1
    /\ \/ UNCHANGED <<file, tail>>
       \/ /\ wstate = "flush" /\ buffer # <<>>
          /\ \E n \in 0..Len(buffer) : file' = file \o SubSeq(buffer, 1, n)
          /\ tail' \in {"clean", "torn"}
    /\ Down
    /\ UNCHANGED <<stable, chain, mode, bgError, handle, job, op, reply,
                   acked, flushed, attempts, faults>>

\* The machine dies: any part of what was not synced may be lost.
PowerFails ==
    /\ PowerLoss /\ process = "up" /\ crashes < MaxCrashes
    /\ crashes' = crashes + 1
    /\ \E n \in stable..Len(file) :
         /\ file' = SubSeq(file, 1, n)
         /\ stable' = n
    /\ tail' \in {"clean", "torn"}
    /\ Down
    /\ UNCHANGED <<chain, mode, bgError, handle, job, op, reply, acked,
                   flushed, attempts, faults>>

\* open_with_storage loads the complete records and ignores a torn tail.
Open ==
    /\ process = "down"
    /\ process' = "up"
    /\ chain' = file
    /\ mode' = "strict" /\ bgError' = "none"
    /\ wstate' = "off" /\ queue' = <<>> /\ buffer' = <<>>
    /\ pc' = "idle"
    /\ UNCHANGED <<disk, handle, job, op, reply, acked, flushed, bounds>>

Next ==
    \/ \E o \in Ops : Begin(o)
    \/ Caller
    \/ WriterWorks
    \/ FileFails
    \/ Crash
    \/ PowerFails
    \/ Open

Spec == Init /\ [][Next]_vars
\* A thread that can go on does; faults and new calls need not happen.
FairSpec == Spec /\ WF_vars(Caller) /\ WF_vars(WriterWorks)

-----------------------------------------------------------------------------
(* What must hold. *)

\* The variables range over the values the code gives them.
TypeOK ==
    /\ file \in Seq(Record) /\ tail \in {"clean", "torn"} /\ stable \in 0..Len(file)
    /\ process \in {"up", "down"} /\ chain \in Seq(Record)
    /\ mode \in {"strict", "buffered"} /\ bgError \in {"none", "set"}
    /\ queue \in Seq(Command) /\ Len(queue) <= Capacity
    /\ buffer \in Seq(Record) /\ handle \in {"none", "open"}
    /\ wstate \in {"off", "recv", "gather", "flush", "sync", "gone"}
    /\ job \in Jobs /\ op \in Ops
    /\ pc \in {"idle", "ensure", "check", "send", "await", "return"}
    /\ reply \in {"none", "ok", "err"}
    /\ acked \in Seq(Record) /\ flushed \in Seq(Record)
    /\ attempts \in 0..MaxAppends
    /\ faults \in 0..MaxFaults /\ crashes \in 0..MaxCrashes

\* The records of the file claim the positions they are at: none was skipped,
\* written twice or written after one that was lost.  A chain file that breaks
\* this is refused when it is opened.
FileContiguous == \A i \in DOMAIN file : file[i].index = i

\* Where the file and the chain in memory both have a record it is the same
\* one, so a restart never replaces a thought a reader has already seen.
ChainAgreesWithFile ==
    \A i \in DOMAIN file \cap DOMAIN chain : file[i] = chain[i]

\* Whatever a durable append acknowledged is in the file for good: a process
\* crash never loses it, and a power failure does not under MENTISDB_FSYNC.
AckKept == (PowerLoss => SyncCommits) => Prefix(acked, file)

\* A flush that returned Ok covers every append before it, in both modes: only
\* a power failure takes one back, never a crash of the process, a failed write
\* or the repair of a torn tail.
FlushKept ==
    [][Prefix(flushed, file) /\ ~Prefix(flushed', file') => PowerFails]_vars

\* A record the file has and the chain in memory does not, because its append
\* was reported as failed, is the last one, and its writer accepts no other.
GhostStopsTheWriter ==
    process = "up" =>
      /\ Len(file) <= Len(chain) + 1
      /\ Len(file) > Len(chain) => bgError = "set" \/ pc # "idle"

\* The channel is empty while a durable append looks for others to share its
\* group commit: the mutex that its caller holds keeps them out, so a group
\* never has two records and never ends with a flush or a shutdown.
NobodyJoinsAGroup == wstate = "gather" => queue = <<>>

\* Every call returns, also when the writer dies with the call in its queue.
CallsReturn == pc # "idle" ~> pc = "idle"

\* How many commands in the channel carry a record: all but a flush or a
\* shutdown, and that is the last one, since its caller waits.
Carrying ==
    Len(queue) - IF queue # <<>> /\ queue[Len(queue)].kind \in {"flush", "shutdown"} THEN 1 ELSE 0

\* The records between the caller and the file.  Once the writer is on its way
\* out it reads no further command, and when it is gone the rest is lost.
Pending ==
    CASE wstate \in {"off", "gone"} -> <<>>
      [] wstate \in {"flush", "sync"} /\ job = "final" -> buffer
      [] OTHER -> buffer \o [i \in 1..Carrying |-> queue[i].record]

\* The storage of a chain is an append-only log that keeps what it promised.
Log == INSTANCE AppendLog WITH
         Record <- [index: 1..(MaxAppends + 1), id: 0..MaxAppends],
         log <- file \o Pending,
         promised <- acked
ImplementsAppendLog == Log!Spec

\* README.md says that flushes "always fsync": what a flush covered survives
\* a power failure.
FlushSurvivesPowerLoss == Prefix(flushed, file)

=============================================================================
