-------------------------- MODULE GroupCommitProofs --------------------------
(***************************************************************************)
(* Proofs about GroupCommit, for every capacity, threshold and bound:      *)
(* - the inductive invariant IInv and the safety properties it implies;    *)
(*   there is one lemma per action, and the ends of a flush (Finish) and   *)
(*   of a call, which several actions share, have lemmas of their own;     *)
(* - what the storage of a chain promises: only a power failure takes a    *)
(*   flush back, and GroupCommit implements AppendLog.                     *)
(* And about ChainQueries, which keeps its structures next to that chain,  *)
(* for every set of drafts, edits and queries, every window, page size and *)
(* bound: what is kept is what would be made anew, queries answer what a   *)
(* scan would, and pages skip and repeat nothing.                          *)
(***************************************************************************)
EXTENDS GroupCommit, ChainQueries, Integers, TLAPS,
        FiniteSetTheorems, SequenceTheorems, NaturalsInduction, WellFoundedInduction

(* The inductive invariant. *)

\* The writer will still read its channel.
Reading ==
    \/ wstate \in {"recv", "gather"}
    \/ wstate \in {"flush", "sync"} /\ job # "final"

\* The writer works on the command of the call that waits.
Answering ==
    \/ wstate = "gather"
    \/ wstate \in {"flush", "sync"} /\ job \in {"group", "flush", "shutdown"}

\* The command of the call that waits is in the channel, behind everything.
InQueue == queue # <<>> /\ queue[Len(queue)].kind # "append"

\* How many records the file will have when the buffer is written.
Received == Len(file) + Len(buffer)

\* Only the last command of the channel has a caller, who waits.
OneWaits ==
    /\ \A i \in DOMAIN queue : queue[i].kind # "append" => i = Len(queue)
    /\ InQueue => pc = "await" /\ reply = "none"

\* What the caller is doing at each of its steps.
CallerStep ==
    /\ pc = "await" /\ op = "append" => mode = "strict"
    /\ pc \in {"check", "send"} /\ op = "append" => wstate # "off"
    /\ pc = "send" => wstate # "off"
    /\ pc = "check" => op = "append"
    /\ pc = "return" => op # "append" /\ (op = "close" => wstate = "off")
    /\ pc = "ensure" => op \in {"append", "strict", "buffered"}
    /\ pc = "await" => wstate # "off"
    /\ pc \notin {"idle", "await"} => reply = "none"
    /\ pc # "idle" => process = "up"

\* While the channel is read, the command of the call that waits is in the
\* channel, or in the hands of the writer, or answered with Ok.
AskedFor ==
    Reading =>
      /\ process = "up" /\ bgError = "none"
      /\ pc # "await" => ~Answering
      /\ pc = "await" =>
           \/ reply = "none" /\ InQueue /\ ~Answering
           \/ reply = "none" /\ queue = <<>> /\ Answering
           \/ reply = "ok" /\ queue = <<>> /\ wstate = "recv"
      /\ InQueue => queue[Len(queue)] = CommandOf(op)
      /\ wstate = "gather" => op = "append"
      /\ Answering /\ wstate # "gather" =>
           /\ job = "group" <=> op = "append"
           /\ job = "shutdown" <=> op = "close"

\* A writer that stops reading has failed or was asked to stop, and no durable
\* append learns anything good from it.
Stopping ==
    /\ ~Reading /\ pc = "await" /\ op = "append" => reply # "ok"
    /\ process = "up" /\ ~Reading /\ wstate # "off" =>
         bgError = "set" \/ (op = "close" /\ pc = "await")

\* Without a writer nothing is under way.
Quiet ==
    /\ wstate = "off" /\ process = "up" => Len(chain) = Len(file)
    /\ wstate = "off" => buffer = <<>>
    /\ wstate \in {"off", "gone"} => queue = <<>>

\* While the channel is read, the chain in memory is exactly as long as the
\* file will be, up to the record of a durable append in progress.
Counted ==
    Reading =>
      /\ InQueue => Len(chain) + 1 = Received + Len(queue)
      /\ ~InQueue /\ pc = "await" /\ op = "append" =>
           Len(chain) + 1 = Received /\ queue = <<>>
      /\ ~InQueue /\ ~(pc = "await" /\ op = "append") =>
           Len(chain) = Received + Len(queue)

\* Every record is at the position it claims.
Numbered ==
    /\ \A i \in DOMAIN chain : chain[i].index = i
    /\ \A i \in DOMAIN file : file[i].index = i
    /\ \A i \in DOMAIN buffer : buffer[i].index = Len(file) + i

\* The file, the buffer and the channel have the record of the chain in memory
\* at every position that it has.
FileAgrees == \A i \in DOMAIN file : i <= Len(chain) => file[i] = chain[i]
BufferAgrees ==
    \A i \in DOMAIN buffer : Len(file) + i <= Len(chain) => buffer[i] = chain[Len(file) + i]
QueueAgrees ==
    Reading => \A i \in DOMAIN queue :
      queue[i].kind = "append" => queue[i].record = chain[Received + i]

\* The record of the durable append the writer works on is the next one, at
\* the end of the buffer and then of the file.
NextAgrees ==
    Reading /\ ~InQueue /\ pc = "await" /\ op = "append" =>
      /\ wstate \in {"gather", "flush"} =>
           buffer # <<>> /\ buffer[Len(buffer)] = NextRecord
      /\ wstate \in {"recv", "sync"} =>
           buffer = <<>> /\ file # <<>> /\ file[Len(file)] = NextRecord

\* A record the chain in memory does not have ends the life of its writer.
Ghost ==
    process = "up" /\ Received > Len(chain) =>
      /\ Received = Len(chain) + 1
      /\ \/ pc = "await" /\ op = "append"
         \/ bgError = "set" /\ wstate # "off" /\ ~(pc = "send" /\ op = "append")

\* What was acknowledged is in the file and, under MENTISDB_FSYNC, synced.
Durable == PowerLoss => SyncCommits
AckedInFile == Durable => Prefix(acked, file)
AckedSynced == Durable /\ SyncCommits => Len(acked) <= stable
ReplySynced ==
    Durable /\ SyncCommits /\ Reading /\ pc = "await" /\ op = "append" /\ reply = "ok"
      => stable = Len(file)

IInv ==
    /\ TypeOK
    /\ OneWaits /\ CallerStep /\ AskedFor /\ Stopping
    /\ Quiet /\ Counted
    /\ Numbered /\ FileAgrees /\ BufferAgrees /\ QueueAgrees /\ NextAgrees
    /\ Ghost /\ AckedInFile /\ AckedSynced /\ ReplySynced
-----------------------------------------------------------------------------
(* Type correctness. *)

LEMMA NextRecordType ==
    ASSUME TypeOK
    PROVE  NextRecord \in Record
BY DEF TypeOK, NextRecord, Record

LEMMA CommandType ==
    ASSUME TypeOK
    PROVE  CommandOf(op) \in Command
BY NextRecordType DEF TypeOK, CommandOf, Command, Ops

LEMMA TypeInit == Init => TypeOK
BY CapacityAssumption, BoundAssumption DEF Init, TypeOK, Jobs, Ops

\* What the end of a call may leave in the variables it assigns.
LEMMA ReturnType ==
    ASSUME TypeOK, Return
    PROVE  /\ chain' \in Seq(Record) /\ acked' \in Seq(Record)
           /\ flushed' \in Seq(Record) /\ mode' \in {"strict", "buffered"}
           /\ process' \in {"up", "down"} /\ pc' = "idle"
<1>1. chain' \in Seq(Record)
  <2>1. CASE op = "append"
    <3>1. chain' = Append(chain, NextRecord)
      BY <2>1 DEF Return
    <3>2. QED
      BY <3>1, NextRecordType DEF TypeOK
  <2>2. CASE op # "append"
    BY <2>2 DEF TypeOK, Return
  <2>3. QED
    BY <2>1, <2>2
<1>2. acked' \in Seq(Record)
  <2>1. acked' = chain' \/ acked' = acked
    BY DEF Return
  <2>2. QED
    BY <2>1, <1>1 DEF TypeOK
<1>3. flushed' \in Seq(Record)
  <2>1. flushed' = chain \/ flushed' = flushed
    BY DEF Return
  <2>2. QED
    BY <2>1 DEF TypeOK
<1>4. QED
  BY <1>1, <1>2, <1>3 DEF TypeOK, Return

\* A call that ends, with or without effect.
LEMMA EndType ==
    ASSUME TypeOK, Return \/ Fail,
           UNCHANGED <<disk, bgError, queue, thread, op, reply, bounds>>
    PROVE  TypeOK'
<1>1. CASE Return
  BY <1>1, ReturnType DEF TypeOK, disk, thread, bounds
<1>2. CASE Fail
  BY <1>2 DEF TypeOK, disk, thread, bounds, Fail
<1>3. QED
  BY <1>1, <1>2

\* What the end of a flush may leave in the variables it assigns.
LEMMA FinishType ==
    ASSUME TypeOK, Finish(TRUE) \/ Finish(FALSE)
    PROVE  /\ queue' \in Seq(Command) /\ Len(queue') <= Capacity
           /\ bgError' \in {"none", "set"} /\ job' \in Jobs
           /\ wstate' \in {"recv", "flush", "gone"}
           /\ reply' \in {"none", "ok", "err"}
<1>1. queue' = queue \/ queue' = <<>>
  BY DEF Finish
<1>2. queue' \in Seq(Command) /\ Len(queue') <= Capacity
  <2>1. CASE queue' = queue
    BY <2>1 DEF TypeOK
  <2>2. CASE queue' = <<>>
    BY <2>2, CapacityAssumption
  <2>3. QED
    BY <1>1, <2>1, <2>2
<1>3. bgError' \in {"none", "set"} /\ reply' \in {"none", "ok", "err"}
  BY DEF TypeOK, Finish
<1>4. job' \in Jobs /\ wstate' \in {"recv", "flush", "gone"}
  BY DEF TypeOK, Finish, Jobs
<1>5. QED
  BY <1>2, <1>3, <1>4

\* The channel after its first command was received.
LEMMA ReceiveType ==
    ASSUME TypeOK, queue # <<>>
    PROVE  /\ Tail(queue) \in Seq(Command) /\ Len(Tail(queue)) <= Capacity
           /\ Head(queue) \in Command
BY CapacityAssumption DEF TypeOK

LEMMA TypeNext == TypeOK /\ [Next]_vars => TypeOK'
<1> SUFFICES ASSUME TypeOK, [Next]_vars PROVE TypeOK'
  OBVIOUS
<1> USE BoundAssumption DEF disk, thread, call, bounds
<1>1. ASSUME NEW o \in Ops, Begin(o) PROVE TypeOK'
  BY <1>1 DEF TypeOK, Begin
<1>2. CASE EnsureWriter
  <2>1. CASE wstate # "off"
    BY <1>2, <2>1 DEF TypeOK, EnsureWriter
  <2>2. CASE wstate = "off"
    <3>1. stable' \in 0..Len(file) /\ tail' = "clean" /\ UNCHANGED file
      BY <1>2, <2>2 DEF TypeOK, EnsureWriter
    <3>2. QED
      BY <1>2, <2>2, <3>1, CapacityAssumption DEF TypeOK, EnsureWriter
  <2>3. QED
    BY <2>1, <2>2
<1>3. CASE CheckError
  <2>1. CASE bgError = "set"
    BY <1>3, <2>1, EndType DEF CheckError
  <2>2. CASE bgError # "set"
    BY <1>3, <2>2 DEF TypeOK, CheckError
  <2>3. QED
    BY <2>1, <2>2
<1>4. CASE Send
  <2>1. queue' \in Seq(Command) /\ Len(queue') <= Capacity
    BY <1>4, CommandType, CapacityAssumption DEF TypeOK, Send
  <2>2. CASE Return
    BY <1>4, <2>1, <2>2, ReturnType DEF TypeOK, Send
  <2>3. CASE pc' = "await" /\ UNCHANGED <<chain, mode, acked, flushed, process>>
    BY <1>4, <2>1, <2>3 DEF TypeOK, Send
  <2>4. QED
    BY <1>4, <2>2, <2>3 DEF Send
<1>5. CASE SendFails
  BY <1>5, EndType DEF SendFails
<1>6. CASE Await
  BY <1>6, EndType DEF Await
<1>7. CASE ReturnNow
  BY <1>7, EndType DEF ReturnNow
<1>8. CASE TakeAppend
  <2>1. Head(queue).record \in Record
    BY <1>8, ReceiveType DEF TakeAppend, Command
  <2>2. buffer' \in Seq(Record)
    BY <1>8, <2>1 DEF TypeOK, TakeAppend
  <2>3. wstate' \in {"recv", "flush"} /\ job' \in Jobs
    BY <1>8 DEF TypeOK, TakeAppend, Jobs
  <2>4. QED
    BY <1>8, <2>2, <2>3, ReceiveType DEF TypeOK, TakeAppend
<1>9. CASE TakeDurable
  <2>1. Head(queue).record \in Record
    BY <1>9, ReceiveType DEF TakeDurable, Command
  <2>2. buffer' \in Seq(Record)
    BY <1>9, <2>1 DEF TypeOK, TakeDurable
  <2>3. QED
    BY <1>9, <2>2, ReceiveType DEF TypeOK, TakeDurable
<1>10. CASE CloseGroup
  BY <1>10 DEF TypeOK, CloseGroup, Jobs
<1>11. CASE TakeControl
  BY <1>11, ReceiveType DEF TypeOK, TakeControl, Jobs
<1>12. CASE FlushNothing
  BY <1>12, FinishType DEF TypeOK, FlushNothing
<1>13. CASE WriteOk
  <2>1. file' \in Seq(Record) /\ stable' \in 0..Len(file') /\ buffer' \in Seq(Record)
    BY <1>13 DEF TypeOK, WriteOk
  <2>2. CASE Syncs
    BY <1>13, <2>1, <2>2 DEF TypeOK, WriteOk
  <2>3. CASE ~Syncs
    BY <1>13, <2>1, <2>3, FinishType DEF TypeOK, WriteOk
  <2>4. QED
    BY <2>2, <2>3
<1>14. CASE SyncOk
  BY <1>14, FinishType DEF TypeOK, SyncOk
<1>15. CASE OpenFails
  BY <1>15, FinishType DEF TypeOK, OpenFails
<1>16. CASE WriteFails
  <2>1. file' \in Seq(Record) /\ stable' \in 0..Len(file') /\ buffer' \in Seq(Record)
    BY <1>16 DEF TypeOK, WriteFails
  <2>2. QED
    BY <1>16, <2>1, FinishType DEF TypeOK, WriteFails
<1>17. CASE SyncFails
  BY <1>17, FinishType DEF TypeOK, SyncFails
<1>18. CASE SpawnFails
  BY <1>18 DEF TypeOK, SpawnFails, Fail
<1>19. CASE Crash
  <2>1. file' \in Seq(Record) /\ stable' \in 0..Len(file') /\ tail' \in {"clean", "torn"}
    <3>1. CASE UNCHANGED <<file, tail>>
      BY <1>19, <3>1 DEF TypeOK, Crash
    <3>2. CASE \E n \in 0..Len(buffer) : file' = file \o SubSeq(buffer, 1, n)
      BY <1>19, <3>2 DEF TypeOK, Crash
    <3>3. QED
      BY <1>19, <3>1, <3>2 DEF Crash
  <2>2. QED
    BY <1>19, <2>1, CapacityAssumption DEF TypeOK, Crash, Down
<1>20. CASE PowerFails
  <2>1. file' \in Seq(Record) /\ stable' \in 0..Len(file')
    BY <1>20 DEF TypeOK, PowerFails
  <2>2. QED
    BY <1>20, <2>1, CapacityAssumption DEF TypeOK, PowerFails, Down
<1>21. CASE Open
  BY <1>21, CapacityAssumption DEF TypeOK, Open
<1>22. CASE UNCHANGED vars
  BY <1>22 DEF TypeOK, vars
<1>23. QED
  BY <1>1, <1>2, <1>3, <1>4, <1>5, <1>6, <1>7, <1>8, <1>9, <1>10, <1>11,
     <1>12, <1>13, <1>14, <1>15, <1>16, <1>17, <1>18, <1>19, <1>20, <1>21,
     <1>22 DEF Next, Caller, WriterWorks, FileFails

\* The variables always hold the values the code gives them: the queue stays
\* within its bound and no more is synced than the file has.
THEOREM TypeCorrect == Spec => []TypeOK
<1>1. Init => TypeOK
  BY TypeInit
<1>2. TypeOK /\ [Next]_vars => TypeOK'
  BY TypeNext
<1>3. QED
  BY <1>1, <1>2, PTL DEF Spec

-----------------------------------------------------------------------------
(* The safety properties. *)

\* The length and the domain of a sequence.
LEMMA EmptyLen ==
    ASSUME NEW S, NEW s \in Seq(S)
    PROVE  /\ Len(s) \in Nat /\ DOMAIN s = 1..Len(s)
           /\ s = <<>> <=> Len(s) = 0
OBVIOUS

\* What the type invariant says of the sequences and their lengths.
LEMMA Sequences ==
    ASSUME TypeOK
    PROVE  /\ file \in Seq(Record) /\ chain \in Seq(Record) /\ buffer \in Seq(Record)
           /\ queue \in Seq(Command) /\ acked \in Seq(Record)
           /\ Len(file) \in Nat /\ DOMAIN file = 1..Len(file) /\ (file = <<>> <=> Len(file) = 0)
           /\ Len(chain) \in Nat /\ DOMAIN chain = 1..Len(chain)
           /\ Len(buffer) \in Nat /\ DOMAIN buffer = 1..Len(buffer) /\ (buffer = <<>> <=> Len(buffer) = 0)
           /\ Len(queue) \in Nat /\ DOMAIN queue = 1..Len(queue) /\ (queue = <<>> <=> Len(queue) = 0)
           /\ Len(acked) \in Nat /\ DOMAIN acked = 1..Len(acked)
           /\ stable \in 0..Len(file)
BY EmptyLen DEF TypeOK

\* A sequence without its first element.
LEMMA TailShape ==
    ASSUME NEW S, NEW s \in Seq(S), s # <<>>
    PROVE  /\ Head(s) = s[1] /\ s[1] \in S
           /\ Tail(s) \in Seq(S) /\ Len(Tail(s)) = Len(s) - 1
           /\ \A i \in 1..(Len(s) - 1) : Tail(s)[i] = s[i + 1]
OBVIOUS

\* A sequence with an element added at its end.
LEMMA AppendShape ==
    ASSUME NEW S, NEW s \in Seq(S), NEW x \in S
    PROVE  /\ Append(s, x) \in Seq(S) /\ Len(Append(s, x)) = Len(s) + 1
           /\ \A i \in 1..Len(s) : Append(s, x)[i] = s[i]
           /\ Append(s, x)[Len(s) + 1] = x
           /\ Append(s, x) # <<>>
OBVIOUS

\* A buffered append moves from the head of the channel to the buffer.
LEMMA TakeAppendStep ==
    ASSUME IInv, TypeOK', TakeAppend PROVE IInv'
<1>a. TypeOK
  BY DEF IInv
<1>0. /\ wstate = "recv" /\ queue # <<>> /\ queue[1].kind = "append"
      /\ queue' = Tail(queue) /\ buffer' = Append(buffer, queue[1].record)
      /\ wstate' \in {"recv", "flush"} /\ (wstate' = "flush" => job' = "threshold")
      /\ UNCHANGED <<file, stable, process, chain, mode, bgError, op, pc, reply, acked, attempts>>
  BY TailShape DEF TakeAppend, IInv, TypeOK, disk, call, bounds
<1>1. queue[1] \in Command /\ queue[1].record \in Record
  BY <1>0, TailShape DEF IInv, TypeOK, Command
<1>2. /\ Len(queue) \in Nat \ {0} /\ DOMAIN queue = 1..Len(queue)
      /\ Len(queue') = Len(queue) - 1 /\ DOMAIN queue' = 1..(Len(queue) - 1)
      /\ \A i \in 1..(Len(queue) - 1) : queue'[i] = queue[i + 1]
      /\ queue' = <<>> <=> Len(queue) = 1
      /\ queue = <<>> <=> Len(queue) = 0
  <2>1. Len(queue') = Len(queue) - 1 /\ queue' \in Seq(Command) /\ queue \in Seq(Command)
    BY <1>a, <1>0, Sequences, TailShape
  <2>2. \A i \in 1..(Len(queue) - 1) : queue'[i] = queue[i + 1]
    BY <1>0, <2>1, TailShape
  <2>3. QED
    BY <1>0, <2>1, <2>2, EmptyLen
<1>3. /\ Len(buffer) \in Nat /\ DOMAIN buffer = 1..Len(buffer)
      /\ Len(buffer') = Len(buffer) + 1 /\ DOMAIN buffer' = 1..(Len(buffer) + 1)
      /\ \A i \in 1..Len(buffer) : buffer'[i] = buffer[i]
      /\ buffer'[Len(buffer) + 1] = queue[1].record
      /\ buffer' # <<>>
  <2>1. buffer \in Seq(Record)
    BY <1>a, Sequences
  <2>2. buffer' \in Seq(Record) /\ Len(buffer') = Len(buffer) + 1 /\ buffer' # <<>>
    BY <1>0, <1>1, <2>1, AppendShape
  <2>3. QED
    BY <1>0, <1>1, <2>1, <2>2, AppendShape, EmptyLen
<1>4. /\ Len(file) \in Nat /\ DOMAIN file = 1..Len(file)
      /\ Len(chain) \in Nat /\ DOMAIN chain = 1..Len(chain)
  BY <1>a, Sequences
<1>5. Reading /\ Reading' /\ ~Answering /\ ~Answering'
  BY <1>0 DEF Reading, Answering
<1>6. InQueue' <=> InQueue
  BY <1>0, <1>2 DEF InQueue
<1>7. Received' = Received + 1 /\ Received \in Nat
  BY <1>0, <1>3, <1>4 DEF Received
<1>8. InQueue => Len(queue) >= 2
  BY <1>0, <1>2 DEF InQueue
<1>9. CommandOf(op)' = CommandOf(op) /\ NextRecord' = NextRecord
  BY <1>0 DEF CommandOf, NextRecord
<1>10. Len(chain) >= Received + Len(queue) - 1 /\ Len(chain) >= Received + 1
  <2>1. CASE InQueue
    <3>1. Len(chain) + 1 = Received + Len(queue)
      BY <1>5, <2>1 DEF IInv, Counted
    <3>2. QED
      BY <1>2, <1>4, <1>7, <1>8, <2>1, <3>1
  <2>2. CASE ~InQueue
    <3>1. Len(chain) = Received + Len(queue)
      BY <1>0, <1>5, <2>2 DEF IInv, Counted
    <3>2. QED
      BY <1>2, <1>4, <1>7, <3>1
  <2>3. QED
    BY <2>1, <2>2
<1>21. queue[1].record = chain[Received + 1]
  BY <1>0, <1>2, <1>5 DEF IInv, QueueAgrees
<1>11. OneWaits'
  BY <1>0, <1>2, <1>6 DEF IInv, OneWaits
<1>12. CallerStep' /\ Stopping' /\ Quiet'
  BY <1>0, <1>5 DEF IInv, CallerStep, Stopping, Quiet
<1>13. AskedFor'
  BY <1>0, <1>2, <1>5, <1>6, <1>8, <1>9 DEF IInv, AskedFor, InQueue
<1>14. Counted'
  BY <1>0, <1>2, <1>5, <1>6, <1>7 DEF IInv, Counted, AskedFor
<1>15. Numbered'
  <2>1. queue[1].record.index = Received + 1
    BY <1>0, <1>2, <1>4, <1>5, <1>7, <1>10, <1>21 DEF IInv, Numbered
  <2>2. QED
    BY <1>0, <1>3, <1>4, <2>1 DEF IInv, Numbered, Received
<1>16. FileAgrees' /\ NextAgrees'
  BY <1>0, <1>2, <1>5, <1>6, <1>9 DEF IInv, FileAgrees, NextAgrees, AskedFor
<1>17. BufferAgrees'
  BY SMTT(30), <1>0, <1>2, <1>3, <1>4, <1>5, <1>7 DEF IInv, BufferAgrees, QueueAgrees, Received
<1>18. QueueAgrees'
  <2>1. SUFFICES ASSUME NEW i \in DOMAIN queue', queue'[i].kind = "append"
                 PROVE  queue'[i].record = chain'[Received' + i]
    BY DEF QueueAgrees
  <2>2. i + 1 \in DOMAIN queue /\ queue'[i] = queue[i + 1] /\ Received' + i = Received + (i + 1)
    BY <1>2, <1>7
  <2>3. QED
    BY <1>0, <1>5, <2>1, <2>2 DEF IInv, QueueAgrees
<1>19. Ghost'
  BY <1>0, <1>4, <1>7, <1>10 DEF Ghost
<1>20. AckedInFile' /\ AckedSynced' /\ ReplySynced'
  BY <1>0, <1>5 DEF IInv, AckedInFile, AckedSynced, ReplySynced, Durable, Prefix
<1>99. QED
  BY <1>11, <1>12, <1>13, <1>14, <1>15, <1>16, <1>17, <1>18, <1>19, <1>20 DEF IInv

\* A durable append is the only command of the channel when it is received.
LEMMA TakeDurableStep ==
    ASSUME IInv, TypeOK', TakeDurable PROVE IInv'
<1>a. TypeOK
  BY DEF IInv
<1>0. /\ wstate = "recv" /\ queue # <<>> /\ queue[1].kind = "durable"
      /\ queue' = Tail(queue) /\ buffer' = Append(buffer, queue[1].record)
      /\ wstate' = "gather"
      /\ UNCHANGED <<file, stable, process, chain, mode, bgError, op, pc, reply, acked, attempts, job>>
  BY <1>a, Sequences, TailShape DEF TakeDurable, disk, call, bounds
<1>1. queue[1] \in Command /\ queue[1].record \in Record
  BY <1>a, <1>0, Sequences, TailShape DEF Command
<1>2. /\ Len(queue) = 1 /\ queue' = <<>> /\ InQueue /\ queue[1] = CommandOf(op)
      /\ pc = "await" /\ reply = "none" /\ Reading /\ process = "up" /\ bgError = "none"
  <2>1. Len(queue) = 1
    <3>1. 1 \in DOMAIN queue /\ queue[1].kind # "append"
      BY <1>a, <1>0, Sequences
    <3>2. QED
      BY <3>1 DEF IInv, OneWaits
  <2>2. queue' = <<>>
    BY <1>a, <1>0, <2>1, Sequences, TailShape, EmptyLen
  <2>3. InQueue /\ Reading
    BY <1>0, <2>1 DEF InQueue, Reading
  <2>4. QED
    BY <2>1, <2>2, <2>3 DEF IInv, OneWaits, AskedFor
<1>3. /\ op = "append" /\ queue[1].record = NextRecord
  BY <1>0, <1>2 DEF CommandOf
<1>4. /\ Len(buffer) \in Nat /\ DOMAIN buffer = 1..Len(buffer)
      /\ Len(buffer') = Len(buffer) + 1 /\ DOMAIN buffer' = 1..(Len(buffer) + 1)
      /\ \A i \in 1..Len(buffer) : buffer'[i] = buffer[i]
      /\ buffer'[Len(buffer) + 1] = NextRecord
      /\ buffer' # <<>>
  <2>1. buffer \in Seq(Record)
    BY <1>a, Sequences
  <2>2. buffer' \in Seq(Record) /\ Len(buffer') = Len(buffer) + 1 /\ buffer' # <<>>
    BY <1>0, <1>1, <2>1, AppendShape
  <2>3. QED
    BY <1>0, <1>1, <1>3, <2>1, <2>2, AppendShape, EmptyLen
<1>5. /\ Len(file) \in Nat /\ DOMAIN file = 1..Len(file)
      /\ Len(chain) \in Nat /\ DOMAIN chain = 1..Len(chain)
      /\ Len(queue') = 0 /\ DOMAIN queue' = {}
  BY <1>a, <1>2, Sequences
<1>6. Reading' /\ ~InQueue' /\ Answering'
  BY <1>0, <1>2 DEF Reading, InQueue, Answering
<1>7. Received' = Received + 1 /\ Received \in Nat /\ Len(chain) = Received
  <2>1. Received' = Received + 1 /\ Received \in Nat
    BY <1>a, <1>0, <1>4, <1>5, Sequences DEF Received
  <2>2. Len(chain) + 1 = Received + Len(queue)
    BY <1>2 DEF IInv, Counted
  <2>3. Len(queue) = 1 /\ Len(chain) \in Nat
    BY <1>2, <1>5
  <2>4. QED
    BY <2>1, <2>2, <2>3
<1>8. CommandOf(op)' = CommandOf(op) /\ NextRecord' = NextRecord /\ NextRecord.index = Len(chain) + 1
  BY <1>0 DEF CommandOf, NextRecord
<1>11. OneWaits'
  BY <1>5, <1>6 DEF OneWaits
<1>12. CallerStep' /\ Stopping' /\ Quiet'
  BY <1>0, <1>6 DEF IInv, CallerStep, Stopping, Quiet
<1>13. AskedFor'
  BY <1>0, <1>2, <1>3, <1>6 DEF AskedFor
<1>14. Counted'
  BY <1>0, <1>2, <1>3, <1>5, <1>6, <1>7 DEF Counted
<1>15. Numbered'
  <2>1. NextRecord.index = Len(file) + (Len(buffer) + 1)
    BY <1>4, <1>5, <1>7, <1>8 DEF Received
  <2>2. \A i \in DOMAIN buffer' : buffer'[i].index = Len(file) + i
    BY <1>4, <2>1 DEF IInv, Numbered
  <2>3. QED
    BY <1>0, <2>2 DEF IInv, Numbered
<1>16. FileAgrees' /\ BufferAgrees' /\ QueueAgrees'
  BY <1>0, <1>4, <1>5, <1>7 DEF IInv, FileAgrees, BufferAgrees, QueueAgrees, Received
<1>17. NextAgrees'
  BY <1>0, <1>2, <1>4, <1>8 DEF NextAgrees
<1>18. Ghost'
  BY <1>0, <1>2, <1>3, <1>5, <1>7 DEF Ghost
<1>19. AckedInFile' /\ AckedSynced' /\ ReplySynced'
  BY <1>0, <1>2 DEF IInv, AckedInFile, AckedSynced, ReplySynced, Durable, Prefix
<1>99. QED
  BY <1>11, <1>12, <1>13, <1>14, <1>15, <1>16, <1>17, <1>18, <1>19 DEF IInv

\* So is a flush or a shutdown.
LEMMA TakeControlStep ==
    ASSUME IInv, TypeOK', TakeControl PROVE IInv'
<1>a. TypeOK
  BY DEF IInv
<1>0. /\ wstate = "recv" /\ queue # <<>> /\ queue[1].kind \in {"flush", "shutdown"}
      /\ queue' = Tail(queue) /\ wstate' = "flush" /\ job' = queue[1].kind
      /\ UNCHANGED <<buffer, file, stable, process, chain, mode, bgError, op, pc, reply, acked, attempts>>
  BY <1>a, Sequences, TailShape DEF TakeControl, disk, call, bounds
<1>2. /\ Len(queue) = 1 /\ queue' = <<>> /\ InQueue /\ queue[1] = CommandOf(op)
      /\ pc = "await" /\ reply = "none" /\ Reading /\ process = "up" /\ bgError = "none"
  <2>1. Len(queue) = 1
    BY SMTT(30), <1>a, <1>0, Sequences DEF IInv, OneWaits
  <2>2. queue' = <<>>
    BY <1>a, <1>0, <2>1, Sequences, TailShape, EmptyLen
  <2>3. InQueue /\ Reading
    BY <1>0, <2>1 DEF InQueue, Reading
  <2>4. QED
    BY <2>1, <2>2, <2>3 DEF IInv, OneWaits, AskedFor
<1>3. op # "append" /\ (job' = "shutdown" <=> op = "close") /\ job' # "group"
  BY <1>0, <1>2 DEF CommandOf
<1>5. /\ Len(file) \in Nat /\ DOMAIN file = 1..Len(file)
      /\ Len(chain) \in Nat /\ DOMAIN chain = 1..Len(chain)
      /\ Len(queue') = 0 /\ DOMAIN queue' = {}
  BY <1>a, <1>2, Sequences
<1>6. Reading' /\ ~InQueue' /\ Answering'
  BY <1>0, <1>2 DEF Reading, InQueue, Answering
<1>7. Received' = Received /\ Received \in Nat /\ Len(chain) = Received
  <2>1. Received' = Received /\ Received \in Nat
    BY <1>a, <1>0, <1>5, Sequences DEF Received
  <2>2. Len(chain) + 1 = Received + Len(queue)
    BY <1>2 DEF IInv, Counted
  <2>3. Len(queue) = 1 /\ Len(chain) \in Nat
    BY <1>2, <1>5
  <2>4. QED
    BY <2>1, <2>2, <2>3
<1>11. OneWaits'
  BY <1>5, <1>6 DEF OneWaits
<1>12. CallerStep' /\ Stopping' /\ Quiet'
  BY <1>0, <1>6 DEF IInv, CallerStep, Stopping, Quiet
<1>13. AskedFor'
  BY <1>0, <1>2, <1>3, <1>6 DEF AskedFor
<1>14. Counted'
  <2>1. Len(chain) = Received' + Len(queue')
    BY <1>5, <1>7
  <2>2. QED
    BY <1>0, <1>3, <1>6, <2>1 DEF Counted
<1>15. Numbered' /\ FileAgrees' /\ BufferAgrees'
  BY <1>0 DEF IInv, Numbered, FileAgrees, BufferAgrees
<1>16. QueueAgrees' /\ NextAgrees'
  BY <1>0, <1>3, <1>5 DEF QueueAgrees, NextAgrees
<1>18. Ghost'
  BY <1>0, <1>5, <1>7 DEF Ghost
<1>19. AckedInFile' /\ AckedSynced' /\ ReplySynced'
  BY <1>0, <1>2 DEF IInv, AckedInFile, AckedSynced, ReplySynced, Durable, Prefix
<1>99. QED
  BY <1>11, <1>12, <1>13, <1>14, <1>15, <1>16, <1>18, <1>19 DEF IInv

\* The three ways a flush can end.
LEMMA FinishCases ==
    ASSUME NEW ok \in BOOLEAN, Finish(ok), job \in Jobs
    PROVE  \/ /\ job = "final" /\ wstate' = "gone" /\ queue' = <<>> /\ job' = "final"
              /\ reply' = reply /\ (bgError' = bgError \/ bgError' = "set")
           \/ /\ job # "final" /\ wstate' = "flush" /\ queue' = queue /\ job' = "final"
              /\ ~ok => bgError' = "set"
              /\ ok => job = "shutdown"
              /\ job = "threshold" => reply' = reply
              /\ job = "group" => reply' = "err"
           \/ /\ ok /\ job \in {"group", "threshold", "flush"} /\ wstate' = "recv"
              /\ queue' = queue /\ job' = job /\ bgError' = bgError
              /\ job = "threshold" => reply' = reply
              /\ job # "threshold" => reply' = "ok"
BY DEF Finish, Jobs

\* The end of a flush keeps what concerns the caller and the channel.
LEMMA FinishControl ==
    ASSUME IInv, TypeOK', NEW ok \in BOOLEAN, Finish(ok), wstate \in {"flush", "sync"},
           UNCHANGED <<process, chain, mode, op, pc, attempts>>
    PROVE  OneWaits' /\ CallerStep' /\ AskedFor' /\ Stopping'
<1>a. TypeOK /\ job \in Jobs
  BY DEF IInv, TypeOK
<1>b. InQueue => queue # <<>>
  BY DEF InQueue
<1>c. CallerStep'
  <2>1. wstate' # "off"
    BY FinishCases, <1>a
  <2>2. pc # "await" => job \in {"threshold", "final"}
    BY <1>a DEF IInv, AskedFor, Reading, Answering, Jobs
  <2>3. job \in {"threshold", "final"} => reply' = reply
    BY DEF Finish
  <2>4. QED
    BY <2>1, <2>2, <2>3 DEF IInv, CallerStep
<1>d. CommandOf(op)' = CommandOf(op)
  BY DEF CommandOf, NextRecord
<1>1. CASE /\ job = "final" /\ wstate' = "gone" /\ queue' = <<>> /\ job' = "final"
           /\ reply' = reply /\ (bgError' = bgError \/ bgError' = "set")
  <2>1. ~Reading /\ ~Reading'
    BY <1>1 DEF Reading
  <2>2. ~InQueue' /\ DOMAIN queue' = {}
    BY <1>1 DEF InQueue
  <2>3. OneWaits' /\ AskedFor'
    BY <2>1, <2>2 DEF OneWaits, AskedFor
  <2>4. Stopping'
    BY <1>1, <2>1 DEF IInv, Stopping
  <2>5. QED
    BY <1>c, <2>3, <2>4
<1>2. CASE /\ job # "final" /\ wstate' = "flush" /\ queue' = queue /\ job' = "final"
           /\ ~ok => bgError' = "set"
           /\ ok => job = "shutdown"
           /\ job = "threshold" => reply' = reply
           /\ job = "group" => reply' = "err"
  <2>1. Reading /\ ~Reading'
    BY <1>2 DEF Reading
  <2>2. Answering <=> job # "threshold"
    BY <1>a, <1>2 DEF Answering, Jobs
  <2>3. Answering => pc = "await" /\ ~InQueue /\ (job = "group" <=> op = "append")
                       /\ (job = "shutdown" <=> op = "close")
    BY <1>b, <2>1 DEF IInv, AskedFor, Answering
  <2>4. InQueue' <=> InQueue
    BY <1>2 DEF InQueue
  <2>5. OneWaits'
    BY <1>2, <2>2, <2>3, <2>4 DEF IInv, OneWaits
  <2>6. job = "threshold" /\ pc = "await" => reply = "none"
    BY <2>1, <2>2 DEF IInv, AskedFor
  <2>7. Stopping'
    BY <1>2, <2>2, <2>3, <2>6 DEF Stopping
  <2>8. QED
    BY <1>c, <2>1, <2>5, <2>7 DEF AskedFor
<1>3. CASE /\ ok /\ job \in {"group", "threshold", "flush"} /\ wstate' = "recv"
           /\ queue' = queue /\ job' = job /\ bgError' = bgError
           /\ job = "threshold" => reply' = reply
           /\ job # "threshold" => reply' = "ok"
  <2>1. Reading /\ Reading' /\ ~Answering'
    BY <1>3 DEF Reading, Answering
  <2>2. Answering <=> job # "threshold"
    BY <1>3 DEF Answering
  <2>3. Answering => pc = "await" /\ ~InQueue /\ queue = <<>>
    BY <1>b, <2>1 DEF IInv, AskedFor, Answering
  <2>4. InQueue' <=> InQueue
    BY <1>3 DEF InQueue
  <2>5. OneWaits'
    BY <1>3, <2>2, <2>3, <2>4 DEF IInv, OneWaits
  <2>6. ~Answering /\ pc = "await" => reply = "none" /\ InQueue
    BY <2>1 DEF IInv, AskedFor
  <2>7. AskedFor'
    <3>1. process' = "up" /\ bgError' = "none" /\ wstate' # "gather"
      BY <1>3, <2>1 DEF IInv, AskedFor
    <3>2. InQueue' => queue'[Len(queue')] = CommandOf(op)'
      BY <1>3, <1>d, <2>1, <2>4 DEF IInv, AskedFor
    <3>3. CASE Answering
      BY <1>3, <2>1, <2>2, <2>3, <3>1, <3>2, <3>3 DEF AskedFor
    <3>4. CASE ~Answering
      BY <1>3, <2>1, <2>2, <2>4, <2>6, <3>1, <3>2, <3>4 DEF AskedFor
    <3>5. QED
      BY <3>3, <3>4
  <2>8. Stopping'
    BY <1>3, <2>1 DEF Stopping
  <2>9. QED
    BY <1>c, <2>5, <2>7, <2>8
<1>4. QED
  BY <1>1, <1>2, <1>3, <1>a, FinishCases

\* Only a flush that succeeded lets the writer read on.
LEMMA FinishReading ==
    ASSUME IInv, NEW ok \in BOOLEAN, Finish(ok), wstate \in {"flush", "sync"}
    PROVE  /\ wstate' # "off"
           /\ wstate' = "gone" => queue' = <<>>
           /\ Reading' => /\ ok /\ Reading /\ wstate' = "recv" /\ queue' = queue
                          /\ InQueue' <=> InQueue
                          /\ job \in {"group", "threshold", "flush"}
           /\ Reading' /\ pc = "await" /\ op = "append" /\ ~InQueue => job = "group"
           /\ Reading' /\ pc = "await" /\ op = "append" /\ reply' = "ok" => job = "group" /\ ~InQueue
<1>a. job \in Jobs
  BY DEF IInv, TypeOK
<1>1. wstate' # "off" /\ (wstate' = "gone" => queue' = <<>>)
  BY <1>a, FinishCases
<1>2. ASSUME Reading'
      PROVE  /\ ok /\ Reading /\ wstate' = "recv" /\ queue' = queue
             /\ job \in {"group", "threshold", "flush"}
             /\ job = "threshold" => reply' = reply
  BY <1>2, <1>a, FinishCases DEF Reading
<1>3. Reading' => (InQueue' <=> InQueue)
  BY <1>2 DEF InQueue
<1>4. ASSUME Reading', pc = "await", op = "append"
      PROVE  /\ ~InQueue => job = "group"
             /\ reply' = "ok" => job = "group" /\ ~InQueue
  <2>1. \/ reply = "none" /\ InQueue /\ ~Answering
        \/ reply = "none" /\ ~InQueue /\ Answering
    BY <1>2, <1>4 DEF IInv, AskedFor, InQueue
  <2>2. Answering <=> job # "threshold"
    BY <1>2, <1>4 DEF Answering
  <2>3. Answering => job = "group"
    BY <1>2, <1>4 DEF IInv, AskedFor
  <2>4. QED
    BY <1>2, <1>4, <2>1, <2>2, <2>3
<1>5. QED
  BY <1>1, <1>2, <1>3, <1>4

\* The file after the first n records of the buffer were written.
LEMMA Written ==
    ASSUME IInv, TypeOK', NEW n \in 0..Len(buffer), file' = file \o SubSeq(buffer, 1, n),
           UNCHANGED <<chain, acked, stable>>
    PROVE  /\ Len(file') = Len(file) + n /\ DOMAIN file' = 1..(Len(file) + n)
           /\ \A i \in 1..Len(file) : file'[i] = file[i]
           /\ \A i \in 1..n : file'[Len(file) + i] = buffer[i]
           /\ \A i \in DOMAIN file' : file'[i].index = i
           /\ FileAgrees' /\ AckedInFile' /\ AckedSynced'
<1>a. TypeOK
  BY DEF IInv
<1>b. /\ file \in Seq(Record) /\ buffer \in Seq(Record)
      /\ Len(file) \in Nat /\ Len(buffer) \in Nat /\ Len(acked) \in Nat
      /\ DOMAIN file = 1..Len(file) /\ DOMAIN buffer = 1..Len(buffer)
      /\ DOMAIN acked = 1..Len(acked) /\ DOMAIN chain = 1..Len(chain) /\ Len(chain) \in Nat
  BY <1>a, Sequences
<1>1. /\ SubSeq(buffer, 1, n) \in Seq(Record) /\ Len(SubSeq(buffer, 1, n)) = n
      /\ \A i \in 1..n : SubSeq(buffer, 1, n)[i] = buffer[i]
  BY <1>b
<1>2. Len(file') = Len(file) + n /\ file' \in Seq(Record)
  BY <1>b, <1>1
<1>3. DOMAIN file' = 1..(Len(file) + n)
  BY <1>b, <1>2
<1>4. \A i \in 1..Len(file) : file'[i] = file[i]
  BY <1>b, <1>1
<1>5. \A i \in 1..n : file'[Len(file) + i] = buffer[i]
  BY <1>b, <1>1
<1>7. \A i \in DOMAIN file' : file'[i].index = i
  <2>1. TAKE i \in DOMAIN file'
  <2>2. CASE i \in 1..Len(file)
    BY <1>b, <1>4, <2>2 DEF IInv, Numbered
  <2>3. CASE i \notin 1..Len(file)
    <3> DEFINE j == i - Len(file)
    <3>1. j \in 1..n /\ i = Len(file) + j
      BY <1>b, <1>3, <2>1, <2>3
    <3>2. j \in DOMAIN buffer
      BY <1>b, <3>1
    <3> HIDE DEF j
    <3>3. buffer[j].index = Len(file) + j
      BY <3>2 DEF IInv, Numbered
    <3>4. QED
      BY <1>5, <3>1, <3>3
  <2>4. QED
    BY <2>2, <2>3
<1>8. FileAgrees'
  <2>1. SUFFICES ASSUME NEW i \in DOMAIN file', i <= Len(chain) PROVE file'[i] = chain[i]
    BY DEF FileAgrees
  <2>2. CASE i \in 1..Len(file)
    BY <1>b, <1>4, <2>1, <2>2 DEF IInv, FileAgrees
  <2>3. CASE i \notin 1..Len(file)
    <3> DEFINE j == i - Len(file)
    <3>1. j \in 1..n /\ i = Len(file) + j
      BY <1>b, <1>3, <2>1, <2>3
    <3>2. j \in DOMAIN buffer
      BY <1>b, <3>1
    <3> HIDE DEF j
    <3>3. buffer[j] = chain[Len(file) + j]
      BY <2>1, <3>1, <3>2 DEF IInv, BufferAgrees
    <3>4. QED
      BY <1>5, <3>1, <3>3
  <2>4. QED
    BY <2>2, <2>3
<1>9. AckedInFile' /\ AckedSynced'
  BY <1>b, <1>2, <1>3, <1>4 DEF IInv, AckedInFile, AckedSynced, Durable, Prefix
<1>10. QED
  BY <1>2, <1>3, <1>4, <1>5, <1>7, <1>8, <1>9

\* A flush that finds the buffer empty.
LEMMA FlushNothingStep ==
    ASSUME IInv, TypeOK', FlushNothing PROVE IInv'
<1>1. /\ wstate = "flush" /\ buffer = <<>> /\ Finish(TRUE)
      /\ UNCHANGED <<file, stable, process, chain, mode, buffer, op, pc, acked, attempts>>
  BY DEF FlushNothing, disk, bounds
<1>2. OneWaits' /\ CallerStep' /\ AskedFor' /\ Stopping'
  BY <1>1, FinishControl
<1>3. /\ wstate' # "off" /\ (wstate' = "gone" => queue' = <<>>)
      /\ Reading' => Reading /\ wstate' = "recv" /\ queue' = queue /\ (InQueue' <=> InQueue)
  BY <1>1, FinishReading
<1>4. Received' = Received
  BY <1>1 DEF Received
<1>5. Reading' /\ pc = "await" /\ op = "append" => InQueue /\ reply' # "ok"
  BY <1>1, <1>3, FinishReading DEF IInv, NextAgrees
<1>6. Quiet' /\ Counted'
  BY <1>1, <1>3, <1>4 DEF IInv, Quiet, Counted
<1>7. Numbered' /\ FileAgrees' /\ BufferAgrees' /\ AckedInFile' /\ AckedSynced'
  BY <1>1 DEF IInv, Numbered, FileAgrees, BufferAgrees, AckedInFile, AckedSynced, Durable, Prefix
<1>8. QueueAgrees'
  BY <1>1, <1>3, <1>4 DEF IInv, QueueAgrees
<1>9. NextAgrees' /\ ReplySynced'
  BY <1>1, <1>3, <1>5 DEF NextAgrees, ReplySynced
<1>10. Ghost'
  <2>1. bgError = "set" => bgError' = "set"
    BY <1>1 DEF Finish
  <2>2. QED
    BY <1>1, <1>3, <1>4, <2>1 DEF IInv, Ghost
<1>11. QED
  BY <1>2, <1>6, <1>7, <1>8, <1>9, <1>10 DEF IInv

\* A flush that failed without having written anything.
LEMMA FailedStep ==
    ASSUME IInv, TypeOK', Finish(FALSE), wstate \in {"flush", "sync"},
           UNCHANGED <<file, stable, process, chain, mode, buffer, op, pc, acked, attempts>>
    PROVE  IInv'
<1>2. OneWaits' /\ CallerStep' /\ AskedFor' /\ Stopping'
  BY FinishControl
<1>3. wstate' # "off" /\ (wstate' = "gone" => queue' = <<>>) /\ ~Reading'
  BY FinishReading
<1>4. Received' = Received
  BY DEF Received
<1>6. Quiet' /\ Counted' /\ QueueAgrees' /\ NextAgrees' /\ ReplySynced'
  BY <1>3 DEF Quiet, Counted, QueueAgrees, NextAgrees, ReplySynced
<1>7. Numbered' /\ FileAgrees' /\ BufferAgrees' /\ AckedInFile' /\ AckedSynced'
  BY DEF IInv, Numbered, FileAgrees, BufferAgrees, AckedInFile, AckedSynced, Durable, Prefix
<1>8. Ghost'
  <2>1. bgError' = "set"
    BY DEF Finish
  <2>2. QED
    BY <1>3, <1>4, <2>1 DEF IInv, Ghost
<1>9. QED
  BY <1>2, <1>6, <1>7, <1>8 DEF IInv

\* The file cannot be opened.
LEMMA OpenFailsStep ==
    ASSUME IInv, TypeOK', OpenFails PROVE IInv'
BY FailedStep DEF OpenFails, disk

\* The file cannot be synced.
LEMMA SyncFailsStep ==
    ASSUME IInv, TypeOK', SyncFails PROVE IInv'
BY FailedStep DEF SyncFails, disk

\* The file was synced and holds every record it was given.
LEMMA SyncOkStep ==
    ASSUME IInv, TypeOK', SyncOk PROVE IInv'
<1>a. TypeOK
  BY DEF IInv
<1>1. /\ wstate = "sync" /\ Finish(TRUE) /\ stable' = Len(file)
      /\ UNCHANGED <<file, process, chain, mode, buffer, op, pc, acked, attempts>>
  BY DEF SyncOk, bounds
<1>2. OneWaits' /\ CallerStep' /\ AskedFor' /\ Stopping'
  BY <1>1, FinishControl
<1>3. /\ wstate' # "off" /\ (wstate' = "gone" => queue' = <<>>)
      /\ Reading' => Reading /\ wstate' = "recv" /\ queue' = queue /\ (InQueue' <=> InQueue)
  BY <1>1, FinishReading
<1>4. Received' = Received
  BY <1>1 DEF Received
<1>6. Quiet' /\ Counted'
  BY <1>1, <1>3, <1>4 DEF IInv, Quiet, Counted
<1>7. Numbered' /\ FileAgrees' /\ BufferAgrees' /\ AckedInFile'
  BY <1>1 DEF IInv, Numbered, FileAgrees, BufferAgrees, AckedInFile, Durable, Prefix
<1>8. AckedSynced'
  <2>1. stable <= Len(file) /\ stable \in Nat /\ Len(file) \in Nat /\ Len(acked) \in Nat
    BY <1>a, Sequences
  <2>2. QED
    BY <1>1, <2>1 DEF IInv, AckedSynced, Durable
<1>9. QueueAgrees'
  BY <1>1, <1>3, <1>4 DEF IInv, QueueAgrees
<1>10. NextAgrees' /\ ReplySynced'
  BY <1>1, <1>3 DEF IInv, NextAgrees, ReplySynced, NextRecord
<1>11. Ghost'
  <2>1. bgError = "set" => bgError' = "set"
    BY <1>1 DEF Finish
  <2>2. QED
    BY <1>1, <1>3, <1>4, <2>1 DEF IInv, Ghost
<1>12. QED
  BY <1>2, <1>6, <1>7, <1>8, <1>9, <1>10, <1>11 DEF IInv

\* A sequence is all of its elements.
LEMMA WholeSeq == ASSUME NEW S, NEW s \in Seq(S) PROVE SubSeq(s, 1, Len(s)) = s
OBVIOUS

\* The records of the buffer move to the file.
LEMMA WriteOkStep ==
    ASSUME IInv, TypeOK', WriteOk PROVE IInv'
<1>a. TypeOK
  BY DEF IInv
<1>b. /\ buffer \in Seq(Record) /\ Len(file) \in Nat /\ Len(buffer) \in Nat
      /\ Len(chain) \in Nat /\ (buffer = <<>> <=> Len(buffer) = 0)
      /\ DOMAIN buffer = 1..Len(buffer) /\ DOMAIN file = 1..Len(file)
  BY <1>a, Sequences
<1>1. /\ wstate = "flush" /\ buffer # <<>> /\ file' = file \o buffer /\ buffer' = <<>>
      /\ UNCHANGED <<stable, process, chain, mode, op, pc, acked, attempts>>
  BY DEF WriteOk, bounds
<1>2. /\ Len(file') = Len(file) + Len(buffer) /\ DOMAIN file' = 1..(Len(file) + Len(buffer))
      /\ \A i \in 1..Len(file) : file'[i] = file[i]
      /\ \A i \in 1..Len(buffer) : file'[Len(file) + i] = buffer[i]
      /\ \A i \in DOMAIN file' : file'[i].index = i
      /\ FileAgrees' /\ AckedInFile' /\ AckedSynced'
  <2>1. SubSeq(buffer, 1, Len(buffer)) = buffer
    BY <1>b, WholeSeq
  <2>2. file' = file \o SubSeq(buffer, 1, Len(buffer)) /\ Len(buffer) \in 0..Len(buffer)
    BY <1>1, <1>b, <2>1
  <2>3. QED
    BY <1>1, <2>2, Written
<1>3. Len(buffer') = 0 /\ DOMAIN buffer' = {}
  BY <1>1
<1>4. Received' = Received /\ Received \in Nat
  BY <1>2, <1>3, <1>b DEF Received
<1>5. Numbered' /\ BufferAgrees'
  BY <1>1, <1>2, <1>3 DEF IInv, Numbered, BufferAgrees
<1>6. file' # <<>> /\ file'[Len(file')] = buffer[Len(buffer)]
  BY <1>b, <1>1, <1>2
<1>7. NextRecord' = NextRecord /\ CommandOf(op)' = CommandOf(op)
  BY <1>1 DEF NextRecord, CommandOf
<1>8. CASE Syncs
  <2>1. wstate' = "sync" /\ UNCHANGED <<bgError, reply, queue, job>>
    BY <1>8 DEF WriteOk
  <2>2. (Reading' <=> Reading) /\ (Answering' <=> Answering) /\ (InQueue' <=> InQueue)
    BY <1>1, <2>1 DEF Reading, Answering, InQueue
  <2>3. OneWaits' /\ CallerStep'
    BY <1>1, <2>1, <2>2 DEF IInv, OneWaits, CallerStep
  <2>4. AskedFor'
    BY <1>1, <1>7, <2>1, <2>2 DEF IInv, AskedFor
  <2>5. Stopping' /\ Quiet'
    BY <1>1, <2>1, <2>2 DEF IInv, Stopping, Quiet
  <2>6. Counted' /\ QueueAgrees'
    BY <1>1, <1>4, <2>1, <2>2 DEF IInv, Counted, QueueAgrees
  <2>7. NextAgrees'
    BY <1>1, <1>6, <1>7, <2>1, <2>2 DEF IInv, NextAgrees
  <2>8. Ghost'
    BY <1>1, <1>4, <2>1 DEF IInv, Ghost
  <2>9. ReplySynced'
    <3>1. Reading /\ pc = "await" /\ op = "append" => reply = "none"
      BY <1>1 DEF IInv, AskedFor
    <3>2. QED
      BY <1>1, <2>1, <2>2, <3>1 DEF ReplySynced
  <2>10. QED
    BY <1>2, <1>5, <2>3, <2>4, <2>5, <2>6, <2>7, <2>8, <2>9 DEF IInv
<1>9. CASE ~Syncs
  <2>0. Finish(TRUE) /\ job \in Jobs
    BY <1>9, <1>a DEF WriteOk, TypeOK
  <2>1. OneWaits' /\ CallerStep' /\ AskedFor' /\ Stopping'
    BY <1>1, <2>0, FinishControl
  <2>2. /\ wstate' # "off" /\ (wstate' = "gone" => queue' = <<>>)
        /\ Reading' => Reading /\ wstate' = "recv" /\ queue' = queue /\ (InQueue' <=> InQueue)
        /\ Reading' /\ pc = "await" /\ op = "append" /\ ~InQueue => job = "group"
        /\ Reading' /\ pc = "await" /\ op = "append" /\ reply' = "ok" => job = "group" /\ ~InQueue
    BY <1>1, <2>0, FinishReading
  <2>3. Quiet' /\ Counted'
    BY <1>1, <1>4, <2>2 DEF IInv, Quiet, Counted
  <2>4. QueueAgrees'
    BY <1>1, <1>4, <2>2 DEF IInv, QueueAgrees
  <2>5. NextAgrees'
    BY <1>1, <1>6, <1>7, <2>2 DEF IInv, NextAgrees
  <2>6. ReplySynced'
    BY <1>1, <1>9, <2>2 DEF ReplySynced, Syncs
  <2>7. Ghost'
    <3>1. bgError = "set" => bgError' = "set"
      BY <2>0 DEF Finish
    <3>2. QED
      BY <1>1, <1>4, <2>2, <3>1 DEF IInv, Ghost
  <2>8. QED
    BY <1>2, <1>5, <2>1, <2>3, <2>4, <2>5, <2>6, <2>7 DEF IInv
<1>10. QED
  BY <1>8, <1>9

\* Some of the records reach the file and the writer stops reading.
LEMMA WriteFailsStep ==
    ASSUME IInv, TypeOK', WriteFails PROVE IInv'
<1>a. TypeOK
  BY DEF IInv
<1>b. /\ buffer \in Seq(Record) /\ Len(file) \in Nat /\ Len(buffer) \in Nat
      /\ Len(chain) \in Nat /\ DOMAIN buffer = 1..Len(buffer) /\ DOMAIN file = 1..Len(file)
  BY <1>a, Sequences
<1>1. /\ wstate = "flush" /\ buffer' = <<>> /\ Finish(FALSE)
      /\ UNCHANGED <<stable, process, chain, mode, op, pc, acked, attempts>>
  BY DEF WriteFails
<1>2. PICK n \in 0..(Len(buffer) - 1) : file' = file \o SubSeq(buffer, 1, n)
  BY DEF WriteFails
<1>3. n \in 0..Len(buffer)
  BY <1>b
<1>4. /\ Len(file') = Len(file) + n /\ DOMAIN file' = 1..(Len(file) + n)
      /\ \A i \in DOMAIN file' : file'[i].index = i
      /\ FileAgrees' /\ AckedInFile' /\ AckedSynced'
  BY <1>1, <1>2, <1>3, Written
<1>5. Len(buffer') = 0 /\ DOMAIN buffer' = {}
  BY <1>1
<1>6. OneWaits' /\ CallerStep' /\ AskedFor' /\ Stopping'
  BY <1>1, FinishControl
<1>7. wstate' # "off" /\ (wstate' = "gone" => queue' = <<>>) /\ ~Reading'
  BY <1>1, FinishReading
<1>8. Quiet' /\ Counted' /\ QueueAgrees' /\ NextAgrees' /\ ReplySynced'
  BY <1>7 DEF Quiet, Counted, QueueAgrees, NextAgrees, ReplySynced
<1>9. Numbered' /\ BufferAgrees'
  BY <1>1, <1>4, <1>5 DEF IInv, Numbered, BufferAgrees
<1>10. Ghost'
  <2>1. Received' <= Received /\ Received \in Nat /\ Received' \in Nat
    BY <1>b, <1>3, <1>4, <1>5 DEF Received
  <2>2. process = "up" /\ Received > Len(chain) => Received = Len(chain) + 1
    BY DEF IInv, Ghost
  <2>4. process' = "up" /\ Received' > Len(chain') => Received' = Len(chain') + 1 /\ Received > Len(chain)
    BY <1>1, <1>b, <2>1, <2>2
  <2>5. bgError' = "set"
    BY <1>1 DEF Finish
  <2>6. QED
    BY <1>1, <1>7, <2>4, <2>5 DEF IInv, Ghost
<1>11. QED
  BY <1>4, <1>6, <1>8, <1>9, <1>10 DEF IInv

\* A process that is down has promised nothing but what the file has.
LEMMA DownStep ==
    ASSUME IInv, TypeOK', Down, UNCHANGED chain, Numbered', FileAgrees', AckedInFile', AckedSynced'
    PROVE  IInv'
<1>1. /\ process' = "down" /\ pc' = "idle" /\ queue' = <<>> /\ buffer' = <<>> /\ wstate' = "off"
  BY DEF Down
<1>2. ~InQueue' /\ ~Reading' /\ DOMAIN queue' = {} /\ DOMAIN buffer' = {}
  BY <1>1 DEF InQueue, Reading
<1>3. OneWaits' /\ CallerStep' /\ AskedFor' /\ Stopping' /\ Quiet' /\ Counted'
  BY <1>1, <1>2 DEF OneWaits, CallerStep, AskedFor, Stopping, Quiet, Counted
<1>4. BufferAgrees' /\ QueueAgrees' /\ NextAgrees' /\ Ghost' /\ ReplySynced'
  BY <1>1, <1>2 DEF BufferAgrees, QueueAgrees, NextAgrees, Ghost, ReplySynced
<1>5. QED
  BY <1>3, <1>4 DEF IInv

\* A crash keeps what the operating system holds, perhaps with more records.
LEMMA CrashStep ==
    ASSUME IInv, TypeOK', Crash PROVE IInv'
<1>1. Down /\ UNCHANGED <<chain, acked, stable>> /\ buffer' = <<>>
  BY DEF Crash, Down
<1>2. DOMAIN buffer' = {}
  BY <1>1
<1>3. CASE UNCHANGED <<file, tail>>
  <2>1. Numbered' /\ FileAgrees' /\ AckedInFile' /\ AckedSynced'
    BY <1>1, <1>2, <1>3 DEF IInv, Numbered, FileAgrees, AckedInFile, AckedSynced, Durable, Prefix
  <2>2. QED
    BY <1>1, <2>1, DownStep
<1>4. CASE \E n \in 0..Len(buffer) : file' = file \o SubSeq(buffer, 1, n)
  <2>1. PICK n \in 0..Len(buffer) : file' = file \o SubSeq(buffer, 1, n)
    BY <1>4
  <2>2. (\A i \in DOMAIN file' : file'[i].index = i) /\ FileAgrees' /\ AckedInFile' /\ AckedSynced'
    BY <1>1, <2>1, Written
  <2>3. Numbered'
    BY <1>1, <1>2, <2>2 DEF IInv, Numbered
  <2>4. QED
    BY <1>1, <2>2, <2>3, DownStep
<1>5. QED
  BY <1>3, <1>4 DEF Crash

\* A power failure keeps at least what was synced.
LEMMA PowerFailsStep ==
    ASSUME IInv, TypeOK', PowerFails PROVE IInv'
<1>a. TypeOK
  BY DEF IInv
<1>b. /\ file \in Seq(Record) /\ Len(file) \in Nat /\ DOMAIN file = 1..Len(file)
      /\ stable \in 0..Len(file) /\ Len(acked) \in Nat /\ DOMAIN acked = 1..Len(acked)
  BY <1>a, Sequences
<1>1. Down /\ UNCHANGED <<chain, acked>> /\ buffer' = <<>> /\ PowerLoss
  BY DEF PowerFails, Down
<1>2. DOMAIN buffer' = {}
  BY <1>1
<1>3. PICK n \in stable..Len(file) : file' = SubSeq(file, 1, n) /\ stable' = n
  BY DEF PowerFails
<1>4. /\ n \in 0..Len(file) /\ n >= stable /\ Len(file') = n /\ DOMAIN file' = 1..n
      /\ \A i \in 1..n : file'[i] = file[i]
  BY <1>b, <1>3
<1>5. Numbered' /\ FileAgrees'
  BY <1>1, <1>2, <1>4, <1>b DEF IInv, Numbered, FileAgrees
<1>6. Durable => Len(acked) <= stable /\ \A i \in DOMAIN acked : acked[i] = file[i]
  BY <1>1 DEF IInv, AckedInFile, AckedSynced, Durable, Prefix
<1>7. Durable => Len(acked) <= n /\ \A i \in DOMAIN acked : acked[i] = file'[i]
  <2>1. Durable => Len(acked) <= n
    BY <1>b, <1>4, <1>6
  <2>2. QED
    BY <1>b, <1>4, <1>6, <2>1
<1>8. AckedInFile' /\ AckedSynced'
  BY <1>1, <1>3, <1>4, <1>7 DEF AckedInFile, AckedSynced, Durable, Prefix
<1>9. QED
  BY <1>1, <1>5, <1>8, DownStep

\* A call begins.
LEMMA BeginStep ==
    ASSUME IInv, TypeOK', NEW o \in Ops, Begin(o) PROVE IInv'
<1>0. /\ process = "up" /\ pc = "idle" /\ op' = o /\ reply' = "none"
      /\ UNCHANGED <<file, stable, process, chain, mode, bgError, queue, buffer, wstate, job, acked>>
  BY DEF Begin, disk, thread
<1>1. /\ pc' \in {"ensure", "return", "send"}
      /\ pc' = "ensure" => o \in {"append", "strict", "buffered"}
      /\ pc' = "send" => o # "append" /\ wstate # "off"
      /\ pc' = "return" => o # "append" /\ wstate = "off"
  BY DEF Begin, Ops
<1>2. (Reading' <=> Reading) /\ (Answering' <=> Answering) /\ Received' = Received
  BY <1>0 DEF Reading, Answering, Received
<1>3. ~InQueue /\ ~InQueue'
  BY <1>0, <1>1 DEF IInv, OneWaits, InQueue
<1>4. OneWaits' /\ CallerStep'
  BY <1>0, <1>1, <1>3 DEF IInv, OneWaits, CallerStep
<1>5. AskedFor' /\ Stopping' /\ Quiet'
  <2>1. AskedFor'
    BY <1>0, <1>1, <1>2, <1>3 DEF IInv, AskedFor, Answering
  <2>2. Stopping'
    BY <1>0, <1>1, <1>2 DEF IInv, Stopping
  <2>3. Quiet'
    BY <1>0 DEF IInv, Quiet
  <2>4. QED
    BY <2>1, <2>2, <2>3
<1>6. Counted' /\ QueueAgrees' /\ NextAgrees' /\ ReplySynced'
  BY <1>0, <1>1, <1>2, <1>3 DEF IInv, Counted, QueueAgrees, NextAgrees, ReplySynced
<1>7. Numbered' /\ FileAgrees' /\ BufferAgrees' /\ AckedInFile' /\ AckedSynced'
  BY <1>0 DEF IInv, Numbered, FileAgrees, BufferAgrees, AckedInFile, AckedSynced, Durable, Prefix
<1>8. Ghost'
  BY <1>0, <1>1, <1>2 DEF IInv, Ghost
<1>9. QED
  BY <1>4, <1>5, <1>6, <1>7, <1>8 DEF IInv

\* A writer starts only where the chain in memory and the file agree.
LEMMA EnsureWriterStep ==
    ASSUME IInv, TypeOK', EnsureWriter PROVE IInv'
<1>a. TypeOK
  BY DEF IInv
<1>1. /\ pc = "ensure" /\ pc' \in {"check", "return"}
      /\ pc' = "check" => op = "append"
      /\ pc' = "return" => op \in {"strict", "buffered"}
      /\ UNCHANGED <<file, process, chain, mode, op, reply, acked, attempts>>
  BY DEF EnsureWriter, IInv, CallerStep, bounds
<1>2. process = "up" /\ reply = "none" /\ ~InQueue
  BY <1>1 DEF IInv, CallerStep, OneWaits
<1>3. CASE wstate # "off"
  <2>1. UNCHANGED <<stable, bgError, queue, buffer, wstate, job>>
    BY <1>3 DEF EnsureWriter, thread
  <2>2. /\ Reading' <=> Reading
        /\ Answering' <=> Answering
        /\ Received' = Received /\ ~InQueue'
    BY <1>1, <1>2, <2>1 DEF Reading, Answering, Received, InQueue
  <2>3. OneWaits' /\ CallerStep'
    BY <1>1, <1>2, <1>3, <2>1, <2>2 DEF IInv, OneWaits, CallerStep
  <2>4. AskedFor' /\ Stopping' /\ Quiet'
    BY <1>1, <1>3, <2>1, <2>2 DEF IInv, AskedFor, Stopping, Quiet
  <2>5. Counted' /\ QueueAgrees' /\ NextAgrees' /\ ReplySynced'
    BY <1>1, <1>2, <2>1, <2>2 DEF IInv, Counted, QueueAgrees, NextAgrees, ReplySynced
  <2>6. Numbered' /\ FileAgrees' /\ BufferAgrees' /\ AckedInFile' /\ AckedSynced'
    BY <1>1, <2>1 DEF IInv, Numbered, FileAgrees, BufferAgrees, AckedInFile, AckedSynced, Durable, Prefix
  <2>7. Ghost'
    BY <1>1, <2>1, <2>2 DEF IInv, Ghost
  <2>8. QED
    BY <2>3, <2>4, <2>5, <2>6, <2>7 DEF IInv
<1>4. CASE wstate = "off"
  <2>1. /\ bgError' = "none" /\ queue' = <<>> /\ buffer' = <<>> /\ wstate' = "recv"
        /\ stable' \in {stable, Len(file)}
    BY <1>4 DEF EnsureWriter
  <2>2. /\ Reading' /\ ~Answering' /\ ~InQueue'
        /\ DOMAIN queue' = {} /\ DOMAIN buffer' = {} /\ Len(queue') = 0 /\ Len(buffer') = 0
    BY <2>1 DEF Reading, Answering, InQueue
  <2>3. Len(chain) = Len(file) /\ Len(file) \in Nat
    BY <1>a, <1>2, <1>4, Sequences DEF IInv, Quiet
  <2>4. Received' = Len(chain')
    BY <1>1, <2>2, <2>3 DEF Received
  <2>5. OneWaits' /\ CallerStep' /\ AskedFor'
    BY <1>1, <1>2, <2>1, <2>2 DEF OneWaits, CallerStep, AskedFor
  <2>6. Stopping' /\ Quiet' /\ QueueAgrees' /\ BufferAgrees'
    BY <2>1, <2>2 DEF Stopping, Quiet, QueueAgrees, BufferAgrees
  <2>7. Counted' /\ Ghost'
    BY <1>a, <1>1, <2>2, <2>3, <2>4 DEF Counted, Ghost
  <2>8. Numbered' /\ FileAgrees' /\ AckedInFile'
    BY <1>1, <2>2 DEF IInv, Numbered, FileAgrees, AckedInFile, Durable, Prefix
  <2>9. NextAgrees' /\ ReplySynced'
    BY <1>1 DEF NextAgrees, ReplySynced
  <2>10. AckedSynced'
    <3>1. stable' >= stable /\ Len(acked) \in Nat /\ stable \in Nat /\ stable' \in Nat
      BY <1>a, <2>1, Sequences
    <3>2. QED
      BY <1>1, <3>1 DEF IInv, AckedSynced, Durable
  <2>11. QED
    BY <2>5, <2>6, <2>7, <2>8, <2>9, <2>10 DEF IInv
<1>5. QED
  BY <1>3, <1>4

\* The writer does not start.
LEMMA SpawnFailsStep ==
    ASSUME IInv, TypeOK', SpawnFails PROVE IInv'
<1>a. TypeOK
  BY DEF IInv
<1>1. /\ pc = "ensure" /\ wstate = "off" /\ pc' = "idle" /\ bgError' = "none"
      /\ UNCHANGED <<file, stable, process, chain, mode, queue, buffer, wstate, job, op, reply, acked, attempts>>
  BY DEF SpawnFails, Fail, thread
<1>2. /\ process = "up" /\ Len(chain) = Len(file) /\ Len(file) \in Nat /\ buffer = <<>> /\ queue = <<>>
  BY <1>a, <1>1, Sequences DEF IInv, CallerStep, Quiet
<1>3. ~Reading' /\ ~InQueue'
  BY <1>1, <1>2 DEF Reading, InQueue
<1>4. OneWaits' /\ CallerStep' /\ AskedFor' /\ Stopping' /\ Counted' /\ QueueAgrees' /\ NextAgrees' /\ ReplySynced'
  BY <1>1, <1>3 DEF IInv, OneWaits, CallerStep, AskedFor, Stopping, Counted, QueueAgrees, NextAgrees, ReplySynced
<1>5. Quiet' /\ Numbered' /\ FileAgrees' /\ BufferAgrees' /\ AckedInFile' /\ AckedSynced'
  BY <1>1 DEF IInv, Quiet, Numbered, FileAgrees, BufferAgrees, AckedInFile, AckedSynced, Durable, Prefix
<1>6. Ghost'
  BY <1>1, <1>2 DEF Ghost, Received
<1>7. QED
  BY <1>4, <1>5, <1>6 DEF IInv

\* An append passes only a writer that has not failed.
LEMMA CheckErrorStep ==
    ASSUME IInv, TypeOK', CheckError PROVE IInv'
<1>1. /\ pc = "check" /\ op = "append"
      /\ \/ pc' = "idle"
         \/ pc' = "send" /\ bgError # "set"
      /\ UNCHANGED <<file, stable, process, chain, mode, bgError, queue, buffer, wstate, job, op, reply, acked, attempts>>
  BY DEF CheckError, Fail, disk, thread, bounds, IInv, CallerStep
<1>2. (Reading' <=> Reading) /\ (Answering' <=> Answering) /\ Received' = Received
  BY <1>1 DEF Reading, Answering, Received
<1>3. ~InQueue /\ ~InQueue'
  BY <1>1 DEF IInv, OneWaits, InQueue
<1>4. OneWaits' /\ CallerStep'
  BY <1>1, <1>3 DEF IInv, OneWaits, CallerStep
<1>5. AskedFor' /\ Stopping' /\ Quiet'
  BY <1>1, <1>2, <1>3 DEF IInv, AskedFor, Stopping, Quiet
<1>6. Counted' /\ QueueAgrees' /\ NextAgrees' /\ ReplySynced'
  BY <1>1, <1>2, <1>3 DEF IInv, Counted, QueueAgrees, NextAgrees, ReplySynced
<1>7. Numbered' /\ FileAgrees' /\ BufferAgrees' /\ AckedInFile' /\ AckedSynced'
  BY <1>1 DEF IInv, Numbered, FileAgrees, BufferAgrees, AckedInFile, AckedSynced, Durable, Prefix
<1>8. Ghost'
  BY <1>1, <1>2 DEF IInv, Ghost
<1>9. QED
  BY <1>4, <1>5, <1>6, <1>7, <1>8 DEF IInv

\* The group of a durable append is closed.
LEMMA CloseGroupStep ==
    ASSUME IInv, TypeOK', CloseGroup PROVE IInv'
<1>1. /\ wstate = "gather" /\ queue = <<>> /\ wstate' = "flush" /\ job' = "group"
      /\ UNCHANGED <<file, stable, process, chain, mode, bgError, queue, buffer, op, pc, reply, acked, attempts>>
  BY DEF CloseGroup, disk, call, bounds
<1>2. Reading /\ Reading' /\ Answering /\ Answering' /\ Received' = Received /\ ~InQueue /\ ~InQueue'
  BY <1>1 DEF Reading, Answering, Received, InQueue
<1>3. op = "append" /\ pc = "await" /\ reply = "none" /\ process = "up" /\ bgError = "none"
  BY <1>1, <1>2 DEF IInv, AskedFor
<1>4. OneWaits' /\ CallerStep' /\ AskedFor' /\ Stopping' /\ Quiet'
  BY <1>1, <1>2, <1>3 DEF IInv, OneWaits, CallerStep, AskedFor, Stopping, Quiet
<1>5. Counted' /\ QueueAgrees'
  BY <1>1, <1>2, <1>3 DEF IInv, Counted, QueueAgrees
<1>6. NextAgrees' /\ ReplySynced'
  BY <1>1, <1>2, <1>3 DEF IInv, NextAgrees, ReplySynced, NextRecord
<1>7. Numbered' /\ FileAgrees' /\ BufferAgrees' /\ AckedInFile' /\ AckedSynced'
  BY <1>1 DEF IInv, Numbered, FileAgrees, BufferAgrees, AckedInFile, AckedSynced, Durable, Prefix
<1>8. Ghost'
  BY <1>1, <1>2 DEF IInv, Ghost
<1>9. QED
  BY <1>4, <1>5, <1>6, <1>7, <1>8 DEF IInv

\* The chain that is opened is the file.
LEMMA OpenStep ==
    ASSUME IInv, TypeOK', Open PROVE IInv'
<1>a. TypeOK
  BY DEF IInv
<1>1. /\ process' = "up" /\ chain' = file /\ wstate' = "off" /\ queue' = <<>> /\ buffer' = <<>> /\ pc' = "idle"
      /\ UNCHANGED <<file, stable, acked>>
  BY DEF Open, disk
<1>2. ~Reading' /\ ~InQueue' /\ DOMAIN queue' = {} /\ DOMAIN buffer' = {} /\ Len(buffer') = 0
  BY <1>1 DEF Reading, InQueue
<1>3. OneWaits' /\ CallerStep' /\ AskedFor' /\ Stopping' /\ Quiet' /\ Counted'
  BY <1>1, <1>2 DEF OneWaits, CallerStep, AskedFor, Stopping, Quiet, Counted
<1>4. Numbered' /\ FileAgrees' /\ BufferAgrees' /\ QueueAgrees' /\ NextAgrees' /\ ReplySynced'
  BY <1>1, <1>2 DEF IInv, Numbered, FileAgrees, BufferAgrees, QueueAgrees, NextAgrees, ReplySynced
<1>5. AckedInFile' /\ AckedSynced'
  BY <1>1 DEF IInv, AckedInFile, AckedSynced, Durable, Prefix
<1>6. Ghost'
  <2>1. Len(file) \in Nat
    BY <1>a, Sequences
  <2>2. Received' = Len(chain')
    BY <1>1, <1>2, <2>1 DEF Received
  <2>3. QED
    BY <1>1, <2>1, <2>2 DEF Ghost
<1>7. QED
  BY <1>3, <1>4, <1>5, <1>6 DEF IInv

\* A command joins the channel.
LEMMA QueuedShape ==
    ASSUME TypeOK, Send
    PROVE  /\ Len(queue') = Len(queue) + 1 /\ DOMAIN queue' = 1..(Len(queue) + 1)
           /\ \A i \in 1..Len(queue) : queue'[i] = queue[i]
           /\ queue'[Len(queue')] = CommandOf(op) /\ queue' # <<>>
           /\ DOMAIN queue = 1..Len(queue) /\ Len(queue) \in Nat
<1>1. queue \in Seq(Command) /\ CommandOf(op) \in Command /\ queue' = Append(queue, CommandOf(op))
  BY CommandType DEF TypeOK, Send
<1>2. queue' \in Seq(Command) /\ Len(queue') = Len(queue) + 1 /\ queue' # <<>>
  BY <1>1, AppendShape
<1>3. DOMAIN queue' = 1..(Len(queue) + 1)
  BY <1>2, EmptyLen
<1>4. \A i \in 1..Len(queue) : queue'[i] = queue[i]
  BY <1>1, AppendShape
<1>5. queue'[Len(queue')] = CommandOf(op)
  BY <1>1, <1>2, AppendShape
<1>6. QED
  BY <1>1, <1>2, <1>3, <1>4, <1>5, EmptyLen

\* The chain in memory after an append joined it.
LEMMA JoinedShape ==
    ASSUME TypeOK, chain' = Append(chain, NextRecord)
    PROVE  /\ Len(chain') = Len(chain) + 1 /\ DOMAIN chain' = 1..(Len(chain) + 1)
           /\ \A i \in 1..Len(chain) : chain'[i] = chain[i]
           /\ chain'[Len(chain) + 1] = NextRecord /\ NextRecord.index = Len(chain) + 1
           /\ DOMAIN chain = 1..Len(chain) /\ Len(chain) \in Nat
<1>1. chain \in Seq(Record) /\ NextRecord \in Record
  BY NextRecordType DEF TypeOK
<1>2. chain' \in Seq(Record) /\ Len(chain') = Len(chain) + 1
  BY <1>1, AppendShape
<1>3. QED
  BY <1>1, <1>2, AppendShape, EmptyLen DEF NextRecord

\* What an append leaves to be shown of the records when it joins the chain.
LEMMA JoinedNumbered ==
    ASSUME IInv, chain' = Append(chain, NextRecord), UNCHANGED <<file, buffer>>
    PROVE  Numbered'
<1>1. /\ DOMAIN chain' = 1..(Len(chain) + 1)
      /\ \A i \in 1..Len(chain) : chain'[i] = chain[i]
      /\ chain'[Len(chain) + 1].index = Len(chain) + 1
      /\ DOMAIN chain = 1..Len(chain) /\ Len(chain) \in Nat
  BY JoinedShape DEF IInv
<1>2. \A i \in DOMAIN chain' : chain'[i].index = i
  <2>1. TAKE i \in DOMAIN chain'
  <2>2. i \in 1..Len(chain) \/ i = Len(chain) + 1
    BY <1>1, <2>1
  <2>3. QED
    BY <1>1, <2>2 DEF IInv, Numbered
<1>3. QED
  BY <1>2 DEF IInv, Numbered

\* A buffered append joins the channel and the chain in memory at once.
LEMMA SendBufferedStep ==
    ASSUME IInv, TypeOK', Send, op = "append", mode = "buffered" PROVE IInv'
<1>a. TypeOK
  BY DEF IInv
<1>1. /\ pc = "send" /\ wstate # "gone" /\ pc' = "idle" /\ chain' = Append(chain, NextRecord) /\ process' = "up"
      /\ UNCHANGED <<acked, mode, file, stable, bgError, buffer, wstate, job, op, reply, attempts>>
  BY DEF Send, Return, disk, thread, bounds
<1>2. /\ Len(queue') = Len(queue) + 1 /\ DOMAIN queue' = 1..(Len(queue) + 1)
      /\ \A i \in 1..Len(queue) : queue'[i] = queue[i]
      /\ queue'[Len(queue')] = CommandOf(op) /\ queue' # <<>>
      /\ DOMAIN queue = 1..Len(queue) /\ Len(queue) \in Nat
  BY <1>a, QueuedShape
<1>3. CommandOf(op).kind = "append" /\ CommandOf(op).record = NextRecord
  BY DEF CommandOf
<1>4. /\ Len(chain') = Len(chain) + 1 /\ DOMAIN chain' = 1..(Len(chain) + 1)
      /\ \A i \in 1..Len(chain) : chain'[i] = chain[i]
      /\ chain'[Len(chain) + 1] = NextRecord
      /\ Len(chain) \in Nat
  BY <1>a, <1>1, JoinedShape
<1>5. /\ Len(file) \in Nat /\ DOMAIN file = 1..Len(file)
      /\ Len(buffer) \in Nat /\ DOMAIN buffer = 1..Len(buffer)
      /\ Received = Len(file) + Len(buffer) /\ Received \in Nat
  BY <1>a, Sequences DEF Received
<1>6. ~InQueue /\ ~InQueue'
  BY <1>1, <1>2, <1>3 DEF IInv, OneWaits, InQueue
<1>7. process = "up" /\ wstate # "off"
  BY <1>1 DEF IInv, CallerStep
<1>8. Received <= Len(chain)
  BY <1>1, <1>4, <1>5, <1>7 DEF IInv, Ghost
<1>9. (Reading' <=> Reading) /\ (Answering' <=> Answering) /\ Received' = Received
  BY <1>1 DEF Reading, Answering, Received
<1>11. OneWaits'
  <2>1. \A i \in DOMAIN queue : queue[i].kind = "append"
    BY <1>2, <1>6 DEF IInv, OneWaits, InQueue
  <2>2. QED
    BY <1>2, <1>6, <2>1 DEF OneWaits
<1>12. CallerStep' /\ Stopping' /\ Quiet'
  BY <1>1, <1>7, <1>9 DEF IInv, CallerStep, Stopping, Quiet
<1>13. AskedFor'
  BY <1>1, <1>6, <1>9 DEF IInv, AskedFor, Answering
<1>14. Counted'
  <2>1. Reading => Len(chain) = Received + Len(queue)
    BY <1>1, <1>6 DEF IInv, Counted
  <2>2. Reading => Len(chain') = Received' + Len(queue')
    BY <1>2, <1>4, <1>5, <1>9, <2>1
  <2>3. QED
    BY <1>1, <1>6, <1>9, <2>2 DEF Counted
<1>15. Numbered'
  BY <1>1, JoinedNumbered
<1>16. FileAgrees' /\ BufferAgrees'
  <2>1. \A i \in DOMAIN file : i \in 1..Len(chain)
    BY <1>4, <1>5, <1>8
  <2>2. \A i \in DOMAIN buffer : Len(file) + i \in 1..Len(chain)
    BY <1>4, <1>5, <1>8
  <2>3. FileAgrees'
    BY <1>1, <1>4, <2>1 DEF IInv, FileAgrees
  <2>4. BufferAgrees'
    BY <1>1, <1>4, <2>2 DEF IInv, BufferAgrees
  <2>5. QED
    BY <2>3, <2>4
<1>17. QueueAgrees'
  <2>1. SUFFICES ASSUME Reading, NEW i \in DOMAIN queue', queue'[i].kind = "append"
                 PROVE  queue'[i].record = chain'[Received + i]
    BY <1>9 DEF QueueAgrees
  <2>2. Len(chain) = Received + Len(queue)
    BY <1>1, <1>6, <2>1 DEF IInv, Counted
  <2>3. CASE i \in 1..Len(queue)
    <3>1. Received + i \in 1..Len(chain)
      BY <1>2, <1>5, <2>2, <2>3
    <3>2. QED
      BY <1>2, <1>4, <2>1, <2>3, <3>1 DEF IInv, QueueAgrees
  <2>4. CASE i = Len(queue) + 1
    <3>1. Received + i = Len(chain) + 1
      BY <1>2, <1>5, <2>2, <2>4
    <3>2. QED
      BY <1>2, <1>3, <1>4, <2>4, <3>1
  <2>5. QED
    BY <1>2, <2>1, <2>3, <2>4
<1>18. Ghost'
  BY <1>4, <1>5, <1>8, <1>9 DEF Ghost
<1>19. NextAgrees' /\ ReplySynced' /\ AckedInFile' /\ AckedSynced'
  BY <1>1 DEF IInv, NextAgrees, ReplySynced, AckedInFile, AckedSynced, Durable, Prefix
<1>99. QED
  BY <1>11, <1>12, <1>13, <1>14, <1>15, <1>16, <1>17, <1>18, <1>19 DEF IInv

\* Every other command joins the channel and waits.
LEMMA SendAndWaitStep ==
    ASSUME IInv, TypeOK', Send, ~(op = "append" /\ mode = "buffered") PROVE IInv'
<1>a. TypeOK
  BY DEF IInv
<1>1. /\ pc = "send" /\ wstate # "gone" /\ pc' = "await"
      /\ UNCHANGED <<process, chain, acked, mode, file, stable, bgError, buffer, wstate, job, op, reply, attempts>>
  BY DEF Send, disk, thread, bounds
<1>2. /\ Len(queue') = Len(queue) + 1 /\ DOMAIN queue' = 1..(Len(queue) + 1)
      /\ \A i \in 1..Len(queue) : queue'[i] = queue[i]
      /\ queue'[Len(queue')] = CommandOf(op) /\ queue' # <<>>
      /\ DOMAIN queue = 1..Len(queue) /\ Len(queue) \in Nat
  BY <1>a, QueuedShape
<1>3. CommandOf(op).kind # "append" /\ CommandOf(op)' = CommandOf(op) /\ (op = "append" => mode = "strict")
  BY <1>a, <1>1 DEF CommandOf, NextRecord, TypeOK
<1>4. /\ Len(chain) \in Nat /\ Len(file) \in Nat /\ Len(buffer) \in Nat
      /\ Received = Len(file) + Len(buffer) /\ Received \in Nat
  BY <1>a, Sequences DEF Received
<1>6. ~InQueue /\ InQueue'
  BY <1>1, <1>2, <1>3 DEF IInv, OneWaits, InQueue
<1>7. process = "up" /\ wstate # "off" /\ reply = "none"
  BY <1>1 DEF IInv, CallerStep
<1>9. (Reading' <=> Reading) /\ (Answering' <=> Answering) /\ Received' = Received
  BY <1>1 DEF Reading, Answering, Received
<1>11. OneWaits'
  <2>1. \A i \in DOMAIN queue : queue[i].kind = "append"
    BY <1>2, <1>6 DEF IInv, OneWaits, InQueue
  <2>2. QED
    BY <1>1, <1>2, <1>7, <2>1 DEF OneWaits
<1>12. CallerStep' /\ Stopping' /\ Quiet'
  BY <1>1, <1>3, <1>7, <1>9 DEF IInv, CallerStep, Stopping, Quiet
<1>13. AskedFor'
  <2>1. Reading => ~Answering
    BY <1>1 DEF IInv, AskedFor
  <2>2. QED
    BY <1>1, <1>2, <1>3, <1>6, <1>7, <1>9, <2>1 DEF IInv, AskedFor, Answering
<1>14. Counted'
  <2>1. Reading => Len(chain) = Received + Len(queue)
    BY <1>1, <1>6 DEF IInv, Counted
  <2>2. Reading => Len(chain) + 1 = Received + Len(queue')
    BY <1>2, <1>4, <2>1
  <2>3. QED
    BY <1>1, <1>6, <1>9, <2>2 DEF Counted
<1>15. Numbered' /\ FileAgrees' /\ BufferAgrees'
  BY <1>1 DEF IInv, Numbered, FileAgrees, BufferAgrees
<1>17. QueueAgrees'
  <2>1. SUFFICES ASSUME Reading, NEW i \in DOMAIN queue', queue'[i].kind = "append"
                 PROVE  queue'[i].record = chain'[Received + i]
    BY <1>9 DEF QueueAgrees
  <2>2. i \in 1..Len(queue)
    BY <1>2, <1>3, <2>1
  <2>3. QED
    BY <1>1, <1>2, <2>1, <2>2 DEF IInv, QueueAgrees
<1>18. Ghost'
  BY <1>1, <1>9 DEF IInv, Ghost
<1>19. NextAgrees' /\ ReplySynced' /\ AckedInFile' /\ AckedSynced'
  BY <1>1, <1>6, <1>7 DEF IInv, NextAgrees, ReplySynced, AckedInFile, AckedSynced, Durable, Prefix
<1>99. QED
  BY <1>11, <1>12, <1>13, <1>14, <1>15, <1>17, <1>18, <1>19 DEF IInv

\* The writer is gone and nothing is sent.
LEMMA SendFailsStep ==
    ASSUME IInv, TypeOK', SendFails PROVE IInv'
<1>1. /\ pc = "send" /\ pc' = "idle" /\ wstate = "gone"
      /\ process' = process \/ process' = "down"
      /\ UNCHANGED <<chain, acked, file, stable, bgError, buffer, queue, wstate, job, reply>>
  <2>1. /\ pc = "send" /\ wstate = "gone" /\ process = "up"
        /\ UNCHANGED <<file, stable, bgError, buffer, queue, wstate, job, reply>>
    BY DEF SendFails, disk, thread, IInv, CallerStep
  <2>2. CASE op = "close"
    BY <2>1, <2>2 DEF SendFails, Return
  <2>3. CASE op # "close"
    BY <2>1, <2>3 DEF SendFails, Fail
  <2>4. QED
    BY <2>2, <2>3
<1>2. ~Reading /\ ~Reading' /\ Received' = Received /\ ~InQueue /\ ~InQueue'
  BY <1>1 DEF IInv, OneWaits, Reading, Received, InQueue
<1>3. OneWaits' /\ CallerStep' /\ AskedFor' /\ Stopping' /\ Quiet' /\ Counted'
  BY <1>1, <1>2 DEF IInv, OneWaits, CallerStep, AskedFor, Stopping, Quiet, Counted
<1>4. QueueAgrees' /\ NextAgrees' /\ ReplySynced'
  BY <1>2 DEF QueueAgrees, NextAgrees, ReplySynced
<1>5. Numbered' /\ FileAgrees' /\ BufferAgrees' /\ AckedInFile' /\ AckedSynced'
  BY <1>1 DEF IInv, Numbered, FileAgrees, BufferAgrees, AckedInFile, AckedSynced, Durable, Prefix
<1>6. Ghost'
  BY <1>1, <1>2 DEF IInv, Ghost
<1>7. QED
  BY <1>3, <1>4, <1>5, <1>6 DEF IInv

\* A durable append that was answered with Ok joins the chain in memory.
LEMMA AckStep ==
    ASSUME IInv, TypeOK', Await, op = "append", reply = "ok" PROVE IInv'
<1>a. TypeOK
  BY DEF IInv
<1>1. /\ pc = "await" /\ pc' = "idle" /\ chain' = Append(chain, NextRecord) /\ process' = "up"
      /\ UNCHANGED <<file, stable, bgError, queue, buffer, wstate, job, op, reply>>
  BY DEF Await, Return, disk, thread
<1>2. mode = "strict" /\ wstate # "off" /\ process = "up"
  BY <1>1 DEF IInv, CallerStep
<1>3. acked' = chain'
  BY <1>1, <1>2 DEF Await, Return
<1>4. Reading /\ Reading'
  BY <1>1 DEF IInv, Stopping, Reading
<1>5. queue = <<>> /\ wstate = "recv" /\ ~InQueue /\ ~InQueue'
  BY <1>1, <1>4 DEF IInv, AskedFor, InQueue
<1>6. /\ Len(chain') = Len(chain) + 1 /\ DOMAIN chain' = 1..(Len(chain) + 1)
      /\ \A i \in 1..Len(chain) : chain'[i] = chain[i]
      /\ chain'[Len(chain) + 1] = NextRecord
      /\ Len(chain) \in Nat
  BY <1>a, <1>1, JoinedShape
<1>7. /\ Len(file) \in Nat /\ DOMAIN file = 1..Len(file)
      /\ Len(buffer) \in Nat /\ DOMAIN buffer = 1..Len(buffer) /\ (buffer = <<>> <=> Len(buffer) = 0)
      /\ Len(queue) = 0 /\ DOMAIN queue = {}
  BY <1>a, <1>5, Sequences
<1>8. buffer = <<>> /\ file[Len(file)] = NextRecord
  BY <1>1, <1>4, <1>5 DEF IInv, NextAgrees
<1>9. Len(chain) + 1 = Received
  BY <1>1, <1>4, <1>5 DEF IInv, Counted
<1>10. Len(file) = Len(chain') /\ Received' = Received /\ DOMAIN buffer = {}
  <2>1. Len(buffer) = 0 /\ Received = Len(file) + Len(buffer) /\ Received' = Received
    BY <1>1, <1>7, <1>8 DEF Received
  <2>2. DOMAIN buffer = {}
    BY <1>7, <2>1
  <2>3. Len(file) = Len(chain')
    <3>1. Len(file) \in Nat /\ Len(chain') = Len(chain) + 1 /\ Len(chain) \in Nat
      BY <1>6, <1>7
    <3>2. Len(chain') = Received /\ Received = Len(file) + Len(buffer)
      BY <1>9, <2>1, <3>1
    <3>3. QED
      BY <2>1, <3>1, <3>2
  <2>4. QED
    BY <2>1, <2>2, <2>3
<1>11. \A i \in DOMAIN file : file[i] = chain'[i]
  <2>1. TAKE i \in DOMAIN file
  <2>2. i \in 1..Len(chain) \/ i = Len(file)
    BY <1>6, <1>7, <1>10, <2>1
  <2>3. CASE i \in 1..Len(chain)
    BY <1>6, <2>1, <2>3 DEF IInv, FileAgrees
  <2>4. CASE i = Len(file)
    BY <1>6, <1>8, <1>10, <2>4
  <2>5. QED
    BY <2>2, <2>3, <2>4
<1>12. OneWaits' /\ CallerStep' /\ Stopping' /\ Quiet' /\ QueueAgrees'
  BY <1>1, <1>2, <1>4, <1>5, <1>7 DEF OneWaits, CallerStep, Stopping, Quiet, QueueAgrees
<1>13. AskedFor'
  BY <1>1, <1>4, <1>5 DEF IInv, AskedFor, Answering
<1>14. Counted'
  BY <1>1, <1>6, <1>7, <1>9, <1>10, <1>5 DEF Counted
<1>15. Numbered'
  BY <1>1, JoinedNumbered
<1>16. FileAgrees' /\ BufferAgrees'
  BY <1>1, <1>10, <1>11 DEF FileAgrees, BufferAgrees
<1>17. Ghost'
  BY <1>1, <1>6, <1>9, <1>10 DEF Ghost
<1>18. NextAgrees' /\ ReplySynced'
  BY <1>1 DEF NextAgrees, ReplySynced
<1>19. AckedInFile'
  <2>1. Len(chain') <= Len(file)
    BY <1>7, <1>10
  <2>2. \A i \in DOMAIN chain' : i \in DOMAIN file
    BY <1>6, <1>7, <1>10
  <2>3. QED
    BY <1>1, <1>3, <1>11, <2>1, <2>2 DEF AckedInFile, Prefix
<1>20. AckedSynced'
  <2>1. Durable /\ SyncCommits => stable = Len(file)
    BY <1>1, <1>4 DEF IInv, ReplySynced
  <2>2. Durable /\ SyncCommits => Len(acked') <= stable'
    BY <1>1, <1>3, <1>7, <1>10, <2>1
  <2>3. QED
    BY <2>2 DEF AckedSynced, Durable
<1>99. QED
  BY <1>12, <1>13, <1>14, <1>15, <1>16, <1>17, <1>18, <1>19, <1>20 DEF IInv

\* A call that ends and leaves everything but the mode as it is.
LEMMA PlainEndStep ==
    ASSUME IInv, TypeOK', pc' = "idle", ~InQueue, ~Answering \/ ~Reading,
           op = "append" => ~Reading,
           wstate # "off" /\ ~Reading => bgError = "set",
           UNCHANGED <<file, stable, chain, acked, process, bgError, queue, buffer, wstate, job>>
    PROVE  IInv'
<1>1. (Reading' <=> Reading) /\ (Answering' <=> Answering) /\ ~InQueue' /\ Received' = Received
  BY DEF Reading, Answering, InQueue, Received
<1>2. OneWaits' /\ CallerStep'
  BY <1>1 DEF IInv, OneWaits, CallerStep
<1>3. AskedFor'
  BY <1>1 DEF IInv, AskedFor, Answering
<1>4. Stopping' /\ Quiet'
  BY <1>1 DEF IInv, Stopping, Quiet
<1>5. Counted'
  BY <1>1 DEF IInv, Counted
<1>6. QueueAgrees' /\ NextAgrees' /\ ReplySynced'
  BY <1>1 DEF IInv, QueueAgrees, NextAgrees, ReplySynced
<1>7. Numbered' /\ FileAgrees' /\ BufferAgrees' /\ AckedInFile' /\ AckedSynced'
  BY DEF IInv, Numbered, FileAgrees, BufferAgrees, AckedInFile, AckedSynced, Durable, Prefix
<1>8. Ghost'
  <2>1. process = "up" /\ Received > Len(chain) => bgError = "set" /\ wstate # "off"
    BY DEF IInv, Ghost, CallerStep
  <2>2. QED
    BY <1>1, <2>1 DEF IInv, Ghost
<1>9. QED
  BY <1>2, <1>3, <1>4, <1>5, <1>6, <1>7, <1>8 DEF IInv

\* A close that ends takes the process down.
LEMMA CloseEndStep ==
    ASSUME IInv, TypeOK', pc' = "idle", process' = "down", wstate \in {"off", "gone"},
           UNCHANGED <<file, stable, chain, acked, bgError, queue, buffer, wstate, job>>
    PROVE  IInv'
<1>1. ~Reading' /\ Received' = Received /\ ~InQueue' /\ DOMAIN queue' = {}
  BY DEF IInv, Quiet, Reading, Received, InQueue
<1>2. OneWaits' /\ CallerStep' /\ AskedFor' /\ Stopping' /\ Counted'
  BY <1>1 DEF OneWaits, CallerStep, AskedFor, Stopping, Counted
<1>3. Quiet'
  BY DEF IInv, Quiet
<1>4. QueueAgrees' /\ NextAgrees' /\ ReplySynced' /\ Ghost'
  BY <1>1 DEF QueueAgrees, NextAgrees, ReplySynced, Ghost
<1>5. Numbered' /\ FileAgrees' /\ BufferAgrees' /\ AckedInFile' /\ AckedSynced'
  BY DEF IInv, Numbered, FileAgrees, BufferAgrees, AckedInFile, AckedSynced, Durable, Prefix
<1>6. QED
  BY <1>2, <1>3, <1>4, <1>5 DEF IInv

\* The wait for the acknowledgement ends.
LEMMA AwaitStep ==
    ASSUME IInv, TypeOK', Await PROVE IInv'
<1>1. /\ pc = "await" /\ pc' = "idle" /\ (reply # "none" \/ wstate = "gone")
      /\ (op = "close" => wstate = "gone")
      /\ UNCHANGED <<file, stable, bgError, queue, buffer, wstate, job>>
  BY DEF Await, Return, Fail, disk, thread
<1>2. process = "up" /\ wstate # "off"
  BY <1>1 DEF IInv, CallerStep
<1>3. ~InQueue
  BY <1>1 DEF IInv, OneWaits, Quiet, InQueue
<1>4. Reading => reply = "ok" /\ ~Answering
  BY <1>1, <1>3 DEF IInv, AskedFor, Reading, Answering
<1>5. op # "close" /\ ~Reading => bgError = "set"
  BY <1>2 DEF IInv, Stopping
<1>6. CASE op = "close"
  <2>1. process' = "down" /\ UNCHANGED <<chain, acked>>
    BY <1>6 DEF Await, Return
  <2>2. QED
    BY <1>1, <1>6, <2>1, CloseEndStep
<1>7. CASE op = "append" /\ reply = "ok"
  BY <1>7, AckStep
<1>8. CASE op # "close" /\ ~(op = "append" /\ reply = "ok")
  <2>1. UNCHANGED <<chain, acked, process>>
    <3>1. CASE reply = "ok"
      BY <1>2, <1>8, <3>1 DEF Await, Return
    <3>2. CASE reply # "ok"
      BY <1>8, <3>2 DEF Await, Fail
    <3>3. QED
      BY <3>1, <3>2
  <2>2. op = "append" => ~Reading
    BY <1>4, <1>8
  <2>3. QED
    BY <1>1, <1>3, <1>4, <1>5, <1>8, <2>1, <2>2, PlainEndStep
<1>9. QED
  BY <1>6, <1>7, <1>8

\* A call that did not use the channel ends.
LEMMA ReturnNowStep ==
    ASSUME IInv, TypeOK', ReturnNow PROVE IInv'
<1>1. /\ pc = "return" /\ pc' = "idle" /\ op # "append" /\ (op = "close" => wstate = "off")
      /\ process = "up"
      /\ UNCHANGED <<file, stable, bgError, queue, buffer, wstate, job>>
  BY DEF ReturnNow, Return, disk, thread, IInv, CallerStep
<1>2. UNCHANGED <<chain, acked>> /\ process' = (IF op = "close" THEN "down" ELSE "up")
  BY <1>1 DEF ReturnNow, Return
<1>3. ~InQueue
  BY <1>1 DEF IInv, OneWaits
<1>4. Reading => ~Answering
  BY <1>1 DEF IInv, AskedFor
<1>5. wstate # "off" /\ ~Reading => bgError = "set"
  BY <1>1 DEF IInv, Stopping
<1>6. CASE op = "close"
  BY <1>1, <1>2, <1>6, CloseEndStep
<1>7. CASE op # "close"
  BY <1>1, <1>2, <1>3, <1>4, <1>5, <1>7, PlainEndStep
<1>8. QED
  BY <1>6, <1>7

\* The invariant holds of an empty chain that was just opened.
LEMMA InvInit == Init => IInv
<1>1. SUFFICES ASSUME Init PROVE IInv
  OBVIOUS
<1>2. ~Reading /\ ~InQueue /\ Received = 0 /\ Len(chain) = 0
  BY <1>1 DEF Init, Reading, InQueue, Received
<1>3. OneWaits /\ CallerStep /\ AskedFor /\ Stopping /\ Quiet /\ Counted
  BY <1>1, <1>2 DEF Init, OneWaits, CallerStep, AskedFor, Stopping, Quiet, Counted
<1>4. Numbered /\ FileAgrees /\ BufferAgrees /\ QueueAgrees /\ NextAgrees /\ Ghost
  BY <1>1, <1>2 DEF Init, Numbered, FileAgrees, BufferAgrees, QueueAgrees, NextAgrees, Ghost
<1>5. AckedInFile /\ AckedSynced /\ ReplySynced
  BY <1>1, <1>2 DEF Init, AckedInFile, AckedSynced, ReplySynced, Prefix
<1>6. QED
  BY <1>1, <1>3, <1>4, <1>5, TypeInit DEF IInv

\* A step that changes nothing keeps the invariant.
LEMMA StutterStep ==
    ASSUME IInv, TypeOK', UNCHANGED vars PROVE IInv'
<1>1. UNCHANGED <<file, stable, process, chain, mode, bgError, queue, buffer, wstate, job, op, pc, reply, acked, attempts>>
  BY DEF vars, disk, thread, call, bounds
<1>2. /\ Reading' <=> Reading
      /\ Answering' <=> Answering
      /\ InQueue' <=> InQueue
      /\ Received' = Received /\ CommandOf(op)' = CommandOf(op) /\ NextRecord' = NextRecord
  BY <1>1 DEF Reading, Answering, InQueue, Received, CommandOf, NextRecord
<1>3. OneWaits' /\ CallerStep' /\ AskedFor' /\ Stopping' /\ Quiet' /\ Counted'
  BY <1>1, <1>2 DEF IInv, OneWaits, CallerStep, AskedFor, Stopping, Quiet, Counted
<1>4. Numbered' /\ FileAgrees' /\ BufferAgrees' /\ QueueAgrees' /\ NextAgrees' /\ Ghost'
  BY <1>1, <1>2 DEF IInv, Numbered, FileAgrees, BufferAgrees, QueueAgrees, NextAgrees, Ghost
<1>5. AckedInFile' /\ AckedSynced' /\ ReplySynced'
  BY <1>1, <1>2 DEF IInv, AckedInFile, AckedSynced, ReplySynced, Durable, Prefix
<1>6. QED
  BY <1>3, <1>4, <1>5 DEF IInv

\* Every step keeps the invariant: one lemma above for each action.
LEMMA InvNext == IInv /\ [Next]_vars => IInv'
<1>1. SUFFICES ASSUME IInv, [Next]_vars PROVE IInv'
  OBVIOUS
<1>2. TypeOK'
  BY <1>1, TypeNext DEF IInv
<1>3. ASSUME NEW o \in Ops, Begin(o) PROVE IInv'
  BY <1>1, <1>2, <1>3, BeginStep
<1>4. CASE Caller
  <2>1. CASE Send
    BY <1>1, <1>2, <2>1, SendBufferedStep, SendAndWaitStep
  <2>2. QED
    BY <1>1, <1>2, <1>4, <2>1, EnsureWriterStep, CheckErrorStep, SendFailsStep,
       AwaitStep, ReturnNowStep DEF Caller
<1>5. CASE WriterWorks
  BY <1>1, <1>2, <1>5, TakeAppendStep, TakeDurableStep, CloseGroupStep,
     TakeControlStep, FlushNothingStep, WriteOkStep, SyncOkStep DEF WriterWorks
<1>6. CASE FileFails
  BY <1>1, <1>2, <1>6, OpenFailsStep, WriteFailsStep, SyncFailsStep, SpawnFailsStep
     DEF FileFails
<1>7. CASE Crash
  BY <1>1, <1>2, <1>7, CrashStep
<1>8. CASE PowerFails
  BY <1>1, <1>2, <1>8, PowerFailsStep
<1>9. CASE Open
  BY <1>1, <1>2, <1>9, OpenStep
<1>10. CASE UNCHANGED vars
  BY <1>1, <1>2, <1>10, StutterStep
<1>11. QED
  BY <1>1, <1>3, <1>4, <1>5, <1>6, <1>7, <1>8, <1>9, <1>10 DEF Next

\* The inductive invariant holds of every behaviour, for every capacity of the
\* channel, every flush threshold and every bound.
THEOREM InvCorrect == Spec => []IInv
<1>1. Init => IInv
  BY InvInit
<1>2. IInv /\ [Next]_vars => IInv'
  BY InvNext
<1>3. QED
  BY <1>1, <1>2, PTL DEF Spec

\* Every record of the chain file claims the position it is at (FileContiguous),
\* whatever fails and whenever the process or the machine dies.
THEOREM FileIsContiguous == Spec => []FileContiguous
<1>1. IInv => FileContiguous
  BY DEF IInv, Numbered, FileContiguous
<1>2. QED
  BY <1>1, InvCorrect, PTL

\* The file never has another record than the chain in memory at a position both
\* have (ChainAgreesWithFile): a restart replaces no thought that was visible.
THEOREM ChainAgrees == Spec => []ChainAgreesWithFile
<1>1. IInv => ChainAgreesWithFile
  <2>1. SUFFICES ASSUME IInv, NEW i \in DOMAIN file \cap DOMAIN chain
                 PROVE  file[i] = chain[i]
    BY DEF ChainAgreesWithFile
  <2>2. i <= Len(chain)
    BY <2>1, Sequences DEF IInv
  <2>3. QED
    BY <2>1, <2>2 DEF IInv, FileAgrees
<1>2. QED
  BY <1>1, InvCorrect, PTL

\* What a durable append acknowledged stays in the file (AckKept): across process
\* crashes always, across power failures when every commit is synced.
THEOREM AcknowledgedIsKept == Spec => []AckKept
<1>1. IInv => AckKept
  BY DEF IInv, AckedInFile, AckKept, Durable
<1>2. QED
  BY <1>1, InvCorrect, PTL

\* At most one record of the file is missing from the chain in memory, and then
\* the writer has failed or the call is still waiting (GhostStopsTheWriter).
THEOREM GhostIsLast == Spec => []GhostStopsTheWriter
<1>1. IInv => GhostStopsTheWriter
  <2>1. SUFFICES ASSUME IInv, process = "up"
                 PROVE  /\ Len(file) <= Len(chain) + 1
                        /\ Len(file) > Len(chain) => bgError = "set" \/ pc # "idle"
    BY DEF GhostStopsTheWriter
  <2>2. /\ Len(file) \in Nat /\ Len(chain) \in Nat /\ Len(buffer) \in Nat
        /\ Received = Len(file) + Len(buffer)
    BY <2>1, Sequences DEF IInv, Received
  <2>3. CASE Received > Len(chain)
    <3>1. Received = Len(chain) + 1 /\ (bgError = "set" \/ pc # "idle")
      BY <2>1, <2>3 DEF IInv, Ghost
    <3>2. QED
      BY <2>2, <3>1
  <2>4. CASE ~(Received > Len(chain))
    BY <2>2, <2>4
  <2>5. QED
    BY <2>3, <2>4
<1>2. QED
  BY <1>1, InvCorrect, PTL

\* The channel is empty while a group commit looks for more to write
\* (NobodyJoinsAGroup): the state mutex keeps every other caller out.
THEOREM GroupsAreSingle == Spec => []NobodyJoinsAGroup
<1>1. IInv => NobodyJoinsAGroup
  <2>1. SUFFICES ASSUME IInv, wstate = "gather" PROVE queue = <<>>
    BY DEF NobodyJoinsAGroup
  <2>2. Reading /\ Answering
    BY <2>1 DEF Reading, Answering
  <2>3. QED
    BY <2>1, <2>2 DEF IInv, AskedFor
<1>2. QED
  BY <1>1, InvCorrect, PTL

-----------------------------------------------------------------------------
(* The promise of the storage.  It rests on IInv and on three facts more. *)

\* The writer syncs what it has written.
SyncedIsWritten == wstate = "sync" => buffer = <<>>

\* When a flush is told that it went well nothing is left to write; one that asks
\* nobody found no writer.
FlushAnswered ==
    op = "flush" =>
        /\ pc = "await" /\ reply = "ok" => wstate = "recv" /\ buffer = <<>> /\ queue = <<>>
        /\ pc = "return" => wstate = "off"

\* No more records than append calls, the record of the call in progress included.
Budgeted ==
    /\ Len(chain) <= attempts /\ Received <= attempts
    /\ pc # "idle" /\ op = "append" => Len(chain) < attempts

LInv == IInv /\ SyncedIsWritten /\ FlushAnswered /\ Budgeted

-----------------------------------------------------------------------------
(* What every step does to the file and the buffer. *)

\* The lengths of the file and the buffer after a write of the first n records.
LEMMA WrittenShape ==
    ASSUME NEW S, NEW s \in Seq(S), NEW t \in Seq(S), NEW n \in 0..Len(t)
    PROVE  /\ s \o SubSeq(t, 1, n) \in Seq(S) /\ Len(s \o SubSeq(t, 1, n)) = Len(s) + n
           /\ \A i \in 1..Len(s) : (s \o SubSeq(t, 1, n))[i] = s[i]
           /\ \A i \in 1..n : (s \o SubSeq(t, 1, n))[Len(s) + i] = t[i]
OBVIOUS

\* A write in full, or in part: the file ends with the first n records of the buffer.
WrittenPart(n) ==
    /\ Len(file') = Len(file) + n
    /\ \A i \in 1..Len(file) : file'[i] = file[i]
    /\ \A i \in 1..n : file'[Len(file) + i] = buffer[i]

LEMMA PartIsWritten ==
    ASSUME TypeOK, NEW n \in 0..Len(buffer), file' = file \o SubSeq(buffer, 1, n)
    PROVE  WrittenPart(n)
<1>1. file \in Seq(Record) /\ buffer \in Seq(Record)
  BY Sequences
<1>2. /\ Len(file') = Len(file) + n
      /\ \A i \in 1..Len(file) : file'[i] = file[i]
      /\ \A i \in 1..n : file'[Len(file) + i] = buffer[i]
  BY <1>1, WrittenShape
<1>3. QED
  BY <1>2 DEF WrittenPart

LEMMA AllIsWritten ==
    ASSUME TypeOK, file' = file \o buffer
    PROVE  WrittenPart(Len(buffer))
<1>1. buffer = SubSeq(buffer, 1, Len(buffer)) /\ Len(buffer) \in 0..Len(buffer)
  BY Sequences, WholeSeq
<1>2. QED
  BY <1>1, PartIsWritten

\* A process that dies may have been in the middle of a write.
LEMMA CrashWrites ==
    ASSUME TypeOK, Crash
    PROVE  \E n \in 0..Len(buffer) : WrittenPart(n) /\ (n > 0 => wstate = "flush")
<1>a. Len(buffer) \in Nat /\ Len(file) \in Nat
  BY Sequences
<1>1. CASE UNCHANGED file
  BY <1>1, <1>a DEF WrittenPart
<1>2. CASE wstate = "flush" /\ \E n \in 0..Len(buffer) : file' = file \o SubSeq(buffer, 1, n)
  BY <1>2, PartIsWritten
<1>3. QED
  BY <1>1, <1>2 DEF Crash

\* The steps that lengthen the file, and by how much.
LEMMA FileGrows ==
    ASSUME TypeOK, Next, ~PowerFails
    PROVE  \E n \in 0..Len(buffer) : WrittenPart(n) /\ (n > 0 => wstate = "flush")
<1>a. Len(buffer) \in Nat /\ Len(file) \in Nat
  BY Sequences
<1>1. CASE UNCHANGED file
  BY <1>1, <1>a DEF WrittenPart
<1>2. CASE WriteOk
  BY <1>2, <1>a, AllIsWritten DEF WriteOk
<1>3. CASE WriteFails
  <2>1. PICK n \in 0..(Len(buffer) - 1) : file' = file \o SubSeq(buffer, 1, n)
    BY <1>3 DEF WriteFails
  <2>2. n \in 0..Len(buffer)
    BY <1>a
  <2>3. QED
    BY <1>3, <2>1, <2>2, PartIsWritten DEF WriteFails
<1>4. CASE Crash
  BY <1>4, CrashWrites
<1>5. QED
  BY <1>1, <1>2, <1>3, <1>4
     DEF Next, Caller, WriterWorks, FileFails, Begin, EnsureWriter, CheckError, Send, SendFails,
         Await, ReturnNow, TakeAppend, TakeDurable, CloseGroup, TakeControl, FlushNothing,
         SyncOk, OpenFails, SyncFails, SpawnFails, Open, disk

-----------------------------------------------------------------------------
(* The strengthening is inductive. *)

LEMMA SyncedStep ==
    ASSUME IInv, SyncedIsWritten, [Next]_vars PROVE SyncedIsWritten'
<1> USE DEF SyncedIsWritten, disk, thread, call, bounds
<1>1. ASSUME NEW o \in Ops, Begin(o) PROVE SyncedIsWritten'
  BY <1>1 DEF Begin
<1>2. CASE Caller
  BY <1>2 DEF Caller, EnsureWriter, CheckError, Send, SendFails, Await, ReturnNow
<1>3. CASE WriterWorks
  BY <1>3 DEF WriterWorks, TakeAppend, TakeDurable, CloseGroup, TakeControl, FlushNothing,
              WriteOk, SyncOk, Finish
<1>4. CASE FileFails
  BY <1>4 DEF FileFails, OpenFails, WriteFails, SyncFails, SpawnFails, Finish
<1>5. CASE Crash \/ PowerFails \/ Open
  BY <1>5 DEF Crash, PowerFails, Open, Down
<1>6. CASE UNCHANGED vars
  BY <1>6 DEF vars
<1>7. QED
  BY <1>1, <1>2, <1>3, <1>4, <1>5, <1>6 DEF Next

\* The end of a flush that the caller of a flush learns something good from.
LEMMA FlushEndsWell ==
    ASSUME IInv, FlushAnswered, NEW ok \in BOOLEAN, Finish(ok), wstate \in {"flush", "sync"},
           pc = "await", op = "flush", reply' = "ok"
    PROVE  wstate' = "recv" /\ queue' = <<>>
<1>1. reply # "ok"
  BY DEF FlushAnswered
<1>2. job \in Jobs
  BY DEF IInv, TypeOK
<1>3. ok /\ job \in {"group", "flush", "shutdown"}
  BY <1>1 DEF Finish
<1>4. Reading /\ Answering /\ wstate # "gather"
  BY <1>3 DEF Reading, Answering
<1>5. job = "flush" /\ queue = <<>>
  BY <1>3, <1>4 DEF IInv, AskedFor
<1>6. QED
  BY <1>3, <1>5 DEF Finish

LEMMA FlushAnsweredStep ==
    ASSUME IInv, SyncedIsWritten, FlushAnswered, [Next]_vars PROVE FlushAnswered'
<1> USE DEF disk, thread, call, bounds
<1>1. ASSUME NEW o \in Ops, Begin(o) PROVE FlushAnswered'
  BY <1>1 DEF Begin, FlushAnswered
<1>2. CASE Caller
  <2>1. CASE EnsureWriter
    BY <2>1 DEF EnsureWriter, IInv, CallerStep, FlushAnswered
  <2>2. CASE Send
    BY <2>2 DEF Send, Return, IInv, CallerStep, FlushAnswered
  <2>3. QED
    BY <1>2, <2>1, <2>2 DEF Caller, CheckError, SendFails, Await, ReturnNow, Return,
                      Fail, FlushAnswered
<1>3. CASE TakeAppend \/ TakeDurable \/ TakeControl \/ CloseGroup
  BY <1>3 DEF TakeAppend, TakeDurable, TakeControl, CloseGroup, FlushAnswered
<1>4. CASE FlushNothing
  BY <1>4, FlushEndsWell DEF FlushNothing, FlushAnswered
<1>5. CASE WriteOk
  <2>1. CASE Syncs
    BY <1>5, <2>1 DEF WriteOk, FlushAnswered
  <2>2. CASE ~Syncs
    BY <1>5, <2>2, FlushEndsWell DEF WriteOk, FlushAnswered
  <2>3. QED
    BY <2>1, <2>2
<1>6. CASE SyncOk
  BY <1>6, FlushEndsWell DEF SyncOk, FlushAnswered, SyncedIsWritten
<1>7. CASE OpenFails \/ WriteFails \/ SyncFails
  BY <1>7 DEF OpenFails, WriteFails, SyncFails, Finish, FlushAnswered
<1>8. CASE SpawnFails \/ Crash \/ PowerFails \/ Open
  BY <1>8 DEF SpawnFails, Fail, Crash, PowerFails, Open, Down, FlushAnswered
<1>9. CASE UNCHANGED vars
  BY <1>9 DEF vars, FlushAnswered
<1>10. QED
  BY <1>1, <1>2, <1>3, <1>4, <1>5, <1>6, <1>7, <1>8, <1>9 DEF Next, WriterWorks, FileFails

\* A call that ends adds a record to the chain in memory only if it appended one.
LEMMA EndBudgeted ==
    ASSUME IInv, Budgeted, pc # "idle", Return \/ Fail,
           UNCHANGED <<disk, thread, op, reply, bounds>>
    PROVE  Budgeted'
<1>a. attempts \in Nat /\ Len(chain) \in Nat
  BY BoundAssumption, Sequences DEF IInv, TypeOK
<1>0. Received' = Received /\ attempts' = attempts /\ pc' = "idle"
  BY DEF Received, disk, thread, bounds, Return, Fail
<1>1. CASE chain' = chain
  BY <1>0, <1>1 DEF Budgeted
<1>2. CASE op = "append" /\ chain' = Append(chain, NextRecord)
  <2>1. Len(chain') = Len(chain) + 1
    BY <1>2, NextRecordType, AppendShape DEF IInv, TypeOK
  <2>2. QED
    BY <1>a, <1>0, <1>2, <2>1 DEF Budgeted
<1>3. QED
  BY <1>1, <1>2 DEF Return, Fail

\* Nor does the writer: the record it receives is already counted.
LEMMA TakeBudgeted ==
    ASSUME IInv, IInv', Budgeted, TakeAppend \/ TakeDurable PROVE Budgeted'
<1>a. attempts \in Nat /\ Len(chain) \in Nat /\ Received' \in Nat
  BY BoundAssumption, Sequences DEF IInv, TypeOK, Received
<1>0. UNCHANGED <<chain, attempts, pc, op>>
  BY DEF TakeAppend, TakeDurable, call, bounds
<1>1. Reading'
  BY DEF TakeAppend, TakeDurable, Reading
<1>2. process' = "up" /\ bgError' = "none"
  BY <1>1 DEF IInv, AskedFor
<1>3. CASE Received' > Len(chain')
  <2>1. Received' = Len(chain) + 1 /\ pc = "await" /\ op = "append"
    BY <1>0, <1>2, <1>3 DEF IInv, Ghost
  <2>2. QED
    BY <1>a, <1>0, <2>1 DEF Budgeted
<1>4. CASE ~(Received' > Len(chain'))
  <2>1. Received' <= attempts
    BY <1>a, <1>0, <1>4 DEF Budgeted
  <2>2. QED
    BY <1>0, <2>1 DEF Budgeted
<1>5. QED
  BY <1>3, <1>4

LEMMA BudgetedStep ==
    ASSUME IInv, IInv', Budgeted, [Next]_vars PROVE Budgeted'
<1>a. /\ attempts \in Nat /\ Len(chain) \in Nat /\ Len(file) \in Nat /\ Len(buffer) \in Nat
      /\ Len(file') \in Nat /\ Len(buffer') \in Nat /\ Len(<<>>) = 0
  BY SMTT(30), BoundAssumption, Sequences DEF IInv, TypeOK
<1>1. ASSUME NEW o \in Ops, Begin(o) PROVE Budgeted'
  BY <1>1, <1>a DEF Begin, Budgeted, Received, disk, thread
<1>2. CASE Caller
  <2>1. CASE EnsureWriter
    BY <2>1, <1>a DEF EnsureWriter, Budgeted, Received, thread, bounds
  <2>2. CASE CheckError \/ Send
    <3>1. /\ UNCHANGED <<disk, thread, op, reply, bounds>>
          /\ pc \in {"check", "send"} /\ pc' \in {"idle", "send", "await"}
          /\ Return \/ Fail \/ UNCHANGED chain
      BY <2>2 DEF CheckError, Send, Return, Fail
    <3>2. CASE Return \/ Fail
      BY <3>1, <3>2, EndBudgeted
    <3>3. CASE UNCHANGED chain
      BY <3>1, <3>3 DEF Budgeted, Received, disk, thread, bounds
    <3>4. QED
      BY <3>1, <3>2, <3>3
  <2>3. CASE SendFails \/ Await \/ ReturnNow
    BY <2>3, EndBudgeted DEF SendFails, Await, ReturnNow
  <2>4. QED
    BY <1>2, <2>1, <2>2, <2>3 DEF Caller
<1>3. CASE TakeAppend \/ TakeDurable
  BY <1>3, TakeBudgeted
<1>4. CASE /\ WriterWorks \/ OpenFails \/ WriteFails \/ SyncFails
           /\ ~(TakeAppend \/ TakeDurable)
  <2>1. UNCHANGED <<process, chain, attempts, pc, op>>
    BY <1>4 DEF WriterWorks, CloseGroup, TakeControl, FlushNothing, WriteOk, SyncOk, OpenFails,
                WriteFails, SyncFails, call, bounds
  <2>2. PICK n \in 0..Len(buffer) : WrittenPart(n)
    BY <1>4, <2>1, FileGrows DEF IInv, Next, FileFails, PowerFails, Down
  <2>3. buffer' = <<>> \/ (buffer' = buffer /\ file' = file)
    BY <1>4 DEF WriterWorks, CloseGroup, TakeControl, FlushNothing, WriteOk, SyncOk, OpenFails,
                WriteFails, SyncFails, disk
  <2>4. Received' <= Received
    BY <1>a, <2>2, <2>3 DEF Received, WrittenPart
  <2>5. QED
    BY <1>a, <2>1, <2>4 DEF Budgeted, Received
<1>5. CASE SpawnFails
  BY <1>5, <1>a DEF SpawnFails, Fail, Budgeted, Received, thread
<1>6. CASE Crash
  <2>1. PICK n \in 0..Len(buffer) : WrittenPart(n)
    BY <1>6, CrashWrites DEF IInv
  <2>2. QED
    BY <1>6, <1>a, <2>1 DEF Crash, Down, WrittenPart, Budgeted, Received
<1>7. CASE PowerFails
  <2>1. PICK n \in stable..Len(file) : file' = SubSeq(file, 1, n)
    BY <1>7 DEF PowerFails
  <2>2. Len(file') = n
    BY <2>1, Sequences DEF IInv
  <2>3. QED
    BY <1>7, <1>a, <2>1, <2>2 DEF PowerFails, Down, Budgeted, Received
<1>8. CASE Open
  BY <1>8, <1>a DEF Open, Budgeted, Received, disk, bounds
<1>9. CASE UNCHANGED vars
  BY <1>9 DEF vars, disk, thread, call, bounds, Budgeted, Received
<1>10. QED
  BY <1>1, <1>2, <1>3, <1>4, <1>5, <1>6, <1>7, <1>8, <1>9 DEF Next, FileFails

LEMMA LInvInit == Init => LInv
BY InvInit, BoundAssumption DEF Init, LInv, SyncedIsWritten, FlushAnswered, Budgeted, Received

LEMMA LInvNext == LInv /\ [Next]_vars => LInv'
BY InvNext, SyncedStep, FlushAnsweredStep, BudgetedStep DEF LInv

\* The strengthening holds of every behaviour.
THEOREM LInvCorrect == Spec => []LInv
<1>1. QED
  BY LInvInit, LInvNext, PTL DEF Spec

-----------------------------------------------------------------------------
(* What a flush covers. *)

\* The chain in memory of a flush that returns Ok is in the file.
LEMMA FlushCovers ==
    ASSUME LInv, Next, flushed' # flushed
    PROVE  UNCHANGED file /\ flushed' = chain /\ Prefix(chain, file)
<1>1. /\ UNCHANGED file /\ op = "flush" /\ flushed' = chain
      /\ pc = "send" \/ pc = "return" \/ (pc = "await" /\ reply = "ok")
  <2>1. UNCHANGED flushed \/ Send \/ SendFails \/ Await \/ ReturnNow
    BY DEF Next, Caller, WriterWorks, FileFails, Begin, EnsureWriter, CheckError, Fail, Crash,
           PowerFails, Open, TakeAppend, TakeDurable, CloseGroup, TakeControl, FlushNothing,
           WriteOk, SyncOk, OpenFails, WriteFails, SyncFails, SpawnFails
  <2>2. QED
    BY <2>1 DEF Send, SendFails, Await, ReturnNow, Return, Fail, disk
<1>2. pc # "send"
  BY <1>1 DEF Next, Caller, WriterWorks, FileFails, Begin, EnsureWriter, CheckError, Fail, Crash,
     PowerFails, Open, TakeAppend, TakeDurable, CloseGroup, TakeControl, FlushNothing, WriteOk,
     SyncOk, OpenFails, WriteFails, SyncFails, SpawnFails, Send, SendFails, Await, ReturnNow, Return
<1>3. /\ Len(file) \in Nat /\ DOMAIN file = 1..Len(file)
      /\ Len(chain) \in Nat /\ DOMAIN chain = 1..Len(chain)
      /\ Len(buffer) \in Nat /\ (buffer = <<>> => Len(buffer) = 0)
      /\ (queue = <<>> => Len(queue) = 0)
  BY Sequences DEF LInv, IInv
<1>4. Len(chain) = Len(file)
  <2>1. CASE pc = "return"
    <3>1. wstate = "off" /\ process = "up"
      BY <1>1, <2>1 DEF LInv, IInv, CallerStep, FlushAnswered
    <3>2. QED
      BY <3>1 DEF LInv, IInv, Quiet
  <2>2. CASE pc = "await" /\ reply = "ok"
    <3>1. wstate = "recv" /\ buffer = <<>> /\ queue = <<>>
      BY <1>1, <2>2 DEF LInv, FlushAnswered
    <3>2. Reading /\ ~InQueue
      BY <3>1 DEF Reading, InQueue
    <3>3. Len(chain) = Received + Len(queue)
      BY <1>1, <3>2 DEF LInv, IInv, Counted
    <3>4. QED
      BY <1>3, <3>1, <3>3 DEF Received
  <2>3. QED
    BY <1>1, <1>2, <2>1, <2>2
<1>5. QED
  BY <1>1, <1>3, <1>4 DEF LInv, IInv, FileAgrees, Prefix

\* A flush that returned Ok covers every append before it: no step but a power
\* failure takes one of them out of the file (FlushKept).
THEOREM FlushedIsKept == Spec => FlushKept
<1>1. ASSUME LInv, [Next]_vars, Prefix(flushed, file), ~PowerFails
      PROVE  Prefix(flushed', file')
  <2>1. CASE UNCHANGED vars
    BY <1>1, <2>1 DEF vars, disk, Prefix
  <2>2. CASE Next /\ flushed' = flushed
    <3>1. PICK n \in 0..Len(buffer) : WrittenPart(n)
      BY <1>1, <2>2, FileGrows DEF LInv, IInv
    <3>2. /\ Len(file) \in Nat /\ DOMAIN file = 1..Len(file)
          /\ Len(flushed) \in Nat /\ DOMAIN flushed = 1..Len(flushed)
      BY <1>1, EmptyLen DEF LInv, IInv, TypeOK
    <3>3. QED
      BY <1>1, <2>2, <3>1, <3>2 DEF Prefix, WrittenPart
  <2>3. CASE Next /\ flushed' # flushed
    BY <1>1, <2>3, FlushCovers DEF Prefix
  <2>4. QED
    BY <1>1, <2>1, <2>2, <2>3
<1>2. LInv /\ [Next]_vars =>
        [Prefix(flushed, file) /\ ~Prefix(flushed', file') => PowerFails]_vars
  BY <1>1
<1>3. QED
  BY <1>2, LInvCorrect, PTL DEF Spec, FlushKept

-----------------------------------------------------------------------------
(* GroupCommit implements AppendLog. *)

\* The log, and how long it is and what it has at each position.
Entire == file \o Pending

EntireLen ==
    IF Reading THEN Received + Carrying
    ELSE IF wstate \in {"off", "gone"} THEN Len(file)
    ELSE Received

EntireAt(i) ==
    IF i <= Len(file) THEN file[i]
    ELSE IF i <= Received THEN buffer[i - Len(file)]
    ELSE queue[i - Received].record

\* The commands that carry a record come first.
LEMMA CarriedShape ==
    ASSUME IInv
    PROVE  /\ Carrying \in 0..Len(queue)
           /\ \A i \in 1..Carrying : queue[i].record \in Record
           /\ ~InQueue => Carrying = Len(queue)
<1>a. TypeOK /\ Len(queue) \in Nat /\ DOMAIN queue = 1..Len(queue) /\ (queue = <<>> <=> Len(queue) = 0)
  BY Sequences DEF IInv
<1>1. Carrying \in 0..Len(queue)
  BY <1>a DEF Carrying
<1>2. ASSUME NEW i \in 1..Carrying PROVE queue[i].record \in Record
  <2>1. i \in DOMAIN queue /\ queue[i] \in Command /\ queue # <<>>
    BY <1>a, <1>1 DEF TypeOK
  <2>2. queue[i].kind \in {"append", "durable"}
    <3>1. CASE i = Len(queue)
      <4>1. queue[Len(queue)].kind \notin {"flush", "shutdown"}
        BY <1>a, <2>1, <3>1 DEF Carrying
      <4>2. QED
        BY <2>1, <3>1, <4>1 DEF Command
    <3>2. CASE i # Len(queue)
      BY <2>1, <3>2 DEF IInv, OneWaits
    <3>3. QED
      BY <3>1, <3>2
  <2>3. QED
    BY <2>1, <2>2 DEF Command
<1>3. ASSUME ~InQueue PROVE Carrying = Len(queue)
  <2>1. CASE queue = <<>>
    BY <1>a, <2>1 DEF Carrying
  <2>2. CASE queue # <<>> /\ queue[Len(queue)].kind = "append"
    BY <1>a, <2>2 DEF Carrying
  <2>3. QED
    BY <1>3, <2>1, <2>2 DEF InQueue
<1>4. QED
  BY <1>1, <1>2, <1>3

\* Two sequences end to end.
LEMMA JoinShape ==
    ASSUME NEW S, NEW s \in Seq(S), NEW t \in Seq(S)
    PROVE  /\ s \o t \in Seq(S) /\ Len(s \o t) = Len(s) + Len(t)
           /\ \A i \in 1..(Len(s) + Len(t)) :
                (s \o t)[i] = IF i <= Len(s) THEN s[i] ELSE t[i - Len(s)]
OBVIOUS

LEMMA EntireShape ==
    ASSUME IInv
    PROVE  /\ Entire \in Seq(Record) /\ Len(Entire) = EntireLen /\ EntireLen \in Nat
           /\ \A i \in 1..EntireLen : Entire[i] = EntireAt(i)
<1>a. /\ file \in Seq(Record) /\ buffer \in Seq(Record)
      /\ Len(file) \in Nat /\ Len(buffer) \in Nat /\ Len(queue) \in Nat
  BY Sequences DEF IInv
<1>1. CASE Reading
  <2> DEFINE carried == [i \in 1..Carrying |-> queue[i].record]
  <2>1. Carrying \in Nat /\ \A i \in 1..Carrying : queue[i].record \in Record
    BY <1>a, CarriedShape
  <2>2. carried \in Seq(Record) /\ Len(carried) = Carrying
    BY <2>1
  <2>3. Pending = buffer \o carried
    BY <1>1 DEF Reading, Pending
  <2>4. EntireLen = Received + Carrying
    BY <1>1 DEF EntireLen
  <2> HIDE DEF carried
  <2>5. /\ Pending \in Seq(Record) /\ Len(Pending) = Len(buffer) + Carrying
        /\ \A i \in 1..(Len(buffer) + Carrying) :
             Pending[i] = IF i <= Len(buffer) THEN buffer[i] ELSE carried[i - Len(buffer)]
    BY <1>a, <2>2, <2>3, JoinShape
  <2>6. /\ Entire \in Seq(Record) /\ Len(Entire) = Len(file) + Len(Pending)
        /\ \A i \in 1..(Len(file) + Len(Pending)) :
             Entire[i] = IF i <= Len(file) THEN file[i] ELSE Pending[i - Len(file)]
    BY <1>a, <2>5, JoinShape DEF Entire
  <2>7. EntireLen \in Nat /\ Len(Entire) = EntireLen
    BY <1>a, <2>1, <2>4, <2>5, <2>6 DEF Received
  <2>8. ASSUME NEW i \in 1..EntireLen PROVE Entire[i] = EntireAt(i)
    <3>0. Entire[i] = IF i <= Len(file) THEN file[i] ELSE Pending[i - Len(file)]
      BY <1>a, <2>1, <2>4, <2>5, <2>6 DEF Received
    <3>1. CASE i <= Len(file)
      BY <3>0, <3>1 DEF EntireAt
    <3>2. CASE ~(i <= Len(file))
      <4> DEFINE j == i - Len(file)
      <4>1. j \in 1..(Len(buffer) + Carrying)
        BY <1>a, <2>1, <2>4, <3>2 DEF Received
      <4>2. Entire[i] = IF j <= Len(buffer) THEN buffer[j] ELSE carried[j - Len(buffer)]
        BY <2>5, <3>0, <3>2, <4>1
      <4>3. j <= Len(buffer) <=> i <= Received
        BY <1>a, <3>2 DEF Received
      <4>4. ~(j <= Len(buffer)) => /\ j - Len(buffer) \in 1..Carrying
                                   /\ j - Len(buffer) = i - Received
        BY <1>a, <2>1, <4>1 DEF Received
      <4>5. ~(j <= Len(buffer)) => carried[j - Len(buffer)] = queue[i - Received].record
        BY <4>4 DEF carried
      <4>6. QED
        BY <3>2, <4>2, <4>3, <4>5 DEF EntireAt
    <3>3. QED
      BY <3>1, <3>2
  <2>9. QED
    BY <2>6, <2>7, <2>8
<1>2. CASE wstate \in {"off", "gone"}
  <2>1. Pending = <<>> /\ EntireLen = Len(file)
    BY <1>2 DEF Pending, EntireLen, Reading
  <2>2. Entire = file
    BY <1>a, <2>1 DEF Entire
  <2>3. QED
    BY <1>a, <2>1, <2>2 DEF EntireAt
<1>3. CASE ~Reading /\ wstate \notin {"off", "gone"}
  <2>1. Pending = buffer /\ EntireLen = Received
    BY <1>3 DEF IInv, TypeOK, Pending, EntireLen, Reading
  <2>2. QED
    BY <1>a, <2>1, JoinShape DEF Entire, EntireAt, Received
<1>4. QED
  BY <1>1, <1>2, <1>3

\* The same of the next state.
Shaped ==
    /\ Entire \in Seq(Record) /\ Len(Entire) = EntireLen /\ EntireLen \in Nat
    /\ \A i \in 1..EntireLen : Entire[i] = EntireAt(i)

Carried == Carrying \in 0..Len(queue) /\ (~InQueue => Carrying = Len(queue))

LEMMA CarriedShapeNext == IInv' => Carried'
<1>1. IInv => Carried
  BY CarriedShape DEF Carried
<1>2. QED
  BY <1>1, PTL

LEMMA ShapedNext == IInv' => Shaped'
<1>1. IInv => Shaped
  BY EntireShape DEF Shaped
<1>2. QED
  BY <1>1, PTL

\* A shorter sequence with the same elements is the beginning of the longer one.
LEMMA Beginning ==
    ASSUME NEW S, NEW s \in Seq(S), NEW t \in Seq(S), Len(s) <= Len(t),
           \A i \in 1..Len(s) : s[i] = t[i]
    PROVE  Len(s) \in 0..Len(t) /\ s = SubSeq(t, 1, Len(s))
OBVIOUS

\* A sequence with one more element than another, which it begins with.
LEMMA Longer ==
    ASSUME NEW S, NEW s \in Seq(S), NEW t \in Seq(S), NEW x \in S, Len(t) = Len(s) + 1,
           \A i \in 1..Len(s) : t[i] = s[i], t[Len(s) + 1] = x
    PROVE  t = Append(s, x)
OBVIOUS

\* A step that keeps what it leaves of the log loses only the end of it.
LEMMA LoseStep ==
    ASSUME IInv, IInv', Durable, acked' = acked, EntireLen' <= EntireLen,
           \A i \in 1..EntireLen' : EntireAt(i)' = EntireAt(i)
    PROVE  Log!Next
<1>1. Shaped /\ Shaped'
  BY EntireShape, ShapedNext DEF Shaped
<1>2. /\ Entire' \in Seq(Record) /\ Entire \in Seq(Record) /\ Len(Entire') <= Len(Entire)
      /\ \A i \in 1..Len(Entire') : Entire'[i] = Entire[i]
  BY <1>1 DEF Shaped
<1>3. \E n \in 0..Len(Entire) : Entire' = SubSeq(Entire, 1, n)
  BY <1>2, Beginning
<1>4. Len(acked) <= Len(Entire') /\ acked = SubSeq(Entire', 1, Len(acked))
  <2>1. /\ acked \in Seq(Record) /\ Len(acked) \in Nat /\ DOMAIN acked = 1..Len(acked)
        /\ Len(file') \in Nat /\ DOMAIN file' = 1..Len(file')
    BY EmptyLen DEF IInv, TypeOK
  <2>2. Prefix(acked, file')
    BY DEF IInv, AckedInFile
  <2>3. Len(file') <= EntireLen'
    <3>1. Len(buffer') \in Nat /\ Len(queue') \in Nat
      BY EmptyLen DEF IInv, TypeOK
    <3>2. Carrying' \in Nat
      BY <3>1, CarriedShapeNext DEF Carried
    <3>3. QED
      BY <2>1, <3>1, <3>2 DEF EntireLen, Received
  <2>4. \A i \in 1..Len(acked) : acked[i] = Entire'[i]
    BY SMTT(30), <1>1, <2>1, <2>2, <2>3 DEF Prefix, Shaped, EntireAt
  <2>5. QED
    BY <1>1, <1>2, <2>1, <2>2, <2>3, <2>4, Beginning DEF Prefix, Shaped
<1>5. QED
  BY <1>3, <1>4 DEF Log!Next, Log!Lose, Entire

\* A step that adds one record at the end of the log.
LEMMA AcceptStep ==
    ASSUME IInv, IInv', acked' = acked,
           NEW r \in [index: 1..(MaxAppends + 1), id: 0..MaxAppends],
           NEW n \in Nat, n = EntireLen, r.index = n + 1, EntireLen' = n + 1,
           \A i \in 1..n : EntireAt(i)' = EntireAt(i),
           EntireAt(n + 1)' = r
    PROVE  Log!Next
<1>1. Shaped /\ Shaped'
  BY EntireShape, ShapedNext DEF Shaped
<1>2. r \in Record
  BY BoundAssumption DEF Record
<1>3. /\ Entire' \in Seq(Record) /\ Entire \in Seq(Record) /\ Len(Entire') = Len(Entire) + 1
      /\ \A i \in 1..Len(Entire) : Entire'[i] = Entire[i]
      /\ Entire'[Len(Entire) + 1] = r
  BY <1>1 DEF Shaped
<1>4. Entire' = Append(Entire, r) /\ r.index = Len(Entire) + 1
  BY <1>1, <1>2, <1>3, Longer DEF Shaped
<1>5. QED
  BY <1>4 DEF Log!Next, Log!Accept, Entire

\* A durable append that is acknowledged promises the whole log so far.
LEMMA PromiseStep ==
    ASSUME IInv, IInv', Durable, UNCHANGED <<file, buffer, queue, wstate, job>>, acked' = chain',
           Len(acked) <= Len(chain')
    PROVE  Log!Next
<1>1. Entire' = Entire
  BY DEF Entire, Pending, Carrying
<1>2. /\ acked' \in Seq(Record) /\ Len(acked') \in Nat /\ DOMAIN acked' = 1..Len(acked')
      /\ acked \in Seq(Record) /\ Len(acked) \in Nat
      /\ file \in Seq(Record) /\ Len(file) \in Nat /\ DOMAIN file = 1..Len(file)
      /\ Len(buffer) \in Nat /\ Len(queue) \in Nat
  BY EmptyLen DEF IInv, TypeOK
<1>3. Prefix(acked', file)
  BY DEF IInv, AckedInFile, Durable
<1>4. Shaped /\ Carrying \in Nat
  BY <1>2, EntireShape, CarriedShape DEF Shaped
<1>5. Len(file) <= EntireLen
  BY <1>2, <1>4 DEF EntireLen, Received
<1>6. \A i \in 1..Len(acked') : acked'[i] = Entire[i]
  BY <1>2, <1>3, <1>4, <1>5 DEF Prefix, Shaped, EntireAt
<1>7. Len(acked') <= Len(Entire) /\ acked' = SubSeq(Entire, 1, Len(acked'))
  BY <1>2, <1>3, <1>4, <1>5, <1>6, Beginning DEF Prefix, Shaped
<1>8. Len(acked') \in Len(acked)..Len(Entire)
  BY <1>2, <1>4, <1>7 DEF Shaped
<1>9. QED
  BY <1>1, <1>7, <1>8 DEF Log!Next, Log!Promise, Entire

-----------------------------------------------------------------------------
(* Each step of GroupCommit is a step of the log, or none. *)

\* The lengths, and that the log has no fewer records than the file.
LEMMA Sizes ==
    ASSUME IInv
    PROVE  /\ Len(file) \in Nat /\ Len(buffer) \in Nat /\ Len(queue) \in Nat
           /\ Carrying \in 0..Len(queue)
           /\ EntireLen \in Nat /\ EntireLen >= Len(file)
           /\ wstate \notin {"off", "gone"} => EntireLen >= Received
<1>1. /\ Len(file) \in Nat /\ Len(buffer) \in Nat /\ Len(queue) \in Nat
      /\ Carrying \in 0..Len(queue)
  BY Sequences, CarriedShape DEF IInv
<1>2. QED
  BY <1>1 DEF EntireLen, Received

LEMMA SizesNext ==
    ASSUME IInv'
    PROVE  /\ Len(file') \in Nat /\ Len(buffer') \in Nat /\ Len(queue') \in Nat
           /\ Carrying' \in 0..Len(queue') /\ (~InQueue' => Carrying' = Len(queue'))
<1>1. Len(file') \in Nat /\ Len(buffer') \in Nat /\ Len(queue') \in Nat
  BY EmptyLen DEF IInv, TypeOK
<1>2. QED
  BY <1>1, CarriedShapeNext DEF Carried

\* Steps that leave the way from the caller to the file alone.
LEMMA ElsewhereStep ==
    ASSUME UNCHANGED <<file, buffer, queue, wstate, job, acked>>
    PROVE  UNCHANGED Log!vars
BY DEF Log!vars, Pending, Carrying

\* The writer starts with an empty buffer and an empty channel, and a process
\* that opens the chain has no writer.
LEMMA FreshStep ==
    ASSUME IInv, IInv', Durable, UNCHANGED <<file, acked>>,
           \/ wstate' = "off"
           \/ wstate' = "recv" /\ queue' = <<>> /\ buffer' = <<>>
    PROVE  Log!Next
<1>1. EntireLen' = Len(file)
  BY SMTT(30), SizesNext, EmptyLen DEF EntireLen, Received, Reading, IInv, TypeOK
<1>2. \A i \in 1..EntireLen' : EntireAt(i)' = EntireAt(i)
  BY <1>1 DEF EntireAt
<1>3. QED
  BY <1>1, <1>2, Sizes, LoseStep

\* A crash keeps the file, and perhaps some of the buffer.
LEMMA CrashLog ==
    ASSUME IInv, IInv', Durable, Crash
    PROVE  Log!Next
<1>1. PICK n \in 0..Len(buffer) : WrittenPart(n) /\ (n > 0 => wstate = "flush")
  BY CrashWrites DEF IInv
<1>2. wstate' = "off" /\ acked' = acked
  BY DEF Crash, Down
<1>3. EntireLen' = Len(file) + n
  BY <1>1, <1>2 DEF EntireLen, Reading, WrittenPart
<1>4. EntireLen' <= EntireLen
  BY <1>1, <1>3, Sizes DEF Received
<1>5. \A i \in 1..EntireLen' : EntireAt(i)' = EntireAt(i)
  <2>1. SUFFICES ASSUME NEW i \in 1..(Len(file) + n) PROVE EntireAt(i)' = EntireAt(i)
    BY <1>3
  <2>2. EntireAt(i)' = file'[i]
    BY <1>1, Sizes DEF EntireAt, WrittenPart
  <2>3. CASE i <= Len(file)
    BY <1>1, <2>2, <2>3, Sizes DEF EntireAt, WrittenPart
  <2>4. CASE ~(i <= Len(file))
    <3>1. i - Len(file) \in 1..n /\ i <= Received
      BY <1>1, <2>4, Sizes DEF Received
    <3>2. file'[Len(file) + (i - Len(file))] = buffer[i - Len(file)]
      BY <1>1, <3>1 DEF WrittenPart
    <3>3. Len(file) + (i - Len(file)) = i
      BY <1>1, Sizes
    <3>4. QED
      BY <2>2, <2>4, <3>1, <3>2, <3>3 DEF EntireAt
  <2>5. QED
    BY <2>3, <2>4
<1>6. QED
  BY <1>2, <1>4, <1>5, LoseStep

\* A power failure keeps a beginning of the file that has what was promised.
LEMMA PowerFailsLog ==
    ASSUME IInv, IInv', Durable, PowerFails
    PROVE  Log!Next
<1>1. PICK n \in stable..Len(file) : file' = SubSeq(file, 1, n)
  BY DEF PowerFails
<1>2. wstate' = "off" /\ acked' = acked
  BY DEF PowerFails, Down
<1>3. file \in Seq(Record) /\ Len(file) \in Nat /\ n \in 0..Len(file)
  BY <1>1, Sequences DEF IInv
<1>4. Len(file') = n /\ \A i \in 1..n : file'[i] = file[i]
  BY <1>1, <1>3
<1>5. EntireLen' = n
  BY <1>2, <1>4 DEF EntireLen, Reading
<1>6. \A i \in 1..EntireLen' : EntireAt(i)' = EntireAt(i)
  BY <1>3, <1>4, <1>5 DEF EntireAt
<1>7. QED
  BY <1>2, <1>3, <1>5, <1>6, Sizes, LoseStep

\* The writer takes the first command of the channel.
LEMMA TakeLog ==
    ASSUME IInv, IInv', Durable, TakeAppend \/ TakeDurable
    PROVE  Log!Next
<1>1. /\ wstate = "recv" /\ queue # <<>> /\ queue' = Tail(queue)
      /\ buffer' = Append(buffer, Head(queue).record) /\ UNCHANGED <<file, acked>>
      /\ Head(queue).kind \in {"append", "durable"}
      /\ wstate' \in {"recv", "gather"} \/ (wstate' = "flush" /\ job' = "threshold")
  BY DEF TakeAppend, TakeDurable, disk
<1>2. Reading /\ Reading'
  BY <1>1 DEF Reading
<1>3. /\ queue \in Seq(Command) /\ buffer \in Seq(Record)
      /\ Head(queue) = queue[1] /\ queue[1] \in Command /\ Len(queue') = Len(queue) - 1
      /\ \A i \in 1..(Len(queue) - 1) : queue'[i] = queue[i + 1]
  BY <1>1, TailShape DEF IInv, TypeOK
<1>4. queue[1].record \in Record
  BY <1>1, <1>3 DEF Command
<1>5. /\ Len(buffer') = Len(buffer) + 1 /\ buffer'[Len(buffer) + 1] = queue[1].record
      /\ \A i \in 1..Len(buffer) : buffer'[i] = buffer[i]
  BY <1>1, <1>3, <1>4, AppendShape
<1>6. Carrying' = Carrying - 1
  <2>1. Len(queue) \in Nat \ {0} /\ (queue' = <<>> <=> Len(queue) = 1)
    <3>1. queue' \in Seq(Command)
      BY DEF IInv, TypeOK
    <3>2. Len(queue') = 0 <=> queue' = <<>>
      BY <3>1, EmptyLen
    <3>3. Len(queue) # 0
      BY <1>1, <1>3, EmptyLen
    <3>4. QED
      BY <1>3, <3>2, <3>3, Sizes
  <2>2. CASE Len(queue) = 1
    BY <1>1, <1>3, <2>1, <2>2 DEF Carrying
  <2>3. CASE Len(queue) # 1
    <3>1. queue'[Len(queue')] = queue[Len(queue)]
      BY <1>3, <2>1, <2>3
    <3>2. QED
      BY <1>1, <1>3, <2>1, <2>3, <3>1 DEF Carrying
  <2>4. QED
    BY <2>2, <2>3
<1>7. Received' = Received + 1 /\ Received \in Nat
  BY <1>1, <1>5, Sizes DEF Received
<1>8. EntireLen' = EntireLen /\ EntireLen = Received + Carrying
  BY <1>2, <1>6, <1>7, Sizes DEF EntireLen
<1>9. ASSUME NEW i \in 1..EntireLen' PROVE EntireAt(i)' = EntireAt(i)
  <2>0. i \in Nat \ {0} /\ i <= Received + Carrying /\ Len(file') = Len(file) /\ file' = file
    BY <1>1, <1>8, Sizes
  <2>1. CASE i <= Len(file)
    BY <2>0, <2>1 DEF EntireAt
  <2>2. CASE ~(i <= Len(file)) /\ i <= Received
    <3>1. i - Len(file) \in 1..Len(buffer) /\ i <= Received'
      BY <1>7, <2>0, <2>2, Sizes DEF Received
    <3>2. QED
      BY <1>5, <2>0, <2>2, <3>1 DEF EntireAt
  <2>3. CASE i = Received + 1
    <3>1. i - Len(file) = Len(buffer) + 1 /\ i - Received = 1 /\ i <= Received'
          /\ ~(i <= Len(file)) /\ ~(i <= Received)
      BY <1>7, <2>3, Sizes DEF Received
    <3>2. QED
      BY <1>5, <2>0, <3>1 DEF EntireAt
  <2>4. CASE ~(i <= Received + 1)
    <3>1. /\ i - Received' \in 1..(Len(queue) - 1) /\ i - Received' + 1 = i - Received
          /\ ~(i <= Len(file)) /\ ~(i <= Received) /\ ~(i <= Received')
      BY <1>7, <2>0, <2>4, Sizes DEF Received
    <3>2. queue'[i - Received'] = queue[i - Received]
      BY <1>3, <3>1
    <3>3. QED
      BY <2>0, <3>1, <3>2 DEF EntireAt
  <2>5. QED
    BY <1>7, <2>0, <2>1, <2>2, <2>3, <2>4
<1>10. QED
  BY <1>1, <1>8, <1>9, Sizes, LoseStep

\* A flush or a shutdown carries no record, and a group that closes changes none.
LEMMA ControlLog ==
    ASSUME IInv, IInv', Durable, TakeControl \/ CloseGroup
    PROVE  Log!Next
<1>1. /\ wstate \in {"recv", "gather"} /\ wstate' = "flush" /\ job' \in {"flush", "shutdown", "group"}
      /\ UNCHANGED <<file, buffer, acked>>
  BY DEF TakeControl, CloseGroup, disk
<1>2. Reading /\ Reading' /\ Received' = Received
  BY <1>1 DEF Reading, Received
<1>3. Carrying = 0 /\ Carrying' = 0
  <2>1. CASE TakeControl
    <3>1. /\ queue # <<>> /\ queue' = Tail(queue) /\ queue[1].kind \in {"flush", "shutdown"}
          /\ queue \in Seq(Command) /\ Len(queue) \in Nat \ {0} /\ DOMAIN queue = 1..Len(queue)
          /\ Len(queue') = Len(queue) - 1
      BY <2>1, TailShape, EmptyLen DEF TakeControl, IInv, TypeOK
    <3>2. Len(queue) = 1
      BY <3>1 DEF IInv, OneWaits
    <3>3. Carrying = 0 /\ Len(queue') = 0
      BY <3>1, <3>2 DEF Carrying
    <3>4. QED
      BY <3>3, SizesNext
  <2>2. CASE CloseGroup
    BY <2>2, EmptyLen DEF CloseGroup, Carrying, IInv, TypeOK
  <2>3. QED
    BY <2>1, <2>2
<1>4. EntireLen' = EntireLen /\ EntireLen = Received
  BY <1>2, <1>3, Sizes DEF EntireLen, Received
<1>5. \A i \in 1..EntireLen' : EntireAt(i)' = EntireAt(i)
  BY <1>1, <1>2, <1>4, Sizes DEF EntireAt, Received
<1>6. QED
  BY <1>1, <1>4, <1>5, Sizes, LoseStep

\* What a flush leaves of the records the writer holds.
Keeps ==
    /\ Received' <= Received
    /\ \A i \in 1..Received' : i <= Len(file') => file'[i] = IF i <= Len(file) THEN file[i] ELSE buffer[i - Len(file)]
    /\ \A i \in 1..Received' :
         i > Len(file') => i > Len(file) /\ buffer'[i - Len(file')] = buffer[i - Len(file)]
    /\ wstate' \in {"recv", "sync"} => Received' = Received

LEMMA KeptAt ==
    ASSUME IInv, IInv', Keeps, NEW i \in 1..Received'
    PROVE  EntireAt(i)' = EntireAt(i)
<1>1. /\ Len(file) \in Nat /\ Len(file') \in Nat /\ i \in Nat
      /\ Received \in Nat /\ Received' \in Nat /\ i <= Received' /\ i <= Received
  BY Sizes, SizesNext DEF Received, Keeps
<1>2. EntireAt(i) = IF i <= Len(file) THEN file[i] ELSE buffer[i - Len(file)]
  BY <1>1 DEF EntireAt
<1>3. EntireAt(i)' = IF i <= Len(file') THEN file'[i] ELSE buffer'[i - Len(file')]
  BY <1>1 DEF EntireAt
<1>4. CASE i <= Len(file')
  <2>1. file'[i] = IF i <= Len(file) THEN file[i] ELSE buffer[i - Len(file)]
    BY <1>4 DEF Keeps
  <2>2. QED
    BY <1>2, <1>3, <1>4, <2>1
<1>5. CASE ~(i <= Len(file'))
  <2>1. ~(i <= Len(file)) /\ buffer'[i - Len(file')] = buffer[i - Len(file)]
    BY <1>1, <1>5 DEF Keeps
  <2>2. QED
    BY <1>2, <1>3, <1>5, <2>1
<1>6. QED
  BY <1>4, <1>5

\* The writer is done with a flush, or goes on to sync it.
LEMMA FlushLog ==
    ASSUME IInv, IInv', Durable, acked' = acked, wstate \in {"flush", "sync"}, Keeps,
           \/ \E ok \in BOOLEAN : Finish(ok)
           \/ wstate' = "sync" /\ UNCHANGED <<queue, job>>
    PROVE  Log!Next
<1>a. /\ Received \in Nat /\ Received' \in Nat /\ Len(file) <= Received /\ Len(file') <= Received'
      /\ EntireLen \in Nat /\ EntireLen >= Received
  BY Sizes, SizesNext DEF Received
<1>1. CASE wstate' \in {"recv", "sync"}
  <2>1. queue' = queue /\ job' = job /\ (wstate' = "recv" => job # "final")
    BY <1>1 DEF Finish
  <2>2. Reading' <=> Reading
    BY <1>1, <2>1 DEF Reading
  <2>3. Carrying' = Carrying /\ Received' = Received
    BY <1>1, <2>1 DEF Carrying, Keeps
  <2>4. EntireLen' = EntireLen
    BY <1>1, <2>2, <2>3 DEF EntireLen
  <2>5. \A i \in 1..EntireLen' : EntireAt(i)' = EntireAt(i)
    <3>1. SUFFICES ASSUME NEW i \in 1..EntireLen PROVE EntireAt(i)' = EntireAt(i)
      BY <2>4
    <3>2. CASE i <= Received
      <4>1. i \in 1..Received'
        BY <1>a, <2>3, <3>2
      <4>2. QED
        BY <4>1, KeptAt
    <3>3. CASE ~(i <= Received)
      BY <1>a, <2>1, <2>3, <3>3, Sizes, SizesNext DEF EntireAt, Received
    <3>4. QED
      BY <3>2, <3>3
  <2>6. QED
    BY <2>4, <2>5, <1>a, LoseStep
<1>2. CASE wstate' \notin {"recv", "sync"}
  <2>1. EntireLen' <= Received'
    <3>1. wstate' = "gone" \/ (wstate' = "flush" /\ job' = "final")
      BY <1>2 DEF Finish
    <3>2. QED
      BY <1>a, <3>1 DEF EntireLen, Reading
  <2>2. EntireLen' \in Nat /\ EntireLen' <= EntireLen
    BY <1>a, <2>1, ShapedNext DEF Shaped, Keeps
  <2>3. \A i \in 1..EntireLen' : EntireAt(i)' = EntireAt(i)
    BY <1>a, <2>1, <2>2, KeptAt
  <2>4. QED
    BY <2>2, <2>3, LoseStep
<1>3. QED
  BY <1>1, <1>2

\* A flush writes the whole buffer, or nothing, or a part of it and fails.
LEMMA FlushKeeps ==
    ASSUME IInv, SyncedIsWritten, IInv', FlushNothing \/ WriteOk \/ SyncOk \/ OpenFails \/ WriteFails \/ SyncFails
    PROVE  /\ Keeps /\ acked' = acked /\ wstate \in {"flush", "sync"}
           /\ \/ \E ok \in BOOLEAN : Finish(ok)
              \/ wstate' = "sync" /\ UNCHANGED <<queue, job>>
<1>1. CASE FlushNothing \/ SyncOk \/ OpenFails \/ SyncFails
  <2>1. UNCHANGED <<file, buffer>> /\ acked' = acked /\ wstate \in {"flush", "sync"}
        /\ \E ok \in BOOLEAN : Finish(ok)
    BY <1>1 DEF FlushNothing, SyncOk, OpenFails, SyncFails, disk
  <2>2. QED
    BY <2>1, Sizes DEF Keeps, Received
<1>2. CASE WriteOk \/ WriteFails
  <2>1. PICK n \in 0..Len(buffer) : WrittenPart(n) /\ (wstate' \in {"recv", "sync"} => n = Len(buffer))
    <3>1. CASE WriteOk
      BY <3>1, Sizes, AllIsWritten DEF WriteOk, IInv
    <3>2. CASE WriteFails
      <4>1. PICK n \in 0..(Len(buffer) - 1) : file' = file \o SubSeq(buffer, 1, n)
        BY <3>2 DEF WriteFails
      <4>2. n \in 0..Len(buffer) /\ WrittenPart(n)
        BY <4>1, Sizes, PartIsWritten DEF IInv
      <4>3. wstate' \notin {"recv", "sync"}
        BY <3>2 DEF WriteFails, Finish
      <4>4. QED
        BY <4>2, <4>3
    <3>3. QED
      BY <1>2, <3>1, <3>2
  <2>2. /\ buffer' = <<>> /\ Len(buffer') = 0 /\ acked' = acked /\ wstate = "flush"
        /\ \/ \E ok \in BOOLEAN : Finish(ok)
           \/ wstate' = "sync" /\ UNCHANGED <<queue, job>>
    BY <1>2 DEF WriteOk, WriteFails
  <2>3. Received' = Len(file) + n /\ Len(file') = Len(file) + n
    BY <2>1, <2>2, Sizes DEF WrittenPart, Received
  <2>4. ASSUME NEW i \in 1..Received', ~(i <= Len(file)) PROVE file'[i] = buffer[i - Len(file)]
    <3>1. i - Len(file) \in 1..n /\ Len(file) + (i - Len(file)) = i
      BY <2>1, <2>3, <2>4, Sizes
    <3>2. QED
      BY <2>1, <3>1 DEF WrittenPart
  <2>5. Received' <= Received /\ (wstate' \in {"recv", "sync"} => Received' = Received)
    BY <2>1, <2>3, Sizes DEF Received
  <2>6. \A i \in 1..Received' : i <= Len(file') /\ (i <= Len(file) => file'[i] = file[i])
    BY <2>1, <2>3, Sizes DEF WrittenPart
  <2>7. Keeps
    BY <2>4, <2>5, <2>6, <2>3, Sizes DEF Keeps
  <2>8. QED
    BY <2>2, <2>7
<1>3. QED
  BY <1>1, <1>2

\* A command joins the channel.
LEMMA SendLog ==
    ASSUME LInv, IInv', Durable, Send
    PROVE  Log!Next
<1>a. IInv
  BY DEF LInv
<1>1. /\ pc = "send" /\ queue' = Append(queue, CommandOf(op)) /\ wstate # "gone"
      /\ UNCHANGED <<file, buffer, wstate, job>>
  BY DEF Send, disk, thread
<1>2. wstate # "off" /\ ~InQueue
  BY <1>1, <1>a DEF IInv, CallerStep, OneWaits
<1>3. acked' = acked
  BY DEF Send, Return
<1>4. /\ queue \in Seq(Command) /\ CommandOf(op) \in Command /\ Len(queue) \in Nat
      /\ Len(queue') = Len(queue) + 1 /\ queue'[Len(queue) + 1] = CommandOf(op)
      /\ \A i \in 1..Len(queue) : queue'[i] = queue[i]
      /\ queue' # <<>>
  <2>1. CommandOf(op) \in Command /\ queue \in Seq(Command)
    BY <1>1, <1>a, CommandType DEF IInv, TypeOK
  <2>2. QED
    BY <1>1, <2>1, AppendShape, EmptyLen
<1>5. Carrying = Len(queue)
  BY <1>a, <1>2, CarriedShape
<1>6. (Reading' <=> Reading) /\ Received' = Received
  BY <1>1 DEF Reading, Received
<1>7. ASSUME NEW i \in 1..EntireLen, i <= Received + Len(queue) PROVE EntireAt(i)' = EntireAt(i)
  <2>1. CASE i <= Received
    BY <1>1, <1>6, <2>1 DEF EntireAt
  <2>2. CASE ~(i <= Received)
    <3>1. i - Received \in 1..Len(queue)
      BY <1>4, <1>7, <1>a, <2>2, Sizes DEF Received
    <3>2. QED
      BY <1>1, <1>4, <1>6, <2>2, <3>1 DEF EntireAt
  <2>3. QED
    BY <2>1, <2>2
<1>8. EntireLen = IF Reading THEN Received + Len(queue) ELSE Received
  BY <1>1, <1>2, <1>5 DEF EntireLen
<1>9. CASE op = "append" /\ Reading
  <2>1. CommandOf(op).kind \in {"append", "durable"} /\ CommandOf(op).record = NextRecord
    BY <1>9 DEF CommandOf
  <2>2. Carrying' = Len(queue) + 1
    BY <1>4, <2>1 DEF Carrying
  <2>3. EntireLen' = EntireLen + 1
    <3>1. EntireLen' = Received' + Carrying' /\ Received \in Nat
      BY <1>6, <1>9, <1>a, Sizes DEF EntireLen, Received
    <3>2. QED
      BY <1>4, <1>6, <1>8, <1>9, <2>2, <3>1
  <2>4. Len(chain) = Received + Len(queue)
    BY <1>1, <1>2, <1>9, <1>a DEF IInv, Counted
  <2>5. /\ NextRecord.index = EntireLen + 1
        /\ NextRecord \in [index: 1..(MaxAppends + 1), id: 0..MaxAppends]
    <3>1. /\ Len(chain) \in Nat /\ Len(chain) < attempts /\ attempts \in 0..MaxAppends
          /\ NextRecord = [index |-> Len(chain) + 1, id |-> attempts]
      BY <1>1, <1>9, EmptyLen DEF LInv, Budgeted, IInv, TypeOK, NextRecord
    <3>2. QED
      BY <1>8, <1>9, <2>4, <3>1, BoundAssumption
  <2>6. EntireLen \in Nat
    BY <1>a, Sizes
  <2>7. PICK n \in Nat : n = EntireLen
    BY <2>6
  <2>8. PICK r \in [index: 1..(MaxAppends + 1), id: 0..MaxAppends] : r = NextRecord
    BY <2>5
  <2>9. n = Received + Len(queue) /\ r.index = n + 1 /\ EntireLen' = n + 1
    BY <1>8, <1>9, <2>3, <2>5, <2>7, <2>8
  <2>10. ASSUME NEW k \in Nat, k = n + 1 PROVE EntireAt(k)' = r
    <3>1. ~(k <= Len(file')) /\ ~(k <= Received') /\ k - Received' = Len(queue) + 1
      BY <1>1, <1>4, <1>6, <1>a, <2>9, <2>10, Sizes DEF Received
    <3>2. EntireAt(k)' = queue'[k - Received'].record
      BY <3>1 DEF EntireAt
    <3>3. QED
      BY <1>4, <2>1, <2>8, <3>1, <3>2
  <2>11. \A i \in 1..n : EntireAt(i)' = EntireAt(i)
    BY <1>7, <1>8, <1>9, <2>7
  <2>12. EntireAt(n + 1)' = r
    BY <2>10
  <2>13. QED
    BY <1>3, <1>a, <2>7, <2>9, <2>11, <2>12, AcceptStep
<1>10. CASE ~(op = "append" /\ Reading)
  <2>1. Reading => Carrying' = Len(queue)
    <3>1. Reading => CommandOf(op).kind \in {"flush", "shutdown"}
      BY <1>10 DEF CommandOf
    <3>2. QED
      BY <1>4, <3>1 DEF Carrying
  <2>2. EntireLen' = EntireLen
    BY <1>1, <1>2, <1>6, <1>8, <2>1 DEF EntireLen
  <2>3. \A i \in 1..EntireLen' : EntireAt(i)' = EntireAt(i)
    BY <1>7, <1>8, <1>4, <1>a, <2>2, Sizes DEF Received
  <2>4. QED
    BY <1>3, <1>a, <2>2, <2>3, Sizes, LoseStep
<1>11. QED
  BY <1>9, <1>10

\* A call that ends has learnt that its append is durable, or promises nothing.
LEMMA EndLog ==
    ASSUME IInv, IInv', Durable, SendFails \/ Await \/ ReturnNow
    PROVE  Log!Next \/ UNCHANGED Log!vars
<1>1. UNCHANGED <<file, buffer, queue, wstate, job>>
  BY DEF SendFails, Await, ReturnNow, disk, thread
<1>2. CASE acked' = acked
  BY <1>1, <1>2, ElsewhereStep
<1>3. CASE acked' # acked
  <2>1. Await /\ pc = "await" /\ op = "append" /\ mode = "strict" /\ Return /\ reply = "ok"
    <3>1. CASE SendFails
      BY <1>3, <3>1 DEF SendFails, Return, Fail
    <3>2. CASE ReturnNow
      BY <1>3, <3>2 DEF ReturnNow, Return, IInv, CallerStep
    <3>3. CASE Await
      BY <1>3, <3>3 DEF Await, Return, Fail
    <3>4. QED
      BY <3>1, <3>2, <3>3
  <2>2. acked' = chain' /\ chain' = Append(chain, NextRecord)
    BY <2>1 DEF Return
  <2>3. Reading /\ ~InQueue
    BY <2>1 DEF IInv, Stopping, OneWaits
  <2>4. Len(chain) + 1 = Received
    BY <2>1, <2>3 DEF IInv, Counted
  <2>5. Len(chain') = Received
    BY <2>2, <2>4, EmptyLen DEF IInv, TypeOK
  <2>6. Len(acked) <= Len(file)
    BY DEF IInv, AckedInFile, Prefix
  <2>7. Len(acked) <= Len(chain')
    BY <2>5, <2>6, Sizes, EmptyLen DEF Received, IInv, TypeOK
  <2>8. QED
    BY <1>1, <2>2, <2>7, PromiseStep
<1>4. QED
  BY <1>2, <1>3

\* Every step of the storage is a step of the log, or leaves it as it is.
LEMMA LogStep ==
    ASSUME LInv, LInv', Durable, [Next]_vars
    PROVE  [Log!Next]_(Log!vars)
<1>a. IInv /\ SyncedIsWritten /\ IInv'
  BY DEF LInv
<1>1. ASSUME NEW o \in Ops, Begin(o) PROVE UNCHANGED Log!vars
  BY <1>1, ElsewhereStep DEF Begin, disk, thread
<1>2. CASE EnsureWriter
  <2>1. CASE wstate # "off"
    BY <1>2, <2>1, ElsewhereStep DEF EnsureWriter, thread
  <2>2. CASE wstate = "off"
    BY <1>2, <2>2, <1>a, FreshStep DEF EnsureWriter
  <2>3. QED
    BY <2>1, <2>2
<1>3. CASE CheckError \/ SpawnFails
  BY <1>3, ElsewhereStep DEF CheckError, SpawnFails, Fail, disk, thread
<1>4. CASE Send
  BY <1>4, <1>a, SendLog
<1>5. CASE SendFails \/ Await \/ ReturnNow
  BY <1>5, <1>a, EndLog
<1>6. CASE TakeAppend \/ TakeDurable
  BY <1>6, <1>a, TakeLog
<1>7. CASE TakeControl \/ CloseGroup
  BY <1>7, <1>a, ControlLog
<1>8. CASE FlushNothing \/ WriteOk \/ SyncOk \/ OpenFails \/ WriteFails \/ SyncFails
  BY <1>8, <1>a, FlushKeeps, FlushLog
<1>9. CASE Crash
  BY <1>9, <1>a, CrashLog
<1>10. CASE PowerFails
  BY <1>10, <1>a, PowerFailsLog
<1>11. CASE Open
  BY <1>11, <1>a, FreshStep DEF Open, disk
<1>12. CASE UNCHANGED vars
  BY <1>12, ElsewhereStep DEF vars, disk, thread
<1>13. QED
  BY <1>1, <1>2, <1>3, <1>4, <1>5, <1>6, <1>7, <1>8, <1>9, <1>10, <1>11, <1>12
     DEF Next, Caller, WriterWorks, FileFails

\* The storage of a chain is an append-only log that keeps what it promised,
\* whatever fails: under MENTISDB_FSYNC, or as long as the machine stays up
\* (ImplementsAppendLog).
THEOREM LogImplemented == ASSUME Durable PROVE Spec => ImplementsAppendLog
<1>1. Init => Log!Init
  BY DEF Init, Log!Init, Pending
<1>2. LInv /\ LInv' /\ [Next]_vars => [Log!Next]_(Log!vars)
  BY LogStep
<1>3. QED
  BY <1>1, <1>2, LInvCorrect, PTL DEF Spec, ImplementsAppendLog, Log!Spec

-----------------------------------------------------------------------------
(* What an open chain keeps next to its thoughts, and what it answers.  *)

Less == {p \in Nat \X Nat : p[1] < p[2]}

LEMMA LeastNat ==
    ASSUME NEW T, T \subseteq Nat, T # {}
    PROVE  \E x \in T : \A y \in T : x <= y
<1>1. IsWellFoundedOn(Less, Nat)
  BY NatLessThanWellFounded DEF OpToRel, Less
<1>2. \E x \in T : \A y \in T : ~ (<<y, x>> \in Less)
  BY <1>1, WFMin
<1>3. \A x, y \in Nat : y < x => <<y, x>> \in Less
  BY DEF Less
<1>4. \A x, y \in Nat : ~ (y < x) => x <= y
  OBVIOUS
<1>5. QED
  BY <1>2, <1>3, <1>4

LEMMA CountUp ==
    ASSUME NEW n \in Nat, NEW T, 0 \in T, \A i \in 0 .. n - 1 : i \in T => i + 1 \in T
    PROVE  \A i \in 0 .. n : i \in T
<1> DEFINE U == {i \in 0 .. n : i \notin T}
<1>1. SUFFICES ASSUME U # {} PROVE FALSE
  OBVIOUS
<1>2. U \subseteq Nat
  OBVIOUS
<1> HIDE DEF U
<1>3. PICK x \in U : \A y \in U : x <= y
  BY <1>1, <1>2, LeastNat
<1>4. x \in 0 .. n /\ x \notin T /\ x # 0
  BY DEF U
<1>5. x - 1 \in 0 .. n - 1 /\ x - 1 \notin U
  BY <1>3, <1>4, <1>2
<1>6. x - 1 \in T
  BY <1>5 DEF U
<1>7. QED
  BY <1>4, <1>5, <1>6

-----------------------------------------------------------------------------
(* The indexes. *)

\* f makes an index of the first n thoughts of c.
IndexRun(c, field, n, f) ==
    f = [p \in 0 .. n |-> IF p = 0 THEN NoOne ELSE Listed(f[p - 1], c[p][field], p)]

LEMMA IndexRuns ==
    ASSUME NEW c, NEW field, NEW n \in Nat
    PROVE  \E f : IndexRun(c, field, n, f)
<1> DEFINE T == {k \in 0 .. n : \E f : IndexRun(c, field, k, f)}
<1>1. 0 \in T
  <2>1. IndexRun(c, field, 0, [p \in 0 .. 0 |-> NoOne])
    BY DEF IndexRun
  <2>2. QED
    BY <2>1
<1>2. ASSUME NEW k \in 0 .. n - 1, k \in T PROVE k + 1 \in T
  <2>1. PICK f : IndexRun(c, field, k, f)
    BY <1>2
  <2> DEFINE g == [p \in 0 .. k + 1 |->
                     IF p <= k THEN f[p] ELSE Listed(f[k], c[k + 1][field], k + 1)]
  <2>2. \A p \in 0 .. k + 1 :
          g[p] = IF p = 0 THEN NoOne ELSE Listed(g[p - 1], c[p][field], p)
    <3>1. TAKE p \in 0 .. k + 1
    <3>2. CASE p = k + 1
      BY <3>2, k \in Nat
    <3>3. CASE p = 0
      BY <3>3, <2>1 DEF IndexRun
    <3>4. CASE p \in 1 .. k
      <4>1. g[p] = f[p] /\ g[p - 1] = f[p - 1]
        BY <3>4
      <4>2. f[p] = Listed(f[p - 1], c[p][field], p)
        BY <3>4, <2>1 DEF IndexRun
      <4> HIDE DEF g
      <4>3. QED
        BY <3>4, <4>1, <4>2
    <3>5. QED
      BY <3>2, <3>3, <3>4
  <2>3. IndexRun(c, field, k + 1, g)
    BY <2>2 DEF IndexRun
  <2> HIDE DEF g
  <2>4. QED
    BY <2>3
<1> HIDE DEF T
<1>3. \A k \in 0 .. n : k \in T
  BY <1>1, <1>2, CountUp
<1>4. QED
  BY <1>3 DEF T

LEMMA IndexIs ==
    ASSUME NEW S, NEW c \in Seq(S), NEW field
    PROVE  \E f : IndexRun(c, field, Len(c), f) /\ Index(c, field) = f[Len(c)]
<1>1. \E f : IndexRun(c, field, Len(c), f)
  <2>1. Len(c) \in Nat
    OBVIOUS
  <2>2. QED
    BY <2>1, IndexRuns
<1> DEFINE f == CHOOSE f : IndexRun(c, field, Len(c), f)
<1>2. IndexRun(c, field, Len(c), f)
  BY <1>1
<1>3. Index(c, field) = f[Len(c)]
  BY DEF Index, IndexRun
<1> HIDE DEF f
<1>4. QED
  BY <1>2, <1>3

\* One more thought is one more entry.
LEMMA IndexGrows ==
    ASSUME NEW S, NEW c \in Seq(S), NEW x \in S, NEW field
    PROVE  Index(Append(c, x), field) = Listed(Index(c, field), x[field], Len(c) + 1)
<1> DEFINE n == Len(c)
           d == Append(c, x)
<1>1. n \in Nat /\ d \in Seq(S) /\ Len(d) = n + 1 /\ d[n + 1] = x
      /\ \A p \in 1 .. n : d[p] = c[p]
  OBVIOUS
<1>2. PICK f : IndexRun(c, field, n, f) /\ Index(c, field) = f[n]
  BY IndexIs
<1> HIDE DEF n, d
<1>3. PICK g : IndexRun(d, field, n + 1, g) /\ Index(d, field) = g[n + 1]
  BY <1>1, IndexIs
<1> DEFINE T == {k \in 0 .. n : f[k] = g[k]}
<1>4. 0 \in T
  BY <1>1, <1>2, <1>3 DEF IndexRun
<1>5. ASSUME NEW k \in 0 .. n - 1, k \in T PROVE k + 1 \in T
  <2>1. k + 1 \in 1 .. n /\ k + 1 # 0 /\ (k + 1) - 1 = k
    BY <1>1
  <2>2. f[k + 1] = Listed(f[k], c[k + 1][field], k + 1)
    BY <1>1, <1>2, <2>1 DEF IndexRun
  <2>3. g[k + 1] = Listed(g[k], d[k + 1][field], k + 1)
    BY <1>1, <1>3, <2>1 DEF IndexRun
  <2>4. f[k + 1] = g[k + 1]
    BY <1>1, <1>5, <2>1, <2>2, <2>3
  <2>5. QED
    BY <2>1, <2>4
<1> HIDE DEF T
<1>6. n \in T
  <2>1. \A i \in 0 .. n : i \in T
    BY <1>1, <1>4, <1>5, CountUp
  <2>2. QED
    BY <1>1, <2>1
<1>7. g[n + 1] = Listed(g[n], d[n + 1][field], n + 1)
  BY <1>1, <1>3 DEF IndexRun
<1>8. QED
  BY <1>1, <1>2, <1>3, <1>6, <1>7 DEF T, n, d

LEMMA AppendedSet ==
    ASSUME NEW S, NEW s \in Seq(S), NEW x
    PROVE  ToSet(Append(s, x)) = ToSet(s) \cup {x}
<1>1. Len(s) \in Nat /\ DOMAIN s = 1 .. Len(s)
  OBVIOUS
<1>2. Append(s, x) \in Seq(S \cup {x}) /\ DOMAIN Append(s, x) = 1 .. Len(s) + 1
      /\ \A i \in 1 .. Len(s) + 1 :
           Append(s, x)[i] = IF i <= Len(s) THEN s[i] ELSE x
  <2>1. s \in Seq(S \cup {x})
    OBVIOUS
  <2>2. QED
    BY <2>1
<1> DEFINE t == Append(s, x)
<1> HIDE DEF t
<1>3. \A y : (\E i \in 1 .. Len(s) + 1 : y = t[i]) <=> (\E i \in 1 .. Len(s) : y = s[i]) \/ y = x
  <2>1. \A i \in 1 .. Len(s) : i \in 1 .. Len(s) + 1 /\ t[i] = s[i]
    BY <1>1, <1>2 DEF t
  <2>2. Len(s) + 1 \in 1 .. Len(s) + 1 /\ t[Len(s) + 1] = x
    BY <1>1, <1>2 DEF t
  <2>3. \A i \in 1 .. Len(s) + 1 : i \in 1 .. Len(s) \/ i = Len(s) + 1
    BY <1>1
  <2>4. QED
    BY <2>1, <2>2, <2>3
<1>4. QED
  BY <1>1, <1>2, <1>3 DEF ToSet, t

\* What an index i of the first n thoughts says.
Says(c, field, n, i) ==
    /\ DOMAIN i = {c[p][field] : p \in 1 .. n} \ {Absent}
    /\ \A v \in DOMAIN i :
         i[v] \in Seq(Nat) /\ ToSet(i[v]) = {p \in 1 .. n : c[p][field] = v}

LEMMA ListedSays ==
    ASSUME NEW c, NEW field, NEW n \in Nat, NEW i, Says(c, field, n, i)
    PROVE  Says(c, field, n + 1, Listed(i, c[n + 1][field], n + 1))
<1> DEFINE w == c[n + 1][field]
           j == Listed(i, w, n + 1)
           At(v, m) == {p \in 1 .. m : c[p][field] = v}
<1>1. \A v : At(v, n + 1) = At(v, n) \cup (IF v = w THEN {n + 1} ELSE {})
  OBVIOUS
<1>2. {c[p][field] : p \in 1 .. n + 1} = {c[p][field] : p \in 1 .. n} \cup {w}
  <2>1. 1 .. n + 1 = 1 .. n \cup {n + 1}
    OBVIOUS
  <2>2. QED
    BY <2>1
<1>3. CASE w = Absent
  <2>1. j = i
    BY <1>3 DEF Listed
  <2>2. QED
    BY ZenonT(40), <1>1, <1>2, <1>3, <2>1 DEF Says
<1>4. CASE w # Absent
  <2>1. DOMAIN j = DOMAIN i \cup {w}
    BY <1>4 DEF Listed
  <2>2. \A v \in DOMAIN i \cup {w} :
          j[v] = IF v = w THEN (IF v \in DOMAIN i THEN Append(i[v], n + 1) ELSE <<n + 1>>)
                 ELSE i[v]
    BY <1>4 DEF Listed
  <2> HIDE DEF j
  <2>3. ASSUME NEW v \in DOMAIN j
        PROVE  j[v] \in Seq(Nat) /\ ToSet(j[v]) = At(v, n + 1)
    <3>1. CASE v # w
      <4>1. v \in DOMAIN i /\ j[v] = i[v] /\ At(v, n + 1) = At(v, n)
        BY <1>1, <2>1, <2>2, <2>3, <3>1
      <4>2. i[v] \in Seq(Nat) /\ ToSet(i[v]) = At(v, n)
        BY <4>1 DEF Says
      <4>3. QED
        BY <4>1, <4>2
    <3>2. CASE v = w /\ v \in DOMAIN i
      <4>1. i[v] \in Seq(Nat) /\ ToSet(i[v]) = At(v, n) /\ j[v] = Append(i[v], n + 1)
        BY <2>2, <3>2 DEF Says
      <4>2. Append(i[v], n + 1) \in Seq(Nat)
        BY <4>1
      <4>3. ToSet(j[v]) = ToSet(i[v]) \cup {n + 1}
        BY <4>1, AppendedSet
      <4>4. QED
        BY <1>1, <3>2, <4>1, <4>2, <4>3
    <3>3. CASE v = w /\ v \notin DOMAIN i
      <4>1. At(v, n) = {}
        BY <1>4, <3>3 DEF Says
      <4>2. j[v] = <<n + 1>> /\ <<n + 1>> \in Seq(Nat) /\ ToSet(<<n + 1>>) = {n + 1}
        BY <2>2, <3>3 DEF ToSet
      <4>3. QED
        BY <1>1, <3>3, <4>1, <4>2
    <3>4. QED
      BY <2>1, <2>3, <3>1, <3>2, <3>3
  <2>4. QED
    BY <1>2, <1>4, <2>1, <2>3 DEF Says, j
<1>5. QED
  BY <1>3, <1>4

LEMMA IndexSays ==
    ASSUME NEW S, NEW c \in Seq(S), NEW field
    PROVE  Says(c, field, Len(c), Index(c, field))
<1> DEFINE n == Len(c)
<1>1. n \in Nat
  OBVIOUS
<1>2. PICK f : IndexRun(c, field, n, f) /\ Index(c, field) = f[n]
  BY IndexIs
<1> DEFINE T == {k \in 0 .. n : Says(c, field, k, f[k])}
<1> HIDE DEF n
<1>3. 0 \in T
  <2>1. f[0] = NoOne
    BY <1>1, <1>2 DEF IndexRun
  <2>2. DOMAIN NoOne = {} /\ 1 .. 0 = {}
    BY DEF NoOne
  <2>3. QED
    BY <1>1, <2>1, <2>2 DEF Says
<1>4. ASSUME NEW k \in 0 .. n - 1, k \in T PROVE k + 1 \in T
  <2>1. k \in Nat /\ k + 1 \in 1 .. n /\ k + 1 # 0 /\ (k + 1) - 1 = k
    BY <1>1
  <2>2. f[k + 1] = Listed(f[k], c[k + 1][field], k + 1)
    BY <1>1, <1>2, <2>1 DEF IndexRun
  <2>3. QED
    BY <1>4, <2>1, <2>2, ListedSays
<1> HIDE DEF T
<1>5. n \in T
  <2>1. \A i \in 0 .. n : i \in T
    BY <1>1, <1>3, <1>4, CountUp
  <2>2. QED
    BY <1>1, <2>1
<1>6. QED
  BY <1>2, <1>5 DEF T, n

-----------------------------------------------------------------------------
(* The registry. *)

RecordFields == {"name", "owner", "about", "aliases", "count", "last"}
Registry(registry) ==
    \A a \in DOMAIN registry :
        DOMAIN registry[a] = RecordFields /\ registry[a].count \in Nat

\* The registry counts the first n thoughts of c.
Counts(c, n, registry) ==
    /\ \A p \in 1 .. n : c[p].agent \in DOMAIN registry
    /\ \A a \in DOMAIN registry :
         registry[a].count = Cardinality({p \in 1 .. n : c[p].agent = a})

LEMMA SeenIs ==
    ASSUME NEW r, DOMAIN r = RecordFields, r.count \in Nat, NEW name, NEW owner, NEW position
    PROVE  /\ DOMAIN Seen(r, name, owner, position) = RecordFields
           /\ Seen(r, name, owner, position).count = r.count + 1
<1> DEFINE k == Renamed(r, name)
<1>1. DOMAIN k = RecordFields /\ k.count = r.count
  BY DEF Renamed, RecordFields
<1> HIDE DEF k
<1>2. QED
  BY <1>1 DEF Seen, RecordFields, k

LEMMA StubIs ==
    ASSUME NEW a, NEW name
    PROVE  /\ DOMAIN Stub(a) = RecordFields /\ Stub(a).count = 0
           /\ DOMAIN [Stub(a) EXCEPT !.name = name] = RecordFields
           /\ [Stub(a) EXCEPT !.name = name].count = 0
BY DEF Stub, RecordFields

\* The registry new is the old one in which an agent has one more thought.
OneMore(old, agent, new) ==
    /\ Registry(new) /\ DOMAIN new = DOMAIN old \cup {agent}
    /\ \A a \in DOMAIN old \ {agent} : new[a] = old[a]
    /\ new[agent].count = 1 + (IF agent \in DOMAIN old THEN old[agent].count ELSE 0)

LEMMA ObservedIs ==
    ASSUME NEW registry, Registry(registry), NEW agent, NEW name, NEW owner, NEW position
    PROVE  OneMore(registry, agent, Observed(registry, agent, name, owner, position))
<1> DEFINE new == Observed(registry, agent, name, owner, position)
           r == IF agent \in DOMAIN registry THEN registry[agent]
                ELSE [Stub(agent) EXCEPT !.name = IF name = Absent THEN @ ELSE name]
<1>1. /\ DOMAIN new = DOMAIN registry \cup {agent}
      /\ \A a \in DOMAIN registry \ {agent} : new[a] = registry[a]
      /\ new[agent] = Seen(r, name, owner, position)
  BY DEF Observed
<1>2. /\ DOMAIN r = RecordFields
      /\ r.count = IF agent \in DOMAIN registry THEN registry[agent].count ELSE 0
  BY StubIs DEF Registry
<1>3. r.count \in Nat
  BY <1>2 DEF Registry
<1> HIDE DEF r, new
<1>4. DOMAIN new[agent] = RecordFields /\ new[agent].count = r.count + 1
  BY <1>1, <1>2, <1>3, SeenIs
<1>5. Registry(new)
  <2>1. SUFFICES ASSUME NEW a \in DOMAIN new
                 PROVE  DOMAIN new[a] = RecordFields /\ new[a].count \in Nat
    BY DEF Registry
  <2>2. CASE a = agent
    BY <1>3, <1>4, <2>2
  <2>3. CASE a # agent
    BY <1>1, <2>3 DEF Registry
  <2>4. QED
    BY <2>2, <2>3
<1>6. new[agent].count = 1 + (IF agent \in DOMAIN registry THEN registry[agent].count ELSE 0)
  BY <1>2, <1>3, <1>4
<1>7. QED
  BY <1>1, <1>5, <1>6 DEF OneMore, new

\* Observing the next thought counts it.
LEMMA CountGrows ==
    ASSUME NEW c, NEW n \in Nat, NEW registry, Registry(registry), Counts(c, n, registry),
           NEW agent, agent = c[n + 1].agent, NEW name, NEW owner, NEW position
    PROVE  Counts(c, n + 1, Observed(registry, agent, name, owner, position))
<1> DEFINE new == Observed(registry, agent, name, owner, position)
           At(a, m) == {p \in 1 .. m : c[p].agent = a}
<1>1. /\ DOMAIN new = DOMAIN registry \cup {agent}
      /\ \A a \in DOMAIN registry \ {agent} : new[a] = registry[a]
      /\ new[agent].count = 1 + (IF agent \in DOMAIN registry
                                 THEN registry[agent].count ELSE 0)
  <2>1. OneMore(registry, agent, new)
    BY ObservedIs
  <2> HIDE DEF new
  <2>2. QED
    BY <2>1 DEF OneMore
<1> HIDE DEF new
<1>2. \A a : At(a, n + 1) = At(a, n) \cup (IF a = agent THEN {n + 1} ELSE {})
  OBVIOUS
<1>3. \A a : IsFiniteSet(At(a, n)) /\ Cardinality(At(a, n)) \in Nat
  <2>1. TAKE a
  <2>2. IsFiniteSet(1 .. n)
    BY FS_Interval
  <2>3. At(a, n) \in SUBSET (1 .. n)
    OBVIOUS
  <2>4. IsFiniteSet(At(a, n))
    BY <2>2, <2>3, FS_Subset
  <2>5. QED
    BY <2>4, FS_CardinalityType
<1>4. Cardinality(At(agent, n + 1)) = Cardinality(At(agent, n)) + 1
  <2>1. n + 1 \notin At(agent, n)
    OBVIOUS
  <2>2. At(agent, n + 1) = At(agent, n) \cup {n + 1}
    BY <1>2
  <2> HIDE DEF At
  <2>3. QED
    BY <1>3, <2>1, <2>2, FS_AddElement
<1>5. agent \notin DOMAIN registry => Cardinality(At(agent, n)) = 0
  <2>1. ASSUME agent \notin DOMAIN registry PROVE At(agent, n) = {}
    BY <2>1 DEF Counts
  <2>2. QED
    BY <2>1, FS_EmptySet
<1>6. ASSUME NEW a \in DOMAIN new PROVE new[a].count = Cardinality(At(a, n + 1))
  <2>1. CASE a # agent
    <3>1. a \in DOMAIN registry /\ new[a] = registry[a]
      BY <1>1, <1>6, <2>1
    <3>2. At(a, n + 1) = At(a, n)
      BY <1>2, <2>1
    <3>3. registry[a].count = Cardinality(At(a, n))
      BY <3>1 DEF Counts
    <3>4. QED
      BY <3>1, <3>2, <3>3
  <2>2. CASE a = agent /\ agent \in DOMAIN registry
    <3>1. registry[agent].count = Cardinality(At(agent, n))
      BY <2>2 DEF Counts
    <3>2. new[a].count = 1 + registry[agent].count
      BY <1>1, <2>2
    <3>3. Cardinality(At(agent, n)) \in Nat
      BY <1>3
    <3> HIDE DEF At
    <3>4. QED
      BY <1>4, <2>2, <3>1, <3>2, <3>3
  <2>3. CASE a = agent /\ agent \notin DOMAIN registry
    BY <1>1, <1>3, <1>4, <1>5, <2>3
  <2>4. QED
    BY <2>1, <2>2, <2>3
<1>7. \A p \in 1 .. n + 1 : c[p].agent \in DOMAIN new
  <2>1. TAKE p \in 1 .. n + 1
  <2>2. CASE p = n + 1
    BY <1>1, <2>2
  <2>3. CASE p \in 1 .. n
    BY <1>1, <2>3 DEF Counts
  <2>4. QED
    BY <2>2, <2>3
<1>8. QED
  BY <1>6, <1>7 DEF Counts, new

\* f counts the first n thoughts again.
Recount(c, registry, n, f) ==
    f = [p \in 0 .. n |->
          IF p = 0 THEN [a \in DOMAIN registry |-> [registry[a] EXCEPT !.count = 0]]
          ELSE Observed(f[p - 1], c[p].agent, Absent, Absent, p)]

LEMMA Recounts ==
    ASSUME NEW c, NEW registry, NEW n \in Nat
    PROVE  \E f : Recount(c, registry, n, f)
<1> DEFINE base == [a \in DOMAIN registry |-> [registry[a] EXCEPT !.count = 0]]
           T == {k \in 0 .. n : \E f : Recount(c, registry, k, f)}
<1>1. 0 \in T
  <2>1. Recount(c, registry, 0, [p \in 0 .. 0 |-> base])
    BY DEF Recount
  <2>2. QED
    BY <2>1
<1>2. ASSUME NEW k \in 0 .. n - 1, k \in T PROVE k + 1 \in T
  <2>1. PICK f : Recount(c, registry, k, f)
    BY <1>2
  <2> HIDE DEF base
  <2> DEFINE g == [p \in 0 .. k + 1 |->
                     IF p <= k THEN f[p]
                     ELSE Observed(f[k], c[k + 1].agent, Absent, Absent, k + 1)]
  <2>2. \A p \in 0 .. k + 1 :
          g[p] = IF p = 0 THEN base ELSE Observed(g[p - 1], c[p].agent, Absent, Absent, p)
    <3>1. TAKE p \in 0 .. k + 1
    <3>2. CASE p = k + 1
      BY <3>2, k \in Nat
    <3>3. CASE p = 0
      BY <3>3, <2>1 DEF Recount, base
    <3>4. CASE p \in 1 .. k
      <4>1. g[p] = f[p] /\ g[p - 1] = f[p - 1]
        BY <3>4
      <4>2. f[p] = Observed(f[p - 1], c[p].agent, Absent, Absent, p)
        BY <3>4, <2>1 DEF Recount
      <4> HIDE DEF g
      <4>3. QED
        BY <3>4, <4>1, <4>2
    <3>5. QED
      BY <3>2, <3>3, <3>4
  <2>3. Recount(c, registry, k + 1, g)
    BY <2>2 DEF Recount, base
  <2> HIDE DEF g
  <2>4. QED
    BY <2>3
<1> HIDE DEF T
<1>3. \A k \in 0 .. n : k \in T
  BY <1>1, <1>2, CountUp
<1>4. QED
  BY <1>3 DEF T

LEMMA RecountStep ==
    ASSUME NEW c, NEW registry, NEW n \in Nat, NEW f, Recount(c, registry, n, f), NEW p \in 1 .. n
    PROVE  f[p] = Observed(f[p - 1], c[p].agent, Absent, Absent, p)
<1>1. p \in 0 .. n /\ p # 0
  OBVIOUS
<1>2. QED
  BY <1>1 DEF Recount

\* Whatever registry was saved, once read back it counts the chain.
LEMMA ReplayedCounts ==
    ASSUME NEW S, NEW c \in Seq(S), NEW registry, Registry(registry)
    PROVE  Registry(Replayed(c, registry)) /\ Counts(c, Len(c), Replayed(c, registry))
<1> DEFINE n == Len(c)
           base == [a \in DOMAIN registry |-> [registry[a] EXCEPT !.count = 0]]
<1>1. n \in Nat
  OBVIOUS
<1>2. \E f : Recount(c, registry, n, f) /\ Replayed(c, registry) = f[n]
  <2> DEFINE f == CHOOSE f : Recount(c, registry, n, f)
  <2>1. \E g : Recount(c, registry, n, g)
    BY <1>1, Recounts
  <2>2. Recount(c, registry, n, f)
    BY <2>1
  <2>3. Replayed(c, registry) = f[n]
    BY DEF Replayed, Recount
  <2> HIDE DEF f
  <2>4. QED
    BY <2>2, <2>3
<1>3. PICK f : Recount(c, registry, n, f) /\ Replayed(c, registry) = f[n]
  BY <1>2
<1> DEFINE T == {k \in 0 .. n : Registry(f[k]) /\ Counts(c, k, f[k])}
<1> HIDE DEF n
<1> HIDE DEF base
<1>5. 0 \in T
  <2>1. f[0] = base
    BY <1>1, <1>3 DEF Recount, base
  <2>2. \A a \in DOMAIN base : DOMAIN base[a] = RecordFields /\ base[a].count = 0
    BY DEF Registry, RecordFields, base
  <2>3. \A a : Cardinality({p \in 1 .. 0 : c[p].agent = a}) = 0
    <3>1. TAKE a
    <3>2. {p \in 1 .. 0 : c[p].agent = a} = {}
      OBVIOUS
    <3>3. QED
      BY <3>2, FS_EmptySet
  <2>4. Registry(base) /\ Counts(c, 0, base)
    BY <2>2, <2>3 DEF Registry, Counts
  <2>5. QED
    BY <1>1, <2>1, <2>4
<1>6. ASSUME NEW k \in 0 .. n - 1, k \in T PROVE k + 1 \in T
  <2>1. k \in Nat /\ k + 1 \in 1 .. n /\ k + 1 # 0 /\ (k + 1) - 1 = k
    BY <1>1
  <2>2. f[k + 1] = Observed(f[k], c[k + 1].agent, Absent, Absent, k + 1)
    <3>1. f[k + 1] = Observed(f[(k + 1) - 1], c[k + 1].agent, Absent, Absent, k + 1)
      BY ZenonT(40), <1>1, <1>3, <2>1, RecountStep
    <3>2. QED
      BY <2>1, <3>1
  <2>3. Registry(f[k]) /\ Counts(c, k, f[k])
    BY <1>6
  <2>4. Registry(f[k + 1])
    <3>1. OneMore(f[k], c[k + 1].agent, Observed(f[k], c[k + 1].agent, Absent, Absent, k + 1))
      BY <2>3, ObservedIs
    <3>2. QED
      BY <2>2, <3>1 DEF OneMore
  <2>5. Counts(c, k + 1, f[k + 1])
    BY <2>1, <2>2, <2>3, CountGrows
  <2>6. QED
    BY <2>1, <2>4, <2>5
<1> HIDE DEF T
<1>7. n \in T
  <2>1. \A i \in 0 .. n : i \in T
    BY <1>1, <1>5, <1>6, CountUp
  <2>2. QED
    BY <1>1, <2>1
<1>8. QED
  BY <1>3, <1>7 DEF T, n

-----------------------------------------------------------------------------
(* Thoughts, and the window of recent ones. *)

Thoughts == {Thought(d, at, target) : d \in Drafts, at \in Nat, target \in Nat \cup {Absent}}
Texts == {d.text : d \in Drafts}

LEMMA ThoughtIs ==
    ASSUME NEW d \in Drafts, NEW at, NEW target
    PROVE  /\ Thought(d, at, target).at = at
           /\ Thought(d, at, target).supersedes = target
           /\ \A x \in DraftFields : Thought(d, at, target)[x] = d[x]
<1>1. "at" \notin DraftFields /\ "supersedes" \notin DraftFields
  BY DEF DraftFields
<1>2. QED
  BY <1>1 DEF Thought

LEMMA ThoughtsAre ==
    ASSUME NEW t \in Thoughts
    PROVE  /\ t.agent # Absent /\ t.kind # Absent /\ t.at \in Nat /\ t.text \in Texts
           /\ t.supersedes \in Nat \cup {Absent}
<1>1. PICK d \in Drafts, at \in Nat, target \in Nat \cup {Absent} : t = Thought(d, at, target)
  BY DEF Thoughts
<1>2. {"agent", "kind", "text"} \subseteq DraftFields
  BY DEF DraftFields
<1>3. t.agent = d.agent /\ t.kind = d.kind /\ t.text = d.text
  BY <1>1, <1>2, ThoughtIs
<1>4. t.at = at /\ t.supersedes = target
  BY <1>1, ThoughtIs
<1>5. d.agent # Absent /\ d.kind # Absent
  BY QueryAssumption
<1>6. QED
  BY <1>3, <1>4, <1>5 DEF Texts

\* The first of the recent thoughts of a chain of n.
From(n) == IF n > DedupWindow THEN n - DedupWindow + 1 ELSE 1

WindowFits(w, c) ==
    /\ w = [start |-> w.start, texts |-> w.texts, tail |-> w.tail]
    /\ w.start \in Nat \ {0} /\ w.texts \in Seq(Texts)
    /\ w.texts # <<>> =>
         /\ w.tail = w.start + Len(w.texts) - 1
         /\ w.tail <= Len(c) /\ w.start <= From(Len(c))
         /\ \A i \in 1 .. Len(w.texts) : w.texts[i] = c[w.start + i - 1].text

\* What the window is when it is up to date.
Recent(c) ==
    [start |-> From(Len(c)),
     texts |-> [i \in 1 .. Len(c) - From(Len(c)) + 1 |-> c[From(Len(c)) + i - 1].text],
     tail |-> Len(c)]

LEMMA FromIs ==
    ASSUME NEW n \in Nat
    PROVE  /\ From(n) \in Nat \ {0} /\ From(n) <= n + 1 /\ From(n) <= From(n + 1)
           /\ n - From(n) + 1 \in Nat
<1>1. DedupWindow \in Nat \ {0}
  BY QueryAssumption
<1>2. QED
  BY <1>1 DEF From

LEMMA Concatenated ==
    ASSUME NEW S, NEW s \in Seq(S), NEW t \in Seq(S)
    PROVE  /\ s \o t \in Seq(S) /\ Len(s \o t) = Len(s) + Len(t)
           /\ \A i \in 1 .. Len(s) + Len(t) :
                (s \o t)[i] = IF i <= Len(s) THEN s[i] ELSE t[i - Len(s)]
OBVIOUS

LEMMA SyncedIs ==
    ASSUME thoughts \in Seq(Thoughts), NEW w, WindowFits(w, thoughts)
    PROVE  Synced(w) = Recent(thoughts)
<1> DEFINE n == Len(thoughts)
           from == From(n)
           passed == IF from > w.start THEN from - w.start ELSE 0
           texts == SubSeq(w.texts, passed + 1, Len(w.texts))
           start == IF texts = <<>> THEN from ELSE w.start + passed
           rest == [i \in 1 .. n - (start + Len(texts) - 1) |->
                      thoughts[start + Len(texts) - 1 + i].text]
<1>1. n \in Nat /\ from \in Nat \ {0} /\ from <= n + 1
  BY FromIs
<1>2. w.start \in Nat \ {0} /\ w.texts \in Seq(Texts) /\ Len(w.texts) \in Nat
  BY DEF WindowFits
<1>3. Aligned(w, from)
  BY <1>1, <1>2 DEF WindowFits, Aligned
<1>4. Synced(w) = [start |-> start, texts |-> texts \o rest, tail |-> n]
  BY <1>3 DEF Synced, From
<1> HIDE DEF n, from
<1>5. passed \in Nat
  BY <1>1, <1>2
<1>6. /\ texts \in Seq(Texts)
      /\ Len(texts) = IF passed < Len(w.texts) THEN Len(w.texts) - passed ELSE 0
      /\ \A i \in 1 .. Len(texts) : texts[i] = w.texts[passed + i]
  <2> HIDE DEF passed
  <2>1. passed + 1 \in Nat /\ passed + 1 >= 1
    BY <1>5
  <2>2. QED
    BY <1>2, <1>5, <2>1
<1>7. start = from /\ (texts # <<>> => passed = from - w.start /\ Len(texts) <= n - from + 1)
  <2>1. CASE texts = <<>>
    BY <2>1
  <2>2. CASE texts # <<>>
    <3>1. Len(texts) # 0
      <4> HIDE DEF texts
      <4>1. QED
        BY <1>6, <2>2
    <3>2. passed < Len(w.texts) /\ w.texts # <<>>
      <4> HIDE DEF texts
      <4>1. passed < Len(w.texts)
        BY <1>6, <3>1
      <4>2. QED
        BY <1>5, <4>1
    <3>3. w.start + Len(w.texts) - 1 <= n /\ w.start <= from
      BY <3>2 DEF WindowFits, n, from
    <3>4. passed = from - w.start
      BY <1>1, <1>2, <3>3
    <3>5. Len(texts) = Len(w.texts) - passed
      BY <1>6, <3>2
    <3> HIDE DEF passed, texts
    <3>6. Len(texts) <= n - from + 1
      BY <1>1, <1>2, <3>3, <3>4, <3>5
    <3>7. QED
      BY <1>1, <1>2, <2>2, <3>4, <3>6
  <2>3. QED
    BY <2>1, <2>2
<1>8. \A i \in 1 .. Len(texts) : texts[i] = thoughts[from + i - 1].text
  <2>1. TAKE i \in 1 .. Len(texts)
  <2>2. texts # <<>> /\ Len(texts) \in Nat
    <3> HIDE DEF texts
    <3>1. QED
      BY <1>6, <2>1
  <2>3. passed = from - w.start
    BY <1>7, <2>2
  <2>4. texts[i] = w.texts[passed + i]
    BY <1>6, <2>1
  <2>5. passed < Len(w.texts) /\ Len(texts) = Len(w.texts) - passed
    <3> HIDE DEF texts, passed
    <3>1. QED
      BY <1>2, <1>5, <1>6, <2>1, <2>2
  <2> HIDE DEF texts, passed
  <2>6. passed + i \in 1 .. Len(w.texts) /\ w.texts # <<>>
    BY <1>2, <1>5, <2>1, <2>2, <2>5
  <2>7. w.texts[passed + i] = thoughts[w.start + (passed + i) - 1].text
    BY <2>6 DEF WindowFits
  <2>8. w.start + (passed + i) - 1 = from + i - 1
    BY <1>1, <1>2, <2>1, <2>2, <2>3
  <2>9. QED
    BY <2>4, <2>7, <2>8
<1>9. texts \o rest = [i \in 1 .. n - from + 1 |-> thoughts[from + i - 1].text]
  <2> DEFINE m == Len(texts)
  <2>1. m \in Nat /\ m <= n - from + 1
    <3>1. m \in Nat
      BY <1>6
    <3>2. texts = <<>> => m = 0
      BY <1>6
    <3> HIDE DEF texts
    <3>3. QED
      BY <1>1, <1>7, <3>1, <3>2
  <2> HIDE DEF texts, passed, m
  <2>2. rest = [i \in 1 .. n - from + 1 - m |-> thoughts[from + m - 1 + i].text]
    BY SMTT(30), <1>1, <1>7, <2>1 DEF m
  <2> HIDE DEF rest, start
  <2>3. \A i \in 1 .. n - from + 1 - m : thoughts[from + m - 1 + i].text \in Texts
    <3>1. TAKE i \in 1 .. n - from + 1 - m
    <3>2. from + m - 1 + i \in 1 .. n
      BY <1>1, <2>1, <3>1
    <3>3. thoughts[from + m - 1 + i] \in Thoughts
      BY <3>2 DEF n
    <3>4. QED
      BY <3>3, ThoughtsAre
  <2>4. rest \in Seq(Texts) /\ Len(rest) = n - from + 1 - m
    BY <1>1, <2>1, <2>2, <2>3
  <2>5. texts \o rest \in Seq(Texts) /\ Len(texts \o rest) = n - from + 1
        /\ \A i \in 1 .. n - from + 1 :
             (texts \o rest)[i] = IF i <= m THEN texts[i] ELSE rest[i - m]
    <3>1. texts \in Seq(Texts) /\ Len(texts) = m
      BY <1>6 DEF m
    <3>2. texts \o rest \in Seq(Texts) /\ Len(texts \o rest) = m + (n - from + 1 - m)
          /\ \A i \in 1 .. m + (n - from + 1 - m) :
               (texts \o rest)[i] = IF i <= m THEN texts[i] ELSE rest[i - m]
      <4>1. /\ texts \o rest \in Seq(Texts) /\ Len(texts \o rest) = Len(texts) + Len(rest)
            /\ \A i \in 1 .. Len(texts) + Len(rest) :
                 (texts \o rest)[i] = IF i <= Len(texts) THEN texts[i]
                                      ELSE rest[i - Len(texts)]
        BY <2>4, <3>1, Concatenated
      <4>2. QED
        BY <2>4, <3>1, <4>1
    <3>3. m + (n - from + 1 - m) = n - from + 1
      BY <1>1, <2>1
    <3>4. QED
      BY <3>2, <3>3
  <2>6. \A i \in 1 .. n - from + 1 : (texts \o rest)[i] = thoughts[from + i - 1].text
    <3>1. TAKE i \in 1 .. n - from + 1
    <3>2. CASE i <= m
      BY <1>8, <2>1, <2>5, <3>1, <3>2 DEF m
    <3>3. CASE i > m
      <4>1. i - m \in 1 .. n - from + 1 - m /\ from + m - 1 + (i - m) = from + i - 1
        BY <1>1, <2>1, <3>1, <3>3
      <4>2. rest[i - m] = thoughts[from + m - 1 + (i - m)].text
        BY <2>2, <4>1
      <4>3. QED
        BY <2>1, <2>5, <3>1, <3>3, <4>1, <4>2
    <3>4. i <= m \/ i > m
      BY <2>1, <3>1
    <3>5. QED
      BY <3>2, <3>3, <3>4
  <2> DEFINE t == texts \o rest
  <2> HIDE DEF t
  <2>7. t \in Seq(Texts) /\ Len(t) = n - from + 1
        /\ \A i \in 1 .. n - from + 1 : t[i] = thoughts[from + i - 1].text
    BY <2>5, <2>6 DEF t
  <2>8. t = [i \in 1 .. n - from + 1 |-> thoughts[from + i - 1].text]
    BY <2>7
  <2>9. QED
    BY <2>8 DEF t
<1> HIDE DEF texts, rest, start, passed
<1>10. QED
  BY <1>4, <1>7, <1>9 DEF Recent, n, from

\* The window that is up to date fits, and goes on fitting as the chain grows.
LEMMA RecentFits ==
    ASSUME NEW c \in Seq(Thoughts)
    PROVE  WindowFits(Recent(c), c)
<1> DEFINE n == Len(c)
           from == From(n)
           w == Recent(c)
<1>1. n \in Nat /\ from \in Nat \ {0} /\ from <= n + 1
  BY FromIs
<1>2. w.start = from /\ w.tail = n
      /\ w.texts = [i \in 1 .. n - from + 1 |-> c[from + i - 1].text]
      /\ w = [start |-> w.start, texts |-> w.texts, tail |-> w.tail]
  BY DEF Recent
<1> HIDE DEF w, from
<1>3. \A i \in 1 .. n - from + 1 : c[from + i - 1].text \in Texts
  <2>1. TAKE i \in 1 .. n - from + 1
  <2>2. from + i - 1 \in 1 .. n
    BY <1>1, <2>1
  <2>3. c[from + i - 1] \in Thoughts
    BY <2>2
  <2>4. QED
    BY <2>3, ThoughtsAre
<1>4. w.texts \in Seq(Texts) /\ Len(w.texts) = n - from + 1
  BY SMTT(30), <1>1, <1>2, <1>3
<1>5. QED
  BY <1>1, <1>2, <1>4 DEF WindowFits, w, from

LEMMA FitsOn ==
    ASSUME NEW c \in Seq(Thoughts), NEW x \in Thoughts, NEW w, WindowFits(w, c)
    PROVE  WindowFits(w, Append(c, x))
<1> DEFINE n == Len(c)
           d == Append(c, x)
<1>1. n \in Nat /\ Len(d) = n + 1 /\ \A p \in 1 .. n : d[p] = c[p]
  OBVIOUS
<1> HIDE DEF d
<1>2. w.start \in Nat \ {0} /\ w.texts \in Seq(Texts) /\ Len(w.texts) \in Nat
  BY DEF WindowFits
<1>3. From(n) \in Nat /\ From(n + 1) \in Nat /\ From(n) <= From(n + 1)
  BY <1>1, FromIs
<1>4. ASSUME w.texts # <<>>
      PROVE  /\ w.tail = w.start + Len(w.texts) - 1 /\ w.tail <= n + 1 /\ w.start <= From(n + 1)
             /\ \A i \in 1 .. Len(w.texts) : w.texts[i] = d[w.start + i - 1].text
  <2>1. /\ w.tail = w.start + Len(w.texts) - 1 /\ w.tail <= n /\ w.start <= From(n)
        /\ \A i \in 1 .. Len(w.texts) : w.texts[i] = c[w.start + i - 1].text
    BY <1>4 DEF WindowFits
  <2>2. \A i \in 1 .. Len(w.texts) : w.start + i - 1 \in 1 .. n
    BY <1>1, <1>2, <2>1
  <2>3. \A i \in 1 .. Len(w.texts) : w.texts[i] = d[w.start + i - 1].text
    BY <1>1, <2>1, <2>2
  <2>4. w.tail <= n + 1 /\ w.start <= From(n + 1)
    BY <1>1, <1>2, <1>3, <2>1
  <2>5. QED
    BY <2>1, <2>3, <2>4
<1>5. QED
  BY <1>1, <1>2, <1>4 DEF WindowFits, d

LEMMA SupersededIs ==
    ASSUME NEW d, NEW w, w.start \in Nat, Len(w.texts) \in Nat
    PROVE  Superseded(d, w) \in Nat \cup {Absent}
<1> DEFINE alike == {p \in w.start .. w.start + Len(w.texts) - 1 :
                       /\ w.texts[p - w.start + 1] = d.text
                       /\ thoughts[p].weight <= d.weight
                       /\ ~ thoughts[p].private}
<1>1. alike \subseteq Nat
  OBVIOUS
<1>2. Superseded(d, w) = IF d.signed \/ d.text = Absent \/ alike = {} THEN Absent ELSE Min(alike)
  BY DEF Superseded
<1> HIDE DEF alike
<1>3. alike # {} => Min(alike) \in alike
  BY <1>1, LeastNat DEF Min
<1>4. QED
  BY <1>1, <1>2, <1>3

-----------------------------------------------------------------------------
(* The invariant. *)

\* The word index and its hashes have every author's text as it is now.
WordsFollow ==
    /\ DOMAIN hashes = DOMAIN agents
    /\ \A a \in DOMAIN agents : hashes[a] = TextOf(agents[a])
    /\ lexical = Lexical(thoughts, agents)

IndexesFollow ==
    /\ byAgent = Index(thoughts, "agent") /\ byKind = Index(thoughts, "kind")
    /\ byTag = Index(thoughts, "tag") /\ replacing = Index(thoughts, "supersedes")

RegistryCounts ==
    /\ Registry(agents) /\ Registry(savedAgents)
    /\ Counts(thoughts, Len(thoughts), agents)

QueryInv ==
    /\ thoughts \in Seq(Thoughts)
    /\ RegistryCounts /\ WordsFollow /\ IndexesFollow
    /\ WindowFits(window, thoughts)

LEMMA QueryInvInit == QueriesInit => QueryInv
<1> SUFFICES ASSUME QueriesInit PROVE QueryInv
  OBVIOUS
<1>1. thoughts = <<>> /\ thoughts \in Seq(Thoughts) /\ Len(thoughts) = 0 /\ DOMAIN thoughts = {}
  BY DEF QueriesInit
<1>2. DOMAIN NoOne = {}
  BY DEF NoOne
<1>3. agents = NoOne /\ savedAgents = NoOne /\ hashes = NoOne /\ lexical = <<>>
  BY DEF QueriesInit
<1>4. RegistryCounts
  BY <1>1, <1>2, <1>3 DEF RegistryCounts, Registry, Counts
<1>5. WordsFollow
  <2>1. Lexical(thoughts, agents) = <<>>
    BY <1>1 DEF Lexical
  <2>2. QED
    BY <1>2, <1>3, <2>1 DEF WordsFollow
<1>6. \A field : Index(thoughts, field) = NoOne
  <2>1. TAKE field
  <2>2. PICK f : IndexRun(thoughts, field, Len(thoughts), f)
                 /\ Index(thoughts, field) = f[Len(thoughts)]
    BY <1>1, IndexIs
  <2>3. QED
    BY <1>1, <2>2 DEF IndexRun
<1>7. IndexesFollow
  BY <1>6 DEF IndexesFollow, QueriesInit
<1>8. WindowFits(window, thoughts)
  BY DEF QueriesInit, NoWindow, WindowFits
<1>9. QED
  BY <1>1, <1>4, <1>5, <1>7, <1>8 DEF QueryInv

\* What is kept is what it would be if it were made anew.
LEMMA InvIsRemade == QueryInv => KeptIsRemade
<1> SUFFICES ASSUME QueryInv PROVE KeptIsRemade
  OBVIOUS
<1>1. thoughts \in Seq(Thoughts) /\ Positions = 1 .. Len(thoughts)
  BY DEF QueryInv, Positions
<1>2. \A a \in DOMAIN agents :
        agents[a].count = Cardinality({p \in Positions : thoughts[p].agent = a})
  BY <1>1 DEF QueryInv, RegistryCounts, Counts
<1>3. Synced(window).texts =
        [i \in 1 .. Len(thoughts) - From(Len(thoughts)) + 1 |->
            thoughts[From(Len(thoughts)) + i - 1].text]
  <2>1. Synced(window) = Recent(thoughts)
    BY <1>1, SyncedIs DEF QueryInv
  <2>2. QED
    BY <2>1 DEF Recent
<1>4. QED
  BY <1>2, <1>3 DEF KeptIsRemade, QueryInv, WordsFollow, IndexesFollow, From

LEMMA SaveKeeps ==
    ASSUME NEW registry, Registry(registry), Registry(savedAgents), NEW forced, NEW counters,
           SaveAgents(registry, forced, counters)
    PROVE  Registry(savedAgents')
BY DEF SaveAgents, Registry

\* One more thought of an agent leaves every author's text in the word index.
WordsGrown(x, registry, agent) ==
    /\ DOMAIN Hashed(registry, {agent}) = DOMAIN registry
    /\ \A a \in DOMAIN registry : Hashed(registry, {agent})[a] = TextOf(registry[a])
    /\ ~ TextChanged(registry, {agent}) =>
         Append(lexical, TextOf(registry[agent])) = Lexical(Append(thoughts, x), registry)

LEMMA WordsGrow ==
    ASSUME thoughts \in Seq(Thoughts), NEW x \in Thoughts, WordsFollow,
           \A p \in 1 .. Len(thoughts) : thoughts[p].agent \in DOMAIN agents,
           NEW registry, NEW agent, agent = x.agent,
           OneMore(agents, agent, registry)
    PROVE  WordsGrown(x, registry, agent)
<1> DEFINE c == thoughts
<1>0. /\ DOMAIN registry = DOMAIN agents \cup {agent}
      /\ \A a \in DOMAIN agents \ {agent} : registry[a] = agents[a]
      /\ DOMAIN hashes = DOMAIN agents
      /\ \A a \in DOMAIN agents : hashes[a] = TextOf(agents[a])
      /\ lexical = Lexical(c, agents)
  BY DEF OneMore, WordsFollow
<1>1. DOMAIN Hashed(registry, {agent}) = DOMAIN registry
  BY <1>0 DEF Hashed
<1>2. \A a \in DOMAIN registry : Hashed(registry, {agent})[a] = TextOf(registry[a])
  BY <1>0 DEF Hashed
<1>3. ASSUME ~ TextChanged(registry, {agent})
      PROVE  Append(lexical, TextOf(registry[agent])) = Lexical(Append(thoughts, x), registry)
  <2> DEFINE n == Len(c)
             d == Append(c, x)
             Old(p) == TextOf(agents[c[p].agent])
             New(p) == TextOf(registry[d[p].agent])
  <2>1. n \in Nat /\ DOMAIN c = 1 .. n /\ DOMAIN d = 1 .. n + 1 /\ d[n + 1] = x
        /\ \A p \in 1 .. n : d[p] = c[p]
    OBVIOUS
  <2> HIDE DEF d, n
  <2>2. \A p \in 1 .. n : Old(p) = New(p)
    <3>1. TAKE p \in 1 .. n
    <3>2. c[p].agent \in DOMAIN agents /\ d[p].agent = c[p].agent
      BY <2>1 DEF n
    <3>3. CASE c[p].agent = agent
      <4>1. hashes[agent] = TextOf(registry[agent])
        BY <1>0, <1>3, <3>2, <3>3 DEF TextChanged
      <4>2. QED
        BY <1>0, <3>2, <3>3, <4>1
    <3>4. CASE c[p].agent # agent
      BY <1>0, <3>2, <3>4
    <3>5. QED
      BY <3>3, <3>4
  <2>3. lexical = [p \in 1 .. n |-> Old(p)]
    BY <1>0, <2>1 DEF Lexical
  <2>4. Lexical(d, registry) = [p \in 1 .. n + 1 |-> New(p)]
    BY <2>1 DEF Lexical
  <2>5. New(n + 1) = TextOf(registry[agent])
    BY <2>1
  <2> DEFINE U == {Old(p) : p \in 1 .. n} \cup {New(n + 1)}
  <2>6. lexical \in Seq(U) /\ Len(lexical) = n /\ New(n + 1) \in U
    BY <2>1, <2>3
  <2> DEFINE t == Append(lexical, New(n + 1))
  <2>7. \A p \in 1 .. n : lexical[p] = New(p)
    BY <2>2, <2>3
  <2> HIDE DEF U, New, Old
  <2>8. t \in Seq(U) /\ Len(t) = n + 1 /\ t[n + 1] = New(n + 1)
        /\ \A p \in 1 .. n : t[p] = lexical[p]
    BY <2>1, <2>6
  <2> HIDE DEF t
  <2>9. \A p \in 1 .. n + 1 : t[p] = New(p)
    BY <2>1, <2>7, <2>8
  <2>10. t = [p \in 1 .. n + 1 |-> New(p)]
    BY <2>1, <2>8, <2>9
  <2>11. QED
    BY <2>4, <2>5, <2>10 DEF t, d
<1>4. QED
  BY <1>1, <1>2, <1>3 DEF WordsGrown

LEMMA AppendKeeps ==
    ASSUME QueryInv, NEW d \in Drafts, NEW at \in 1 .. MaxClock, AppendDraft(d, at)
    PROVE  QueryInv'
<1> DEFINE n == Len(thoughts)
           synced == IF d.signed \/ d.text = Absent THEN window ELSE Synced(window)
           target == Superseded(d, synced)
           registry == Observed(agents, d.agent, d.name, d.owner, n + 1)
<1>1. thoughts \in Seq(Thoughts) /\ n \in Nat
  BY DEF QueryInv
<1>2. WindowFits(synced, thoughts)
  <2>1. Synced(window) = Recent(thoughts)
    BY <1>1, SyncedIs DEF QueryInv
  <2>2. WindowFits(Recent(thoughts), thoughts)
    BY <1>1, RecentFits
  <2>3. QED
    BY <2>1, <2>2 DEF QueryInv
<1>3. target \in Nat \cup {Absent}
  <2> HIDE DEF synced
  <2>1. synced.start \in Nat /\ Len(synced.texts) \in Nat
    BY <1>2 DEF WindowFits
  <2>2. QED
    BY <2>1, SupersededIs
<1> DEFINE x == Thought(d, at, target)
           c == Append(thoughts, x)
<1>4. /\ thoughts' = c /\ agents' = registry /\ window' = synced
      /\ byAgent' = Listed(byAgent, d.agent, n + 1)
      /\ byKind' = Listed(byKind, d.kind, n + 1)
      /\ byTag' = Listed(byTag, d.tag, n + 1)
      /\ replacing' = Replacing(replacing, target, n + 1)
      /\ lexical' = IF TextChanged(registry, {d.agent}) THEN Lexical(c, registry)
                    ELSE Append(lexical, TextOf(registry[d.agent]))
      /\ hashes' = Hashed(registry, {d.agent})
      /\ SaveAgents(registry, n + 1 = 1 \/ IdentityChanged(agents, registry, d.agent), queryBounds)
  BY DEF AppendDraft
<1> HIDE DEF synced, target, registry
<1>5. x \in Thoughts
  <2>1. at \in Nat
    BY QueryAssumption
  <2>2. QED
    BY <1>3, <2>1 DEF Thoughts
<1>6. /\ x.agent = d.agent /\ x["kind"] = d.kind /\ x["tag"] = d.tag
      /\ x["agent"] = d.agent /\ x["supersedes"] = target
  <2>1. {"agent", "kind", "tag"} \subseteq DraftFields
    BY DEF DraftFields
  <2>2. QED
    BY <2>1, ThoughtIs
<1> HIDE DEF x
<1>7. c \in Seq(Thoughts) /\ Len(c) = n + 1 /\ c[n + 1] = x /\ \A p \in 1 .. n : c[p] = thoughts[p]
  BY <1>1, <1>5
<1>8. OneMore(agents, d.agent, registry)
  BY ObservedIs DEF registry, QueryInv, RegistryCounts
<1>9. IndexesFollow'
  <2>1. \A field : Index(c, field) = Listed(Index(thoughts, field), x[field], n + 1)
    BY <1>1, <1>5, IndexGrows
  <2> HIDE DEF c
  <2>2. QED
    BY <1>4, <1>6, <2>1 DEF QueryInv, IndexesFollow, Replacing
<1>10. WordsFollow'
  <2>1. PICK agent : agent = d.agent
    OBVIOUS
  <2>2. \A p \in 1 .. n : thoughts[p].agent \in DOMAIN agents
    BY DEF QueryInv, RegistryCounts, Counts
  <2>3. agent = x.agent /\ OneMore(agents, agent, registry)
    BY <1>6, <1>8, <2>1
  <2>4. WordsGrown(x, registry, agent)
    BY <1>1, <1>5, <2>2, <2>3, WordsGrow DEF QueryInv
  <2>5. QED
    BY <1>4, <2>1, <2>4 DEF WordsGrown, WordsFollow
<1>11. RegistryCounts'
  <2>1. Registry(registry)
    BY <1>8 DEF OneMore
  <2>2. Registry(savedAgents')
    BY <1>4, <2>1, SaveKeeps DEF QueryInv, RegistryCounts
  <2>3. Counts(c, n, agents)
    <3>1. Counts(thoughts, n, agents)
      BY DEF QueryInv, RegistryCounts
    <3>2. \A a : {p \in 1 .. n : c[p].agent = a} = {p \in 1 .. n : thoughts[p].agent = a}
      BY <1>7
    <3> HIDE DEF c
    <3>3. QED
      BY <1>7, <3>1, <3>2 DEF Counts
  <2>4. Counts(c, n + 1, registry)
    <3>1. d.agent = c[n + 1].agent
      BY <1>6, <1>7
    <3> HIDE DEF c
    <3>2. QED
      BY <1>1, <2>3, <3>1, CountGrows DEF QueryInv, RegistryCounts, registry
  <2>5. QED
    BY <1>4, <1>7, <2>1, <2>2, <2>4 DEF RegistryCounts
<1>12. WindowFits(window', thoughts')
  BY <1>1, <1>2, <1>4, <1>5, FitsOn
<1>13. QED
  BY <1>4, <1>7, <1>9, <1>10, <1>11, <1>12 DEF QueryInv

\* An operator's change of the registry: who is added has no thoughts, and
\* nobody's are counted anew.
Edited(old, new) ==
    /\ Registry(new) /\ DOMAIN old \subseteq DOMAIN new
    /\ \A a \in DOMAIN new : new[a].count = IF a \in DOMAIN old THEN old[a].count ELSE 0

LEMMA PersistKeeps ==
    ASSUME QueryInv, NEW registry, Edited(agents, registry), PersistRegistries(registry)
    PROVE  QueryInv'
<1>1. /\ thoughts' = thoughts /\ byAgent' = byAgent /\ byKind' = byKind /\ byTag' = byTag
      /\ replacing' = replacing /\ window' = window
      /\ agents' = registry
      /\ lexical' = IF TextChanged(registry, DOMAIN registry) THEN Lexical(thoughts, registry)
                    ELSE lexical
      /\ hashes' = Hashed(registry, DOMAIN registry)
      /\ SaveAgents(registry, TRUE, [queryBounds EXCEPT !.edits = @ + 1])
  BY DEF PersistRegistries
<1>2. thoughts \in Seq(Thoughts) /\ Len(thoughts) \in Nat /\ DOMAIN thoughts = 1 .. Len(thoughts)
  BY DEF QueryInv
<1>3. \A p \in 1 .. Len(thoughts) : thoughts[p].agent \in DOMAIN agents
  BY DEF QueryInv, RegistryCounts, Counts
<1>4. RegistryCounts'
  <2>1. Registry(registry)
    BY DEF Edited
  <2>2. Registry(savedAgents')
    BY <1>1, <2>1, SaveKeeps DEF QueryInv, RegistryCounts
  <2>3. ASSUME NEW a \in DOMAIN registry
        PROVE  registry[a].count = Cardinality({p \in 1 .. Len(thoughts) : thoughts[p].agent = a})
    <3>1. CASE a \in DOMAIN agents
      BY <3>1 DEF Edited, QueryInv, RegistryCounts, Counts
    <3>2. CASE a \notin DOMAIN agents
      <4>1. {p \in 1 .. Len(thoughts) : thoughts[p].agent = a} = {}
        BY <1>3, <3>2
      <4>2. registry[a].count = 0
        BY <3>2 DEF Edited
      <4>3. QED
        BY <4>1, <4>2, FS_EmptySet
    <3>3. QED
      BY <3>1, <3>2
  <2>4. Counts(thoughts, Len(thoughts), registry)
    BY <1>3, <2>3 DEF Counts, Edited
  <2>5. QED
    BY <1>1, <2>1, <2>2, <2>4 DEF RegistryCounts
<1>5. WordsFollow'
  <2>1. DOMAIN hashes = DOMAIN agents /\ lexical = Lexical(thoughts, agents)
        /\ \A a \in DOMAIN agents : hashes[a] = TextOf(agents[a])
    BY DEF QueryInv, WordsFollow
  <2>2. DOMAIN agents \subseteq DOMAIN registry
    BY DEF Edited
  <2>3. DOMAIN Hashed(registry, DOMAIN registry) = DOMAIN registry
        /\ \A a \in DOMAIN registry : Hashed(registry, DOMAIN registry)[a] = TextOf(registry[a])
    BY <2>1, <2>2 DEF Hashed
  <2>4. ASSUME ~ TextChanged(registry, DOMAIN registry)
        PROVE  lexical = Lexical(thoughts, registry)
    <3>1. \A a \in DOMAIN agents : TextOf(agents[a]) = TextOf(registry[a])
      BY <2>1, <2>2, <2>4 DEF TextChanged
    <3>2. \A p \in DOMAIN thoughts :
            TextOf(agents[thoughts[p].agent]) = TextOf(registry[thoughts[p].agent])
      BY <1>2, <1>3, <3>1
    <3>3. Lexical(thoughts, agents) = Lexical(thoughts, registry)
      BY <3>2 DEF Lexical
    <3>4. QED
      BY <2>1, <3>3
  <2>5. QED
    BY <1>1, <2>3, <2>4 DEF WordsFollow
<1>6. IndexesFollow'
  BY <1>1 DEF QueryInv, IndexesFollow
<1>7. QED
  BY <1>1, <1>4, <1>5, <1>6 DEF QueryInv

LEMMA UpsertKeeps ==
    ASSUME QueryInv, NEW e, UpsertAgent(e)
    PROVE  QueryInv'
<1> DEFINE registry == [a \in DOMAIN agents \cup {e.agent} |->
                          IF a = e.agent THEN Upserted(e) ELSE agents[a]]
           old == IF e.agent \in DOMAIN agents THEN agents[e.agent] ELSE Stub(e.agent)
           renamed == IF e.name = Absent THEN old
                      ELSE [old EXCEPT !.name = e.name,
                              !.aliases = IF Known(old, e.name) THEN @ ELSE @ \cup {old.name}]
<1>1. PersistRegistries(registry)
  BY DEF UpsertAgent
<1>2. Registry(agents)
  BY DEF QueryInv, RegistryCounts
<1>3. /\ DOMAIN old = RecordFields
      /\ old.count = IF e.agent \in DOMAIN agents THEN agents[e.agent].count ELSE 0
  BY <1>2, StubIs DEF Registry
<1>4. DOMAIN renamed = RecordFields /\ renamed.count = old.count
  <2> HIDE DEF old
  <2>1. QED
    BY <1>3 DEF RecordFields
<1>5. Upserted(e) = [renamed EXCEPT !.owner = IF e.owner = Absent THEN @ ELSE e.owner,
                                    !.about = IF e.about = Absent THEN @ ELSE e.about]
  BY DEF Upserted
<1>6. DOMAIN Upserted(e) = RecordFields /\ Upserted(e).count = old.count
  <2> HIDE DEF renamed, old
  <2>1. QED
    BY <1>4, <1>5 DEF RecordFields
<1>7. Edited(agents, registry)
  <2>1. DOMAIN registry = DOMAIN agents \cup {e.agent}
        /\ registry[e.agent] = Upserted(e)
        /\ \A a \in DOMAIN agents \ {e.agent} : registry[a] = agents[a]
    OBVIOUS
  <2> HIDE DEF registry, old, renamed
  <2>2. \A a \in DOMAIN registry :
          /\ DOMAIN registry[a] = RecordFields /\ registry[a].count \in Nat
          /\ registry[a].count = IF a \in DOMAIN agents THEN agents[a].count ELSE 0
    <3>1. TAKE a \in DOMAIN registry
    <3>2. CASE a = e.agent
      BY <1>2, <1>3, <1>6, <2>1, <3>2 DEF Registry
    <3>3. CASE a # e.agent
      BY <1>2, <2>1, <3>3 DEF Registry
    <3>4. QED
      BY <3>2, <3>3
  <2>3. QED
    BY <2>1, <2>2 DEF Edited, Registry
<1> HIDE DEF registry
<1>8. QED
  BY <1>1, <1>7, PersistKeeps

LEMMA AliasKeeps ==
    ASSUME QueryInv, NEW e, AddAlias(e)
    PROVE  QueryInv'
<1> DEFINE registry == [agents EXCEPT ![e.agent].aliases =
                          IF Known(agents[e.agent], e.alias) THEN @ ELSE @ \cup {e.alias}]
<1>1. PersistRegistries(registry)
  BY DEF AddAlias
<1>2. Registry(agents)
  BY DEF QueryInv, RegistryCounts
<1>3. /\ DOMAIN registry = DOMAIN agents
      /\ \A a \in DOMAIN agents : DOMAIN registry[a] = DOMAIN agents[a]
                                 /\ registry[a].count = agents[a].count
  OBVIOUS
<1> HIDE DEF registry
<1>4. Edited(agents, registry)
  BY <1>2, <1>3 DEF Edited, Registry
<1>5. QED
  BY <1>1, <1>4, PersistKeeps

LEMMA ReopenKeeps ==
    ASSUME QueryInv, NEW registry, Registry(registry), Reopen(registry)
    PROVE  QueryInv'
<1> DEFINE loaded == Replayed(thoughts, registry)
<1>1. thoughts \in Seq(Thoughts)
  BY DEF QueryInv
<1>2. Registry(loaded) /\ Counts(thoughts, Len(thoughts), loaded)
  BY <1>1, ReplayedCounts
<1>3. /\ thoughts' = thoughts /\ savedAgents' = registry /\ agents' = loaded
      /\ lexical' = Lexical(thoughts, loaded) /\ hashes' = TextHashes(loaded)
      /\ window' = NoWindow
  BY DEF Reopen
<1>4. IndexesFollow'
  BY DEF Reopen, IndexesFollow
<1> HIDE DEF loaded
<1>5. RegistryCounts'
  BY <1>2, <1>3 DEF RegistryCounts
<1>6. WordsFollow'
  BY <1>3 DEF WordsFollow, TextHashes
<1>7. WindowFits(window', thoughts')
  BY <1>3 DEF NoWindow, WindowFits
<1>8. QED
  BY <1>1, <1>3, <1>4, <1>5, <1>6, <1>7 DEF QueryInv

LEMMA QueryInvStep == QueryInv /\ [QueriesNext]_queryVars => QueryInv'
<1>1. SUFFICES ASSUME QueryInv, [QueriesNext]_queryVars PROVE QueryInv'
  OBVIOUS
<1>2. CASE UNCHANGED <<thoughts, memoryVars, agents, savedAgents>>
  BY <1>1, <1>2 DEF memoryVars, QueryInv, RegistryCounts, WordsFollow, IndexesFollow, WindowFits
<1>3. ASSUME NEW d \in Drafts, NEW at \in 1 .. MaxClock, AppendDraft(d, at) PROVE QueryInv'
  BY <1>1, <1>3, AppendKeeps
<1>4. ASSUME NEW e \in Edits, UpsertAgent(e) \/ AddAlias(e) PROVE QueryInv'
  BY <1>1, <1>4, UpsertKeeps, AliasKeeps
<1>5. CASE CloseAndOpen
  BY <1>1, <1>5, ReopenKeeps DEF CloseAndOpen, QueryInv, RegistryCounts
<1>6. CASE CrashAndOpen
  BY <1>1, <1>6, ReopenKeeps DEF CrashAndOpen, QueryInv, RegistryCounts
<1>7. CASE StartReading \/ ReadPage
  BY <1>2, <1>7 DEF StartReading, ReadPage
<1>8. CASE UNCHANGED queryVars
  BY <1>2, <1>8 DEF queryVars
<1>9. QED
  BY <1>1, <1>3, <1>4, <1>5, <1>6, <1>7, <1>8 DEF QueriesNext

LEMMA QueryInvHolds == QueriesSpec => []QueryInv
<1>1. QED
  BY QueryInvInit, QueryInvStep, PTL DEF QueriesSpec

\* KeptIsRemade: whatever was appended, edited, not saved, closed or lost, what
\* the handle keeps next to its thoughts is what opening the chain would make.
THEOREM KeptStaysRemade == QueriesSpec => []KeptIsRemade
<1>1. QED
  BY QueryInvHolds, InvIsRemade, PTL

-----------------------------------------------------------------------------
(* Answers. *)

LEMMA UnionIs ==
    ASSUME NEW c, NEW field, NEW n \in Nat, NEW i, Says(c, field, n, i),
           NEW values, NEW p \in 1 .. n
    PROVE  p \in Union(i, values) <=> c[p][field] \in values /\ c[p][field] # Absent
<1>1. p \in Union(i, values) <=> \E v \in values \cap DOMAIN i : p \in ToSet(i[v])
  BY DEF Union
<1>2. \A v \in DOMAIN i : v # Absent /\ (p \in ToSet(i[v]) <=> c[p][field] = v)
  BY DEF Says
<1>3. c[p][field] # Absent => c[p][field] \in DOMAIN i
  BY DEF Says
<1>4. QED
  BY <1>1, <1>2, <1>3

LEMMA InvIndexes ==
    ASSUME QueryInv
    PROVE  /\ Says(thoughts, "agent", Len(thoughts), byAgent)
           /\ Says(thoughts, "kind", Len(thoughts), byKind)
           /\ Says(thoughts, "tag", Len(thoughts), byTag)
           /\ Says(thoughts, "supersedes", Len(thoughts), replacing)
<1>1. thoughts \in Seq(Thoughts)
  BY DEF QueryInv
<1>2. \A field : Says(thoughts, field, Len(thoughts), Index(thoughts, field))
  BY <1>1, IndexSays
<1>3. QED
  BY <1>2 DEF QueryInv, IndexesFollow

\* What the indexes choose is what their filters ask for.
LEMMA CandidatesAre ==
    ASSUME QueryInv, NEW q, NEW p \in Positions
    PROVE  p \in Candidates(q) <=>
             /\ q.kinds # Absent => thoughts[p].kind \in q.kinds
             /\ q.agents # Absent => thoughts[p].agent \in q.agents
             /\ q.needles # Absent => \E n \in q.needles : <<thoughts[p].tag, n>> \in PartOf
             /\ q.names # Absent => thoughts[p].agent \in Called(q.names)
             /\ q.owners # Absent => thoughts[p].agent \in OwnedBy(q.owners)
<1> DEFINE n == Len(thoughts)
<1>1. thoughts \in Seq(Thoughts) /\ n \in Nat /\ p \in 1 .. n
  BY DEF QueryInv, Positions
<1>2. thoughts[p].agent # Absent /\ thoughts[p].kind # Absent
  BY <1>1, ThoughtsAre
<1>3. \A values : p \in Union(byKind, values) <=> thoughts[p].kind \in values
  BY <1>1, <1>2, InvIndexes, UnionIs
<1>4. \A values : p \in Union(byAgent, values) <=> thoughts[p].agent \in values
  BY <1>1, <1>2, InvIndexes, UnionIs
<1>5. \A values : p \in Union(byTag, values) <=>
                    thoughts[p].tag \in values /\ thoughts[p].tag # Absent
  BY <1>1, InvIndexes, UnionIs
<1>6. thoughts[p].tag # Absent => thoughts[p].tag \in DOMAIN byTag
  BY <1>1, InvIndexes DEF Says
<1>7. \A m : <<Absent, m>> \notin PartOf
  BY QueryAssumption
<1>8. p \in Union(byTag, Tagged(q.needles)) <=>
        \E m \in q.needles : <<thoughts[p].tag, m>> \in PartOf
  <2>1. p \in Union(byTag, Tagged(q.needles)) <=>
          thoughts[p].tag \in Tagged(q.needles) /\ thoughts[p].tag # Absent
    BY <1>5
  <2>2. thoughts[p].tag \in Tagged(q.needles) <=>
          /\ thoughts[p].tag \in DOMAIN byTag
          /\ \E m \in q.needles : <<thoughts[p].tag, m>> \in PartOf
    BY DEF Tagged
  <2>3. thoughts[p].tag = Absent => ~ \E m \in q.needles : <<thoughts[p].tag, m>> \in PartOf
    BY <1>7
  <2>4. QED
    BY <1>6, <2>1, <2>2, <2>3
<1>9. p \in Candidates(q) <=> \A l \in Lists(q) : p \in l
  BY DEF Candidates
<1>10. (\A l \in Lists(q) : p \in l) <=>
         /\ q.kinds # Absent => p \in Union(byKind, q.kinds)
         /\ q.agents # Absent => p \in Union(byAgent, q.agents)
         /\ q.needles # Absent => p \in Union(byTag, Tagged(q.needles))
         /\ q.names # Absent => p \in Union(byAgent, Called(q.names))
         /\ q.owners # Absent => p \in Union(byAgent, OwnedBy(q.owners))
  BY DEF Lists
<1>11. QED
  BY <1>3, <1>4, <1>8, <1>9, <1>10

\* Thoughts of a time window are in its bounds, when times are in order.
LEMMA BoundsHold ==
    ASSUME QueryInv, NEW q, {q.since, q.until} \subseteq Nat \cup {Absent},
           InTime \/ Timeless(q), NEW p \in Positions, MatchesAfterIndex(p, q)
    PROVE  p \in InBounds(q)
<1> DEFINE n == Len(thoughts)
           before == {x \in Positions : \A r \in 1 .. x : thoughts[r].at < q.since}
           within == {x \in Positions : \A r \in 1 .. x : thoughts[r].at <= q.until}
           start == IF q.since = Absent THEN 0 ELSE Cardinality(before)
           end == IF q.until = Absent THEN n ELSE Cardinality(within)
<1>1. thoughts \in Seq(Thoughts) /\ n \in Nat /\ Positions = 1 .. n /\ p \in 1 .. n
  BY DEF QueryInv, Positions
<1>2. \A x \in 1 .. n : thoughts[x].at \in Nat
  BY <1>1, ThoughtsAre
<1>3. InBounds(q) = start + 1 .. end
  BY DEF InBounds, Leading
<1>4. start \in Nat /\ start < p
  <2>1. CASE q.since = Absent
    BY <1>1, <2>1
  <2>2. CASE q.since # Absent
    <3>1. q.since \in Nat /\ thoughts[p].at >= q.since
      BY <2>2 DEF MatchesAfterIndex
    <3>2. before \in SUBSET (1 .. p - 1)
      <4>1. ASSUME NEW x \in before PROVE x \in 1 .. p - 1
        <5>1. x \in 1 .. n /\ \A r \in 1 .. x : thoughts[r].at < q.since
          BY <1>1, <4>1
        <5>2. x >= p => thoughts[p].at < q.since
          BY <1>1, <5>1
        <5>3. ~ (thoughts[p].at < q.since)
          BY <1>1, <1>2, <3>1
        <5>4. QED
          BY <1>1, <5>1, <5>2, <5>3
      <4>2. QED
        BY <4>1
    <3>3. IsFiniteSet(1 .. p - 1) /\ Cardinality(1 .. p - 1) = p - 1
      <4>1. p - 1 \in Int /\ 1 \in Int /\ (1 > p - 1 => p - 1 = 0) /\ p - 1 - 1 + 1 = p - 1
        BY <1>1
      <4>2. QED
        BY <4>1, FS_Interval
    <3> HIDE DEF before
    <3>4. Cardinality(before) \in Nat /\ Cardinality(before) <= p - 1
      BY <3>2, <3>3, FS_Subset, FS_CardinalityType
    <3>5. QED
      BY <1>1, <2>2, <3>4
  <2>3. QED
    BY <2>1, <2>2
<1>5. end \in Nat /\ p <= end
  <2>1. CASE q.until = Absent
    BY <1>1, <2>1
  <2>2. CASE q.until # Absent
    <3>1. q.until \in Nat /\ thoughts[p].at <= q.until /\ InTime
      BY <2>2 DEF MatchesAfterIndex, Timeless
    <3>2. \A r \in 1 .. p : thoughts[r].at <= q.until
      BY <1>1, <1>2, <3>1 DEF InTime
    <3>3. 1 .. p \in SUBSET within
      BY <1>1, <3>2
    <3>4. IsFiniteSet(1 .. n) /\ Cardinality(1 .. p) = p
      BY <1>1, FS_Interval
    <3>5. within \in SUBSET (1 .. n)
      BY <1>1
    <3> HIDE DEF within
    <3>6. IsFiniteSet(within)
      BY <3>4, <3>5, FS_Subset
    <3>7. Cardinality(within) \in Nat /\ p <= Cardinality(within)
      BY <3>3, <3>4, <3>6, FS_Subset, FS_CardinalityType
    <3>8. QED
      BY <2>2, <3>7
  <2>3. QED
    BY <2>1, <2>2
<1> HIDE DEF start, end
<1>6. QED
  BY <1>1, <1>3, <1>4, <1>5

LEMMA InvalidatedIs ==
    ASSUME QueryInv, NEW q, NEW p \in Positions
    PROVE  Invalidated(p, q) <=> \E r \in Positions : thoughts[r].supersedes = p /\ Visible(r, q)
<1> DEFINE n == Len(thoughts)
<1>1. thoughts \in Seq(Thoughts) /\ n \in Nat /\ Positions = 1 .. n /\ p \in 1 .. n
  BY DEF QueryInv, Positions
<1>2. p # Absent
  BY <1>1, QueryAssumption
<1>3. Says(thoughts, "supersedes", n, replacing)
  BY InvIndexes
<1>4. p \in DOMAIN replacing <=> \E r \in 1 .. n : thoughts[r].supersedes = p
  BY <1>2, <1>3 DEF Says
<1>5. p \in DOMAIN replacing =>
        ToSet(replacing[p]) = {r \in 1 .. n : thoughts[r].supersedes = p}
  BY <1>3 DEF Says
<1>6. QED
  BY <1>1, <1>4, <1>5 DEF Invalidated

LEMMA InvAnswers == QueryInv => AnswersAreScans
<1>1. SUFFICES ASSUME QueryInv, NEW q \in Queries, InTime \/ Timeless(q),
                      q.entity = Absent \/ ~ Indexed(q)
               PROVE  Answer(q) = Newest({p \in Positions :
                        /\ Asked(p, q)
                        /\ q.replaced \/ ~ \E r \in Positions :
                                             thoughts[r].supersedes = p /\ Visible(r, q)},
                        q.limit)
  BY DEF AnswersAreScans
<1>2. {q.since, q.until} \subseteq Nat \cup {Absent}
  BY QueryAssumption
<1> DEFINE Base == (IF Indexed(q) THEN Candidates(q) ELSE Positions) \cap InBounds(q)
           Good(p) == /\ Visible(p, q)
                      /\ q.replaced \/ ~ Invalidated(p, q)
                      /\ Filtered(p, q) /\ MatchesRegistry(p, q)
           Wanted(p) == /\ Asked(p, q)
                        /\ q.replaced \/ ~ \E r \in Positions :
                                             thoughts[r].supersedes = p /\ Visible(r, q)
<1>3. \A p \in Positions : MatchesAfterIndex(p, q) => p \in InBounds(q)
  BY <1>1, <1>2, BoundsHold
<1>4. ASSUME NEW p \in Positions
      PROVE  p \in Base /\ Good(p) <=> Wanted(p)
  <2>1. Invalidated(p, q) <=> \E r \in Positions : thoughts[r].supersedes = p /\ Visible(r, q)
    BY <1>1, InvalidatedIs
  <2>2. Matches(p, q) => MatchesAfterIndex(p, q)
    BY DEF Matches
  <2>3. MatchesRegistry(p, q) => Visible(p, q)
    BY DEF MatchesRegistry
  <2>4. CASE ~ Indexed(q)
    <3>1. Filtered(p, q) <=> Matches(p, q)
      BY <2>4 DEF Filtered
    <3>2. QED
      BY <1>3, <2>1, <2>2, <2>3, <2>4, <3>1 DEF Asked
  <2>5. CASE Indexed(q)
    <3>1. Filtered(p, q) <=> MatchesAfterIndex(p, q)
      BY <2>5 DEF Filtered
    <3>2. p \in Candidates(q) /\ MatchesAfterIndex(p, q) /\ MatchesRegistry(p, q)
            <=> Matches(p, q) /\ MatchesRegistry(p, q)
      BY <1>1, <2>5, CandidatesAre DEF Matches, MatchesRegistry
    <3>3. QED
      BY <1>3, <2>1, <2>2, <2>3, <2>5, <3>1, <3>2 DEF Asked
  <2>6. QED
    BY <2>4, <2>5
<1>5. Base \subseteq Positions
  BY DEF Candidates
<1>6. Answer(q) = Newest({p \in Base : Good(p)}, q.limit)
  BY DEF Answer
<1> HIDE DEF Base, Good, Wanted
<1>7. {p \in Base : Good(p)} = {p \in Positions : Wanted(p)}
  BY <1>4, <1>5
<1>8. QED
  BY <1>6, <1>7 DEF Wanted

\* AnswersAreScans: what the indexes, the bounds of a time window and the edges
\* that replace thoughts leave of a query's answer is what a scan would find.
THEOREM AnswersStayScans == QueriesSpec => []AnswersAreScans
<1>1. QED
  BY QueryInvHolds, InvAnswers, PTL

-----------------------------------------------------------------------------
(* Pages. *)

\* x comes before y in the direction of the reader.
Ahead(x, y, forward) == IF forward THEN x < y ELSE y < x

LEMMA InOrderIs ==
    ASSUME NEW s \in Seq(Nat), NEW forward
    PROVE  InOrder(s, forward) <=>
             \A i, j \in 1 .. Len(s) : i < j => Ahead(s[i], s[j], forward)
BY DEF InOrder, Ahead

\* The numbers of a set in order.
LEMMA OrderExists ==
    ASSUME NEW n \in Nat, NEW forward
    PROVE  \A S \in SUBSET (1 .. n) :
             \E s \in Seq(Nat) : ToSet(s) = S /\ InOrder(s, forward)
<1> DEFINE T == {k \in 0 .. n : \A S \in SUBSET (1 .. k) :
                   \E s \in Seq(Nat) : ToSet(s) = S /\ InOrder(s, forward)}
<1>1. 0 \in T
  <2>1. <<>> \in Seq(Nat) /\ ToSet(<<>>) = {} /\ InOrder(<<>>, forward)
    BY DEF ToSet, InOrder
  <2>2. \A S \in SUBSET (1 .. 0) : S = {}
    OBVIOUS
  <2>3. \A S \in SUBSET (1 .. 0) : \E s \in Seq(Nat) : ToSet(s) = S /\ InOrder(s, forward)
    BY <2>1, <2>2, Zenon
  <2>4. 0 \in 0 .. n
    OBVIOUS
  <2>5. QED
    BY <2>3, <2>4, Zenon
<1>2. ASSUME NEW k \in 0 .. n - 1, k \in T PROVE k + 1 \in T
  <2>1. k \in Nat /\ k + 1 \in 0 .. n
    OBVIOUS
  <2>2. SUFFICES ASSUME NEW S \in SUBSET (1 .. k + 1)
                 PROVE  \E s \in Seq(Nat) : ToSet(s) = S /\ InOrder(s, forward)
    BY <2>1
  <2>3. S \ {k + 1} \in SUBSET (1 .. k)
    BY <2>1
  <2>4. PICK s \in Seq(Nat) : ToSet(s) = S \ {k + 1} /\ InOrder(s, forward)
    BY <1>2, <2>3
  <2>5. Len(s) \in Nat /\ \A i \in 1 .. Len(s) : s[i] \in Nat /\ s[i] \in S /\ s[i] < k + 1
    <3>1. \A i \in 1 .. Len(s) : s[i] \in ToSet(s)
      BY DEF ToSet
    <3>2. QED
      BY <2>1, <2>3, <2>4, <3>1
  <2>6. CASE k + 1 \notin S
    BY <2>4, <2>6
  <2>7. CASE k + 1 \in S /\ forward
    <3> DEFINE t == Append(s, k + 1)
    <3>1. t \in Seq(Nat) /\ Len(t) = Len(s) + 1 /\ t[Len(s) + 1] = k + 1
          /\ \A i \in 1 .. Len(s) : t[i] = s[i]
      BY <2>1
    <3>2. ToSet(t) = S
      <4>1. ToSet(t) = ToSet(s) \cup {k + 1}
        BY AppendedSet
      <4> HIDE DEF t
      <4>2. QED
        BY <2>4, <2>7, <4>1
    <3> HIDE DEF t
    <3>3. \A i, j \in 1 .. Len(t) : i < j => Ahead(t[i], t[j], forward)
      <4>1. SUFFICES ASSUME NEW i \in 1 .. Len(t), NEW j \in 1 .. Len(t), i < j
                     PROVE  Ahead(t[i], t[j], forward)
        OBVIOUS
      <4>2. i \in 1 .. Len(s) /\ t[i] = s[i]
        BY <2>5, <3>1, <4>1
      <4>3. CASE j = Len(s) + 1
        BY <2>5, <2>7, <3>1, <4>2, <4>3 DEF Ahead
      <4>4. CASE j \in 1 .. Len(s)
        BY <2>4, <3>1, <4>1, <4>2, <4>4, InOrderIs
      <4>5. QED
        BY <2>5, <3>1, <4>3, <4>4
    <3>4. QED
      BY <3>1, <3>2, <3>3, InOrderIs
  <2>8. CASE k + 1 \in S /\ ~ forward
    <3> DEFINE t == <<k + 1>> \o s
    <3>1. <<k + 1>> \in Seq(Nat) /\ Len(<<k + 1>>) = 1 /\ <<k + 1>>[1] = k + 1
      BY <2>1
    <3>2. t \in Seq(Nat) /\ Len(t) = 1 + Len(s)
          /\ \A i \in 1 .. 1 + Len(s) : t[i] = IF i <= 1 THEN k + 1 ELSE s[i - 1]
      BY <3>1, Concatenated
    <3> HIDE DEF t
    <3>3. ToSet(t) = S
      <4>1. \A x \in S : \E i \in 1 .. Len(t) : t[i] = x
        <5>1. TAKE x \in S
        <5>2. CASE x = k + 1
          <6>1. 1 \in 1 .. Len(t) /\ t[1] = k + 1
            BY <2>5, <3>2
          <6>2. QED
            BY <5>2, <6>1
        <5>3. CASE x # k + 1
          <6>1. x \in ToSet(s)
            BY <2>4, <5>3
          <6>2. PICK i \in 1 .. Len(s) : s[i] = x
            BY <6>1 DEF ToSet
          <6>3. i + 1 \in 1 .. Len(t) /\ t[i + 1] = s[i]
            BY <2>5, <3>2
          <6>4. QED
            BY <6>2, <6>3
        <5>4. QED
          BY <5>2, <5>3
      <4>2. \A i \in 1 .. Len(t) : t[i] \in S
        <5>1. TAKE i \in 1 .. Len(t)
        <5>2. CASE i = 1
          BY <2>5, <2>8, <3>2, <5>2
        <5>3. CASE i > 1
          <6>1. i - 1 \in 1 .. Len(s) /\ t[i] = s[i - 1]
            BY <2>5, <3>2, <5>3
          <6>2. QED
            BY <2>5, <6>1
        <5>4. QED
          BY <2>5, <3>2, <5>2, <5>3
      <4>3. ToSet(t) = {t[i] : i \in 1 .. Len(t)}
        <5>1. DOMAIN t = 1 .. Len(t)
          BY <3>2
        <5>2. QED
          BY <5>1 DEF ToSet
      <4>4. QED
        BY <4>1, <4>2, <4>3
    <3>4. \A i, j \in 1 .. Len(t) : i < j => Ahead(t[i], t[j], forward)
      <4>1. SUFFICES ASSUME NEW i \in 1 .. Len(t), NEW j \in 1 .. Len(t), i < j
                     PROVE  Ahead(t[i], t[j], forward)
        OBVIOUS
      <4>2. j - 1 \in 1 .. Len(s) /\ t[j] = s[j - 1]
        BY <2>5, <3>2, <4>1
      <4>3. CASE i = 1
        BY SMTT(30), <2>5, <2>8, <3>2, <4>2, <4>3 DEF Ahead
      <4>4. CASE i > 1
        <5>1. i - 1 \in 1 .. Len(s) /\ t[i] = s[i - 1] /\ i - 1 < j - 1
          BY <2>5, <3>2, <4>1, <4>4
        <5>2. QED
          BY <2>4, <4>2, <5>1, InOrderIs
      <4>5. QED
        BY <2>5, <3>2, <4>3, <4>4
    <3>5. QED
      BY <3>2, <3>3, <3>4, InOrderIs
  <2>9. QED
    BY <2>6, <2>7, <2>8
<1> HIDE DEF T
<1>3. n \in T
  <2>1. \A i \in 0 .. n : i \in T
    BY <1>1, <1>2, CountUp
  <2>2. QED
    BY <2>1
<1>4. QED
  BY <1>3 DEF T

LEMMA InOrderOnce ==
    ASSUME NEW s \in Seq(Nat), NEW forward, InOrder(s, forward)
    PROVE  s \in Bijection(1 .. Len(s), ToSet(s))
<1>1. Len(s) \in Nat /\ s \in [1 .. Len(s) -> ToSet(s)]
      /\ \A x \in ToSet(s) : \E i \in 1 .. Len(s) : s[i] = x
  BY DEF ToSet
<1>2. ASSUME NEW i \in 1 .. Len(s), NEW j \in 1 .. Len(s), s[i] = s[j] PROVE i = j
  <2>1. s[i] \in Nat /\ i \in Nat /\ j \in Nat
    BY <1>1
  <2>2. i < j => Ahead(s[i], s[j], forward)
    BY InOrderIs
  <2>3. j < i => Ahead(s[j], s[i], forward)
    BY InOrderIs
  <2>4. QED
    BY <1>2, <2>1, <2>2, <2>3 DEF Ahead
<1>3. QED
  BY <1>1, <1>2 DEF Bijection, Injection, Surjection, IsInjective

LEMMA InOrderOfIs ==
    ASSUME NEW n \in Nat, NEW S \in SUBSET (1 .. n), NEW forward
    PROVE  /\ InOrderOf(S, forward) \in Seq(Nat)
           /\ ToSet(InOrderOf(S, forward)) = S /\ InOrder(InOrderOf(S, forward), forward)
<1>1. IsFiniteSet(S) /\ Cardinality(S) \in Nat
  <2>1. IsFiniteSet(1 .. n)
    BY FS_Interval
  <2>2. IsFiniteSet(S)
    BY <2>1, FS_Subset
  <2>3. QED
    BY <2>2, FS_CardinalityType
<1> DEFINE m == Cardinality(S)
           s == InOrderOf(S, forward)
<1>2. \E t \in [1 .. m -> S] : InOrder(t, forward)
  <2>1. PICK t \in Seq(Nat) : ToSet(t) = S /\ InOrder(t, forward)
    BY OrderExists
  <2>2. t \in Bijection(1 .. Len(t), S) /\ Len(t) \in Nat
    BY <2>1, InOrderOnce
  <2>3. m = Len(t)
    BY <2>2, FS_CountingElements DEF ExistsBijection
  <2>4. QED
    BY <2>1, <2>2, <2>3 DEF Bijection, Injection
<1>3. s \in [1 .. m -> S] /\ InOrder(s, forward)
  BY <1>2 DEF InOrderOf
<1> HIDE DEF s
<1>4. s \in Seq(Nat) /\ Len(s) = m
  <2>1. s \in [1 .. m -> Nat]
    <3>1. S \subseteq Nat
      OBVIOUS
    <3> HIDE DEF m
    <3>2. QED
      BY <1>3, <3>1
  <2> HIDE DEF m
  <2>2. QED
    BY <1>1, <2>1 DEF m
<1>5. s \in Bijection(1 .. m, ToSet(s))
  BY <1>3, <1>4, InOrderOnce
<1>6. ToSet(s) \subseteq S
  BY <1>1, <1>3, <1>4 DEF ToSet
<1>7. Cardinality(ToSet(s)) = m
  BY <1>1, <1>5, FS_CountingElements DEF ExistsBijection
<1>8. ToSet(s) = S
  BY <1>1, <1>6, <1>7, FS_Subset
<1>9. QED
  BY <1>3, <1>4, <1>8 DEF s

\* Without a registry's names to look up, a traversal finds what is asked for.
LEMMA FoundIs ==
    ASSUME QueryInv, NEW q, {q.since, q.until} \subseteq Nat \cup {Absent},
           Steady(q), InTime \/ Timeless(q)
    PROVE  Found(q) = {p \in Positions : Asked(p, q)}
<1>1. ASSUME NEW p \in Positions PROVE p \in Found(q) <=> Asked(p, q)
  <2>1. MatchesRegistry(p, q) => Visible(p, q)
    BY DEF MatchesRegistry
  <2>2. CASE ~ Indexed(q)
    <3>1. p \in Found(q) <=> Visible(p, q) /\ Matches(p, q) /\ MatchesRegistry(p, q)
      BY <2>2 DEF Found, Filtered
    <3>2. QED
      BY <2>1, <3>1 DEF Asked
  <2>3. CASE Indexed(q)
    <3>1. p \in Found(q) <=> /\ p \in Candidates(q) /\ p \in InBounds(q)
                             /\ Visible(p, q) /\ MatchesAfterIndex(p, q) /\ MatchesRegistry(p, q)
      BY <2>3 DEF Found, Filtered
    <3>2. MatchesAfterIndex(p, q) => p \in InBounds(q)
      BY BoundsHold
    <3>3. q.entity = Absent
      BY <2>3 DEF Steady
    <3>4. p \in Candidates(q) /\ MatchesAfterIndex(p, q) /\ MatchesRegistry(p, q)
            <=> Matches(p, q) /\ MatchesRegistry(p, q)
      BY <3>3, CandidatesAre DEF Matches, MatchesRegistry
    <3>5. QED
      BY <2>1, <3>1, <3>2, <3>4 DEF Asked
  <2>4. QED
    BY <2>2, <2>3
<1>2. Found(q) \subseteq Positions
  BY DEF Found, Candidates
<1>3. QED
  BY <1>1, <1>2

\* What is left to read from a cursor.
Onward(found, forward, at) ==
    {p \in found : at = 0 \/ (IF forward THEN p > at ELSE p < at)}

PageSays(page, onward, forward) ==
    /\ page.positions \in Seq(Nat) /\ InOrder(page.positions, forward)
    /\ ToSet(page.positions) \subseteq onward
    /\ page.more \in BOOLEAN
    /\ page.more => page.positions # <<>>
    /\ ~ page.more => ToSet(page.positions) = onward
    /\ page.positions # <<>> =>
         \A x \in onward : x \in ToSet(page.positions)
                             <=> ~ Ahead(Last(page.positions), x, forward)
    /\ page.positions # <<>> =>
         \A x \in onward : ~ Ahead(x, page.positions[1], forward)

LEMMA PageIs ==
    ASSUME thoughts \in Seq(Thoughts), NEW q, NEW forward \in BOOLEAN, NEW at
    PROVE  PageSays(Page(q, forward, at), Onward(Found(q), forward, at), forward)
<1> DEFINE n == Len(thoughts)
           onward == Onward(Found(q), forward, at)
           all == InOrderOf(onward, forward)
           k == IF Len(all) > Chunk THEN Chunk ELSE Len(all)
           s == SubSeq(all, 1, k)
           page == Page(q, forward, at)
<1>1. n \in Nat /\ Positions = 1 .. n
  BY DEF Positions
<1>2. onward \in SUBSET (1 .. n)
  BY <1>1 DEF Onward, Found, Candidates
<1>3. page = [positions |-> s, more |-> Len(all) > Chunk]
  BY DEF Page, Onward
<1> HIDE DEF onward, page, n
<1>4. all \in Seq(Nat) /\ ToSet(all) = onward /\ InOrder(all, forward)
  BY <1>1, <1>2, InOrderOfIs
<1> HIDE DEF all
<1>5. Len(all) \in Nat /\ Chunk \in Nat \ {0} /\ k \in Nat /\ k <= Len(all)
      /\ (k < Len(all) <=> Len(all) > Chunk) /\ (Len(all) > Chunk => k > 0)
  BY <1>4, QueryAssumption
<1> HIDE DEF k
<1>6. s \in Seq(Nat) /\ Len(s) = k /\ \A i \in 1 .. k : s[i] = all[i]
  BY <1>4, <1>5
<1> HIDE DEF s
<1>7. InOrder(s, forward)
  <2>1. \A i, j \in 1 .. Len(s) : i < j => Ahead(s[i], s[j], forward)
    <3>1. SUFFICES ASSUME NEW i \in 1 .. k, NEW j \in 1 .. k, i < j
                   PROVE  Ahead(s[i], s[j], forward)
      BY <1>6
    <3>2. i \in 1 .. Len(all) /\ j \in 1 .. Len(all) /\ s[i] = all[i] /\ s[j] = all[j]
      BY <1>5, <1>6
    <3>3. Ahead(all[i], all[j], forward)
      BY <1>4, <3>1, <3>2, InOrderIs
    <3>4. QED
      BY <3>2, <3>3
  <2>2. QED
    BY <1>6, <2>1, InOrderIs
<1>8. onward = {all[i] : i \in 1 .. Len(all)} /\ ToSet(s) = {all[i] : i \in 1 .. k}
  <2>1. DOMAIN all = 1 .. Len(all) /\ DOMAIN s = 1 .. k
    BY <1>4, <1>6
  <2>2. {s[i] : i \in 1 .. k} = {all[i] : i \in 1 .. k}
    BY <1>6
  <2>3. QED
    BY <1>4, <2>1, <2>2 DEF ToSet
<1>9. ToSet(s) \subseteq onward
  <2>1. \A i \in 1 .. k : i \in 1 .. Len(all)
    BY <1>5
  <2>2. QED
    BY <1>8, <2>1
<1>10. s # <<>> <=> k > 0
  BY <1>5, <1>6
<1>11. ASSUME s # <<>>, NEW x \in onward
       PROVE  x \in ToSet(s) <=> ~ Ahead(Last(s), x, forward)
  <2>1. k \in 1 .. Len(all) /\ Last(s) = all[k]
    BY <1>5, <1>6, <1>10, <1>11 DEF Last
  <2>2. PICK i \in 1 .. Len(all) : x = all[i]
    BY <1>8, <1>11
  <2>3. all[i] \in Nat /\ all[k] \in Nat /\ i \in Nat
    BY <1>4, <1>5, <2>1
  <2>4. CASE i <= k
    <3>1. i \in 1 .. k
      BY <1>5, <2>4
    <3>2. x \in ToSet(s)
      BY <1>8, <2>2, <3>1
    <3>3. i < k => Ahead(all[i], all[k], forward)
      BY <1>4, <2>1, InOrderIs
    <3>4. ~ Ahead(all[k], all[i], forward)
      BY <1>5, <2>3, <2>4, <3>3 DEF Ahead
    <3>5. QED
      BY <2>1, <2>2, <3>2, <3>4
  <2>5. CASE i > k
    <3>1. Ahead(all[k], all[i], forward)
      BY <1>4, <2>1, <2>5, InOrderIs
    <3>2. \A j \in 1 .. k : all[j] # all[i]
      <4>1. TAKE j \in 1 .. k
      <4>2. j \in 1 .. Len(all) /\ j < i /\ all[j] \in Nat
        BY <1>4, <1>5, <2>3, <2>5
      <4>3. Ahead(all[j], all[i], forward)
        BY <1>4, <4>2, InOrderIs
      <4>4. QED
        BY <2>3, <4>2, <4>3 DEF Ahead
    <3>3. x \notin ToSet(s)
      BY <1>8, <2>2, <3>2
    <3>4. QED
      BY <2>1, <2>2, <3>1, <3>3
  <2>6. QED
    BY <1>5, <2>3, <2>4, <2>5
<1>12. ~ (Len(all) > Chunk) => ToSet(s) = onward
  BY <1>5, <1>8
<1>13. Len(all) > Chunk => s # <<>>
  BY <1>5, <1>10
<1>16. ASSUME s # <<>>, NEW x \in onward PROVE ~ Ahead(x, s[1], forward)
  <2>1. 1 \in 1 .. Len(all) /\ s[1] = all[1]
    BY <1>5, <1>6, <1>10, <1>16
  <2>2. PICK i \in 1 .. Len(all) : x = all[i]
    BY <1>8, <1>16
  <2>3. all[i] \in Nat /\ all[1] \in Nat
    BY <1>4, <2>1
  <2>4. i = 1 \/ 1 < i
    OBVIOUS
  <2>5. 1 < i => Ahead(all[1], all[i], forward)
    BY <1>4, <2>1, InOrderIs
  <2>6. QED
    BY <2>1, <2>2, <2>3, <2>4, <2>5 DEF Ahead
<1>14. PageSays(page, onward, forward)
  <2>1. page.positions = s
    BY <1>3
  <2>2. page.more \in BOOLEAN /\ (page.more <=> Len(all) > Chunk)
    <3>1. PICK m \in BOOLEAN : m <=> Len(all) > Chunk
      OBVIOUS
    <3>2. page = [positions |-> s, more |-> m]
      BY <1>3, <3>1
    <3>3. page.more = m
      BY <3>2
    <3>4. QED
      BY <3>1, <3>3
  <2>3. QED
    BY <1>6, <1>7, <1>9, <1>11, <1>12, <1>13, <1>16, <2>1, <2>2 DEF PageSays
<1>15. QED
  BY <1>14 DEF page, onward

LEMMA ConcatSet ==
    ASSUME NEW s \in Seq(Nat), NEW t \in Seq(Nat)
    PROVE  ToSet(s \o t) = ToSet(s) \cup ToSet(t)
<1> DEFINE u == s \o t
           m == Len(s)
           k == Len(t)
<1>1. m \in Nat /\ k \in Nat /\ DOMAIN s = 1 .. m /\ DOMAIN t = 1 .. k
  OBVIOUS
<1>2. u \in Seq(Nat) /\ Len(u) = m + k
      /\ \A i \in 1 .. m + k : u[i] = IF i <= m THEN s[i] ELSE t[i - m]
  BY Concatenated
<1> HIDE DEF u, m, k
<1>3. DOMAIN u = 1 .. m + k
  BY <1>1, <1>2
<1>4. \A i \in 1 .. m : i \in 1 .. m + k /\ u[i] = s[i]
  BY <1>1, <1>2
<1>5. \A i \in 1 .. k : m + i \in 1 .. m + k /\ u[m + i] = t[i]
  <2>1. TAKE i \in 1 .. k
  <2>2. m + i \in 1 .. m + k /\ ~ (m + i <= m) /\ (m + i) - m = i
    BY <1>1
  <2>3. QED
    BY <1>2, <2>2
<1>6. \A i \in 1 .. m + k :
        \/ i \in 1 .. m /\ u[i] = s[i]
        \/ i - m \in 1 .. k /\ u[i] = t[i - m]
  <2>1. TAKE i \in 1 .. m + k
  <2>2. CASE i <= m
    <3>1. i \in 1 .. m
      BY <1>1, <2>2
    <3>2. QED
      BY <1>4, <3>1
  <2>3. CASE ~ (i <= m)
    <3>1. i - m \in 1 .. k
      BY <1>1, <2>3
    <3>2. u[i] = t[i - m]
      BY <1>2, <2>3
    <3>3. QED
      BY <3>1, <3>2
  <2>4. QED
    BY <2>2, <2>3
<1>7. {u[i] : i \in 1 .. m + k} = {s[i] : i \in 1 .. m} \cup {t[i] : i \in 1 .. k}
  <2>1. ASSUME NEW x
        PROVE  (\E i \in 1 .. m + k : x = u[i]) <=>
               (\E i \in 1 .. m : x = s[i]) \/ (\E i \in 1 .. k : x = t[i])
    BY <1>4, <1>5, <1>6
  <2>2. QED
    BY <2>1
<1>8. QED
  BY <1>1, <1>3, <1>7 DEF ToSet, u

LEMMA ConcatOrder ==
    ASSUME NEW s \in Seq(Nat), NEW t \in Seq(Nat), NEW forward,
           InOrder(s, forward), InOrder(t, forward),
           \A x \in ToSet(s), y \in ToSet(t) : Ahead(x, y, forward)
    PROVE  InOrder(s \o t, forward)
<1> DEFINE u == s \o t
           m == Len(s)
           k == Len(t)
<1>1. m \in Nat /\ k \in Nat /\ DOMAIN s = 1 .. m /\ DOMAIN t = 1 .. k
  OBVIOUS
<1>2. u \in Seq(Nat) /\ Len(u) = m + k
      /\ \A i \in 1 .. m + k : u[i] = IF i <= m THEN s[i] ELSE t[i - m]
  BY Concatenated
<1> HIDE DEF u
<1>3. ASSUME NEW i \in 1 .. Len(u), NEW j \in 1 .. Len(u), i < j
      PROVE  Ahead(u[i], u[j], forward)
  <2>1. CASE j <= m
    <3>1. i \in 1 .. m /\ j \in 1 .. m /\ u[i] = s[i] /\ u[j] = s[j]
      BY <1>1, <1>2, <1>3, <2>1
    <3>2. QED
      BY <1>3, <3>1, InOrderIs
  <2>2. CASE i > m
    <3>1. /\ i - m \in 1 .. k /\ j - m \in 1 .. k /\ i - m < j - m
          /\ u[i] = t[i - m] /\ u[j] = t[j - m]
      <4>1. i \in 1 .. m + k /\ j \in 1 .. m + k /\ ~ (i <= m) /\ ~ (j <= m)
        BY <1>1, <1>2, <1>3, <2>2
      <4>2. u[i] = t[i - m] /\ u[j] = t[j - m]
        BY <1>2, <4>1
      <4>3. i - m \in 1 .. k /\ j - m \in 1 .. k /\ i - m < j - m
        BY <1>1, <1>3, <4>1
      <4>4. QED
        BY <4>2, <4>3
    <3>2. QED
      BY <3>1, InOrderIs
  <2>3. CASE i <= m /\ j > m
    <3>1. i \in 1 .. m /\ j - m \in 1 .. k /\ u[i] = s[i] /\ u[j] = t[j - m]
      BY <1>1, <1>2, <1>3, <2>3
    <3>2. s[i] \in ToSet(s) /\ t[j - m] \in ToSet(t)
      BY <1>1, <3>1 DEF ToSet
    <3>3. QED
      BY <3>1, <3>2
  <2>4. QED
    BY <1>1, <1>2, <1>3, <2>1, <2>2, <2>3
<1>4. QED
  BY <1>2, <1>3, InOrderIs DEF u

ReaderTyped ==
    /\ reader = [query |-> reader.query, forward |-> reader.forward, at |-> reader.at,
                 got |-> reader.got, told |-> reader.told]
    /\ reader = Idle \/ reader.query \in ReaderQueries
    /\ reader.forward \in BOOLEAN
    /\ reader.told \in Nat /\ reader.told <= Len(thoughts)
    /\ reader.got \in Seq(Nat) /\ ToSet(reader.got) \subseteq Positions
    /\ reader.at = IF reader.got = <<>> THEN 0 ELSE Last(reader.got)
    /\ InOrder(reader.got, reader.forward)

PagesRead ==
    Steady(reader.query) /\ (InTime \/ Timeless(reader.query)) =>
        ToSet(reader.got) = {p \in Positions : Past(p) /\ Asked(p, reader.query)}

PageInv == ReaderTyped /\ PagesRead

LEMMA InvPages == PageInv => PagesMissNothing
BY DEF PageInv, ReaderTyped, PagesRead, PagesMissNothing

LEMMA NothingRead ==
    ASSUME reader.got = <<>>, reader.at = 0, reader.told = 0, thoughts \in Seq(Thoughts)
    PROVE  PagesRead /\ InOrder(reader.got, reader.forward) /\ ToSet(reader.got) = {}
<1>1. ToSet(<<>>) = {} /\ InOrder(<<>>, reader.forward)
  BY DEF ToSet, InOrder
<1>2. \A p \in Positions : ~ Past(p)
  BY DEF Past, Positions
<1>3. QED
  BY <1>1, <1>2 DEF PagesRead

LEMMA PageInvInit == QueriesInit => PageInv
<1>1. SUFFICES ASSUME QueriesInit PROVE PageInv
  OBVIOUS
<1>2. reader = Idle /\ thoughts = <<>> /\ thoughts \in Seq(Thoughts) /\ Len(thoughts) = 0
  BY <1>1 DEF QueriesInit
<1>3. reader.got = <<>> /\ reader.at = 0 /\ reader.told = 0 /\ reader.forward = TRUE
      /\ reader = [query |-> reader.query, forward |-> reader.forward, at |-> reader.at,
                   got |-> reader.got, told |-> reader.told]
  BY <1>2 DEF Idle
<1>4. PagesRead /\ InOrder(reader.got, reader.forward) /\ ToSet(reader.got) = {}
  BY <1>2, <1>3, NothingRead
<1>5. ReaderTyped
  <2>1. <<>> \in Seq(Nat) /\ reader.told <= Len(thoughts)
    BY <1>2, <1>3
  <2>2. ToSet(reader.got) \subseteq Positions /\ reader.got \in Seq(Nat)
    BY <1>3, <1>4, <2>1
  <2>3. QED
    <3>1. reader.told \in Nat /\ reader.forward \in BOOLEAN
      <4>1. reader.told \in Nat
        BY <1>3
      <4>2. reader.forward \in BOOLEAN
        BY <1>3, Zenon
      <4>3. QED
        BY <4>1, <4>2
    <3>2. reader.at = IF reader.got = <<>> THEN 0 ELSE Last(reader.got)
      BY <1>3
    <3>3. reader = Idle
      BY <1>2
    <3> HIDE DEF Idle
    <3>4. QED
      BY <1>3, <1>4, <2>1, <2>2, <3>1, <3>2, <3>3 DEF ReaderTyped
<1>6. QED
  BY <1>4, <1>5 DEF PageInv

\* Where the reader is: at a thought it has read, none of which is past the end.
LEMMA ReaderIs ==
    ASSUME QueryInv, ReaderTyped
    PROVE  LET n == Len(thoughts) IN
           /\ n \in Nat /\ Positions = 1 .. n
           /\ reader.got = <<>> => reader.at = 0 /\ ToSet(reader.got) = {}
           /\ reader.got # <<>> => /\ reader.at \in ToSet(reader.got) /\ reader.at \in 1 .. n
                                   /\ reader.got[1] \in ToSet(reader.got)
                                   /\ reader.got[1] \in 1 .. n
<1> DEFINE n == Len(thoughts)
           g == reader.got
<1>1. n \in Nat /\ Positions = 1 .. n
  BY DEF QueryInv, Positions
<1>2. g \in Seq(Nat) /\ ToSet(g) \subseteq 1 .. n
      /\ reader.at = IF g = <<>> THEN 0 ELSE Last(g)
  BY <1>1 DEF ReaderTyped
<1> HIDE DEF n, g
<1>3. g = <<>> => ToSet(g) = {}
  BY DEF ToSet
<1>4. ASSUME g # <<>>
      PROVE  Last(g) \in ToSet(g) /\ g[1] \in ToSet(g)
  <2>1. Len(g) \in Nat \ {0} /\ DOMAIN g = 1 .. Len(g)
    BY <1>2, <1>4
  <2>2. Len(g) \in DOMAIN g /\ 1 \in DOMAIN g
    BY <2>1
  <2>3. QED
    BY <2>2 DEF ToSet, Last
<1>5. QED
  BY <1>1, <1>2, <1>3, <1>4 DEF n, g

\* The chain may grow and the registry change under a reader.
LEMMA PagesStay ==
    ASSUME QueryInv, PageInv, reader' = reader,
           thoughts' = thoughts \/ \E x \in Thoughts : thoughts' = Append(thoughts, x)
    PROVE  PageInv'
<1> DEFINE n == Len(thoughts)
           q == reader.query
<1>1. thoughts \in Seq(Thoughts) /\ n \in Nat /\ Positions = 1 .. n /\ ReaderTyped
  BY DEF QueryInv, PageInv, Positions
<1>2. /\ thoughts' \in Seq(Thoughts) /\ Len(thoughts') \in {n, n + 1}
      /\ Positions' = 1 .. Len(thoughts')
      /\ \A p \in 1 .. n : thoughts'[p] = thoughts[p]
  BY <1>1 DEF Positions
<1>3. ReaderTyped'
  <2>1. Positions \subseteq Positions' /\ reader.told <= Len(thoughts')
    BY <1>1, <1>2 DEF ReaderTyped
  <2>2. QED
    BY <1>1, <2>1 DEF ReaderTyped, Idle
<1>4. ASSUME Steady(q)', (InTime \/ Timeless(q))'
      PROVE  ToSet(reader.got) = {p \in Positions' : Past(p)' /\ Asked(p, q)'}
  <2>1. Steady(q) /\ (InTime \/ Timeless(q))
    BY <1>1, <1>2, <1>4 DEF Steady, InTime, Timeless, Indexed
  <2>2. ToSet(reader.got) = {p \in Positions : Past(p) /\ Asked(p, q)}
    BY <2>1 DEF PageInv, PagesRead
  <2>3. ASSUME NEW p \in 1 .. n
        PROVE  (Past(p)' <=> Past(p)) /\ (Asked(p, q)' <=> Asked(p, q))
    <3>1. thoughts'[p] = thoughts[p]
      BY <1>2
    <3>2. Asked(p, q)' <=> Asked(p, q)
      BY <2>1, <3>1 DEF Asked, Matches, MatchesAfterIndex, MatchesRegistry, Visible, Steady
    <3>3. QED
      BY <3>2 DEF Past
  <2>4. ASSUME NEW p \in Positions', p \notin 1 .. n PROVE ~ Past(p)'
    <3>1. reader.at \in Nat /\ reader.at <= n /\ reader.told \in Nat /\ reader.told <= n
          /\ (reader.got # <<>> => reader.got[1] \in 1 .. n)
      BY <1>1, ReaderIs DEF ReaderTyped
    <3>2. p \in Nat /\ p > n
      BY <1>1, <1>2, <2>4
    <3>3. ~ Past(p)
      BY <1>1, <3>1, <3>2 DEF Past
    <3>4. QED
      BY <3>3 DEF Past
  <2>5. 1 .. n \subseteq Positions'
    BY <1>1, <1>2
  <2>6. QED
    BY <1>1, <2>2, <2>3, <2>4, <2>5
<1>5. PagesRead'
  BY <1>4 DEF PagesRead
<1>6. QED
  BY <1>3, <1>5 DEF PageInv

\* A client that begins has been past nothing.
LEMMA StartKeeps ==
    ASSUME QueryInv, StartReading
    PROVE  PageInv'
<1>1. PICK q \in ReaderQueries, forward \in BOOLEAN :
           reader' = [Idle EXCEPT !.query = q, !.forward = forward]
  BY DEF StartReading
<1>2. reader' = [query |-> q, forward |-> forward, at |-> 0, got |-> <<>>, told |-> 0]
  BY <1>1 DEF Idle
<1>3. /\ reader'.query = q /\ reader'.forward = forward /\ reader'.at = 0
      /\ reader'.got = <<>> /\ reader'.told = 0
  BY <1>2
<1>4. thoughts' \in Seq(Thoughts) /\ Len(thoughts') \in Nat
  BY DEF StartReading, QueryInv
<1>5. ToSet(<<>>) = {} /\ InOrder(<<>>, forward) /\ <<>> \in Seq(Nat)
  BY DEF ToSet, InOrder
<1>6. ReaderTyped'
  <2>1. reader' = [query |-> reader'.query, forward |-> reader'.forward, at |-> reader'.at,
                   got |-> reader'.got, told |-> reader'.told]
    BY <1>2, <1>3
  <2>2. reader'.query \in ReaderQueries /\ reader'.forward \in BOOLEAN
    BY <1>1, <1>3
  <2>3. reader'.told \in Nat /\ reader'.told <= Len(thoughts')
    BY <1>3, <1>4
  <2>4. reader'.got \in Seq(Nat) /\ ToSet(reader'.got) \subseteq Positions'
    BY <1>3, <1>5
  <2>5. reader'.at = IF reader'.got = <<>> THEN 0 ELSE Last(reader'.got)
    BY <1>3
  <2>6. InOrder(reader'.got, reader'.forward)
    BY <1>3, <1>5
  <2>7. QED
    BY <2>1, <2>2, <2>3, <2>4, <2>5, <2>6 DEF ReaderTyped
<1>7. \A p \in Positions' : ~ Past(p)'
  BY <1>3, <1>4 DEF Past, Positions
<1>8. PagesRead'
  BY <1>3, <1>5, <1>7 DEF PagesRead
<1>9. QED
  BY <1>6, <1>8 DEF PageInv

\* The first and the last of what is in order.
LEMMA EndsAre ==
    ASSUME NEW s \in Seq(Nat), NEW forward, InOrder(s, forward), s # <<>>
    PROVE  /\ Last(s) \in ToSet(s) /\ s[1] \in ToSet(s)
           /\ \A x \in ToSet(s) : ~ Ahead(Last(s), x, forward) /\ ~ Ahead(x, s[1], forward)
<1>1. Len(s) \in Nat \ {0} /\ DOMAIN s = 1 .. Len(s) /\ Last(s) = s[Len(s)]
  BY DEF Last
<1>2. Len(s) \in 1 .. Len(s) /\ 1 \in 1 .. Len(s)
  BY <1>1
<1>3. Last(s) \in ToSet(s) /\ s[1] \in ToSet(s)
  BY <1>1, <1>2 DEF ToSet
<1>4. ASSUME NEW x \in ToSet(s)
      PROVE  ~ Ahead(Last(s), x, forward) /\ ~ Ahead(x, s[1], forward)
  <2>1. PICK i \in 1 .. Len(s) : x = s[i]
    BY <1>1 DEF ToSet
  <2>2. s[i] \in Nat /\ s[1] \in Nat /\ s[Len(s)] \in Nat /\ i \in Nat
    BY <1>1, <1>2
  <2>3. i < Len(s) => Ahead(s[i], s[Len(s)], forward)
    BY <1>2, InOrderIs
  <2>4. 1 < i => Ahead(s[1], s[i], forward)
    BY <1>2, InOrderIs
  <2>5. QED
    BY <1>1, <2>1, <2>2, <2>3, <2>4 DEF Ahead
<1>5. QED
  BY <1>3, <1>4

LEMMA ConcatEnds ==
    ASSUME NEW s \in Seq(Nat), NEW t \in Seq(Nat)
    PROVE  /\ s \o t \in Seq(Nat)
           /\ s \o t = <<>> <=> s = <<>> /\ t = <<>>
           /\ s \o t # <<>> =>
                /\ Last(s \o t) = IF t = <<>> THEN Last(s) ELSE Last(t)
                /\ (s \o t)[1] = IF s = <<>> THEN t[1] ELSE s[1]
<1> DEFINE u == s \o t
           m == Len(s)
           k == Len(t)
<1>1. m \in Nat /\ k \in Nat /\ (s = <<>> <=> m = 0) /\ (t = <<>> <=> k = 0)
  OBVIOUS
<1>2. u \in Seq(Nat) /\ Len(u) = m + k
      /\ \A i \in 1 .. m + k : u[i] = IF i <= m THEN s[i] ELSE t[i - m]
  BY Concatenated
<1> HIDE DEF u
<1>3. u = <<>> <=> m = 0 /\ k = 0
  BY <1>1, <1>2
<1>4. ASSUME u # <<>>
      PROVE  /\ u[m + k] = IF k = 0 THEN s[m] ELSE t[k]
             /\ u[1] = IF m = 0 THEN t[1] ELSE s[1]
  <2>1. m + k \in 1 .. m + k /\ 1 \in 1 .. m + k /\ (m + k) - m = k /\ (m = 0 => 1 - m = 1)
    BY <1>1, <1>3, <1>4
  <2>2. (m + k <= m <=> k = 0) /\ (1 <= m <=> m # 0) /\ (k = 0 => m + k = m)
    BY <1>1
  <2>3. u[m + k] = IF m + k <= m THEN s[m + k] ELSE t[(m + k) - m]
    BY <1>2, <2>1
  <2>4. u[1] = IF 1 <= m THEN s[1] ELSE t[1 - m]
    BY <1>2, <2>1
  <2>5. u[m + k] = IF k = 0 THEN s[m] ELSE t[k]
    <3>1. CASE k = 0
      BY <2>2, <2>3, <3>1
    <3>2. CASE k # 0
      BY <2>1, <2>2, <2>3, <3>2
    <3>3. QED
      BY <3>1, <3>2
  <2>6. u[1] = IF m = 0 THEN t[1] ELSE s[1]
    <3>1. CASE m = 0
      BY <2>1, <2>2, <2>4, <3>1
    <3>2. CASE m # 0
      BY <2>2, <2>4, <3>2
    <3>3. QED
      BY <3>1, <3>2
  <2>7. QED
    BY <2>5, <2>6
<1>5. QED
  BY <1>1, <1>2, <1>3, <1>4 DEF Last, u

\* What the reader has after a page.
LEMMA ReadPageIs ==
    ASSUME ReaderTyped, ReadPage, NEW page, page = Page(reader.query, reader.forward, reader.at),
           page.more \in BOOLEAN
    PROVE  /\ reader' = [query |-> reader'.query, forward |-> reader'.forward, at |-> reader'.at,
                         got |-> reader'.got, told |-> reader'.told]
           /\ reader'.query = reader.query /\ reader'.forward = reader.forward
           /\ reader'.got = reader.got \o page.positions
           /\ reader'.at = IF page.positions = <<>> THEN reader.at ELSE Last(page.positions)
           /\ reader'.told = IF page.more THEN reader.told ELSE Len(thoughts)
<1>1. PICK q, forward, at, got, told :
        /\ reader = [query |-> q, forward |-> forward, at |-> at, got |-> got, told |-> told]
        /\ reader.query = q /\ reader.forward = forward /\ reader.at = at
        /\ reader.got = got /\ reader.told = told
  BY DEF ReaderTyped
<1>2. PICK at1, told1 :
        /\ at1 = IF page.positions = <<>> THEN at ELSE Last(page.positions)
        /\ told1 = IF page.more THEN told ELSE Len(thoughts)
  OBVIOUS
<1>3. reader' = [reader EXCEPT !.got = got \o page.positions, !.at = at1, !.told = told1]
  BY <1>1, <1>2 DEF ReadPage
<1>4. reader' = [query |-> q, forward |-> forward, at |-> at1, got |-> got \o page.positions,
                 told |-> told1]
  BY <1>1, <1>3
<1>5. /\ reader'.query = q /\ reader'.forward = forward /\ reader'.at = at1
      /\ reader'.got = got \o page.positions /\ reader'.told = told1
  BY <1>4
<1>6. QED
  BY <1>1, <1>2, <1>4, <1>5

LEMMA ReadKeeps ==
    ASSUME QueryInv, PageInv, ReadPage
    PROVE  PageInv'
<1>0. PICK q : q = reader.query
  OBVIOUS
<1> DEFINE n == Len(thoughts)
           forward == reader.forward
           at == reader.at
           got == reader.got
           told == reader.told
           found == Found(q)
           onward == Onward(found, forward, at)
           page == Page(q, forward, at)
           s == page.positions
           S == ToSet(s)
<1>1. /\ thoughts \in Seq(Thoughts) /\ n \in Nat /\ Positions = 1 .. n
      /\ thoughts' = thoughts /\ agents' = agents /\ ReaderTyped /\ PagesRead
      /\ q \in ReaderQueries
  BY <1>0 DEF QueryInv, PageInv, Positions, ReadPage, ReaderTyped
<1>2. /\ forward \in BOOLEAN /\ told \in Nat /\ told <= n
      /\ got \in Seq(Nat) /\ ToSet(got) \subseteq 1 .. n /\ InOrder(got, forward)
      /\ at = IF got = <<>> THEN 0 ELSE Last(got)
      /\ forward \/ told = 0
  BY <1>1 DEF ReaderTyped, ReadPage
<1>3. /\ got = <<>> => at = 0 /\ ToSet(got) = {}
      /\ got # <<>> => at \in 1 .. n /\ got[1] \in 1 .. n
  BY <1>1, ReaderIs
<1>4. PageSays(page, onward, forward)
  BY <1>1, <1>2, PageIs
<1>5. found \subseteq 1 .. n /\ onward = {p \in found : at = 0 \/ (IF forward THEN p > at ELSE p < at)}
  BY <1>1 DEF Found, Candidates, Onward
<1>6. /\ reader' = [query |-> reader'.query, forward |-> reader'.forward, at |-> reader'.at,
                    got |-> reader'.got, told |-> reader'.told]
      /\ reader'.query = q /\ reader'.forward = forward
      /\ reader'.got = got \o s
      /\ reader'.at = (IF s = <<>> THEN at ELSE Last(s))
      /\ reader'.told = (IF page.more THEN told ELSE n)
  <2>1. page.more \in BOOLEAN
    BY <1>4 DEF PageSays
  <2>2. QED
    BY <1>0, <1>1, <2>1, ReadPageIs
<1> HIDE DEF page, onward, found
<1>7. /\ s \in Seq(Nat) /\ InOrder(s, forward) /\ S \subseteq onward
      /\ page.more => s # <<>>
      /\ ~ page.more => S = onward
      /\ s # <<>> => \A x \in onward : (x \in S <=> ~ Ahead(Last(s), x, forward))
                                      /\ ~ Ahead(x, s[1], forward)
  BY <1>4 DEF PageSays
<1>8. s # <<>> => Last(s) \in S /\ s[1] \in S
  BY <1>7, EndsAre
<1>9. s = <<>> => S = {}
  BY DEF ToSet
<1>10. got # <<>> =>
         \A x \in ToSet(got) : ~ Ahead(at, x, forward) /\ ~ Ahead(x, got[1], forward)
  BY <1>2, EndsAre
<1>11. got # <<>> => at \in ToSet(got)
  BY <1>2, EndsAre
<1> HIDE DEF n, forward, at, got, told, s, S
<1>12. ToSet(got \o s) = ToSet(got) \cup S /\ S \subseteq 1 .. n
  BY <1>2, <1>5, <1>7, ConcatSet DEF S
<1>13. InOrder(got \o s, forward)
  <2>1. ASSUME NEW x \in ToSet(got), NEW y \in S PROVE Ahead(x, y, forward)
    <3>1. got # <<>> /\ x \in 1 .. n /\ y \in 1 .. n /\ y \in onward /\ at \in 1 .. n
      BY <1>2, <1>3, <1>7, <1>12, <2>1
    <3>2. IF forward THEN y > at ELSE y < at
      BY <1>5, <3>1
    <3>3. ~ Ahead(at, x, forward)
      BY <1>10, <3>1
    <3>4. QED
      BY <3>1, <3>2, <3>3 DEF Ahead
  <2>2. QED
    BY <1>2, <1>7, <2>1, ConcatOrder DEF S
<1>14. /\ got \o s \in Seq(Nat) /\ (got \o s = <<>> <=> got = <<>> /\ s = <<>>)
       /\ got \o s # <<>> =>
            /\ Last(got \o s) = IF s = <<>> THEN Last(got) ELSE Last(s)
            /\ (got \o s)[1] = IF got = <<>> THEN s[1] ELSE got[1]
  BY <1>2, <1>7, ConcatEnds
<1>15. ReaderTyped'
  <2>1. reader'.at = IF reader'.got = <<>> THEN 0 ELSE Last(reader'.got)
    BY <1>2, <1>6, <1>14
  <2>2. reader'.told \in Nat /\ reader'.told <= n
    BY <1>1, <1>2, <1>6
  <2>3. Positions' = 1 .. n /\ Len(thoughts') = n
    BY <1>1 DEF Positions, n
  <2>4. ToSet(reader'.got) \subseteq 1 .. n /\ reader'.got \in Seq(Nat)
    BY <1>2, <1>6, <1>12, <1>14
  <2>5. reader'.query \in ReaderQueries
    BY <1>1, <1>6
  <2>6. InOrder(reader'.got, reader'.forward) /\ reader'.forward \in BOOLEAN
    BY <1>2, <1>6, <1>13
  <2>7. QED
    BY <1>6, <2>1, <2>2, <2>3, <2>4, <2>5, <2>6 DEF ReaderTyped
<1>16. ASSUME Steady(q)', (InTime \/ Timeless(q))'
       PROVE  ToSet(got \o s) = {p \in Positions' : Past(p)' /\ Asked(p, q)'}
  <2>1. Steady(q) /\ (InTime \/ Timeless(q))
    BY <1>1, <1>16 DEF Steady, InTime, Timeless, Indexed, Positions
  <2>2. found = {p \in 1 .. n : Asked(p, q)}
    <3>1. {q.since, q.until} \subseteq Nat \cup {Absent}
      BY <1>1, QueryAssumption
    <3>2. Found(q) = {p \in Positions : Asked(p, q)}
      BY <2>1, <3>1, FoundIs
    <3>3. QED
      BY <1>1, <3>2 DEF found
  <2>3. ToSet(got) = {p \in 1 .. n : Past(p) /\ Asked(p, q)}
    BY <1>0, <1>1, <2>1 DEF PagesRead, n, got
  <2>4. PICK first, last, one \in 0 .. n :
          /\ first = IF s = <<>> THEN 0 ELSE s[1]
          /\ last = IF s = <<>> THEN 0 ELSE Last(s)
          /\ one = IF got = <<>> THEN 0 ELSE got[1]
    <3>1. n \in Nat /\ 0 \in 0 .. n /\ 1 .. n \subseteq 0 .. n
      BY <1>1 DEF n
    <3>2. s # <<>> => s[1] \in 0 .. n /\ Last(s) \in 0 .. n
      BY <1>8, <1>12, <3>1
    <3>3. got # <<>> => got[1] \in 0 .. n
      BY <1>3, <3>1
    <3>4. QED
      BY <3>1, <3>2, <3>3
  <2>5. /\ first = 0 <=> s = <<>>
        /\ last = 0 <=> s = <<>>
        /\ one = 0 <=> got = <<>>
        /\ at = 0 <=> got = <<>>
        /\ at \in 0 .. n /\ told \in 0 .. n
    BY <1>1, <1>2, <1>3, <1>8, <1>12, <2>4
  <2>6. ~ forward => at <= one
    <3>1. got # <<>> => ~ Ahead(at, got[1], forward) \/ at \in ToSet(got)
      BY <1>11
    <3>2. got # <<>> => ~ Ahead(at, got[1], forward) \/ ~ Ahead(at, got[1], forward)
      BY <1>10, <1>11
    <3>3. QED
      BY <1>3, <2>4, <2>5, <3>2 DEF Ahead
  <2>7. ASSUME NEW p \in 1 .. n, Asked(p, q)
        PROVE  p \in ToSet(got) \cup S <=> Past(p)'
    <3>1. p \in onward <=> at = 0 \/ (IF forward THEN p > at ELSE p < at)
      BY <1>5, <2>2, <2>7
    <3>2. last # 0 => at = 0 \/ (IF forward THEN last > at ELSE last < at)
      BY <1>5, <1>7, <1>8, <2>4, <2>5
    <3>3. /\ p \in S => p \in onward
          /\ page.more => last # 0
          /\ ~ page.more => S = onward
          /\ last = 0 => p \notin S
          /\ last # 0 /\ p \in onward => (p \in S <=> ~ Ahead(last, p, forward))
          /\ last # 0 /\ p \in onward => ~ Ahead(p, first, forward)
      BY <1>7, <1>9, <2>4, <2>5
    <3>4. PICK at1, one1, told1 :
            /\ at1 = IF last = 0 THEN at ELSE last
            /\ one1 = IF at = 0 THEN first ELSE one
            /\ told1 = IF page.more THEN told ELSE n
      OBVIOUS
    <3>5. (\/ IF forward THEN p <= at \/ p <= told
              ELSE IF at = 0 THEN p <= told
              ELSE p <= one /\ (p >= at \/ told > 0)
           \/ p \in S)
          <=> IF forward THEN p <= at1 \/ p <= told1
              ELSE IF at1 = 0 THEN p <= told1
              ELSE p <= one1 /\ (p >= at1 \/ told1 > 0)
      <4>1. n \in Nat /\ (forward \/ told = 0) /\ (one = 0 <=> at = 0) /\ (first = 0 <=> last = 0)
        BY <1>1, <1>2, <2>5 DEF n
      <4>2. at \in 0 .. n /\ told \in 0 .. n
        BY <2>5
      <4>3. /\ p \in 1 .. n /\ first \in 0 .. n /\ last \in 0 .. n /\ one \in 0 .. n
            /\ ~ forward => at <= one
            /\ last = 0 => first = 0 /\ p \notin S /\ ~ page.more
            /\ ~ page.more => (p \in S <=> p \in onward)
            /\ p \in S => p \in onward
        BY <2>4, <2>6, <2>7, <3>3, <4>1
      <4>4. CASE last = 0
        <5>1. /\ p \notin S /\ at1 = at /\ told1 = n /\ p \notin onward
              /\ at # 0 => one1 = one
          BY <3>4, <4>3, <4>4
        <5>2. at # 0 /\ ~ (IF forward THEN p > at ELSE p < at)
          BY <3>1, <5>1
        <5>3. CASE forward
          BY <4>1, <4>2, <4>3, <5>1, <5>2, <5>3
        <5>4. CASE ~ forward
          BY <4>1, <4>2, <4>3, <5>1, <5>2, <5>4
        <5>5. QED
          BY <5>3, <5>4
      <4>5. CASE last # 0 /\ page.more
        <5>1. /\ at1 = last /\ told1 = told /\ one1 = IF at = 0 THEN first ELSE one
              /\ p \in onward => (p \in S <=> ~ Ahead(last, p, forward)) /\ ~ Ahead(p, first, forward)
          BY <3>3, <3>4, <4>5
        <5>2. CASE forward
          BY <3>1, <3>2, <4>1, <4>2, <4>3, <4>5, <5>1, <5>2 DEF Ahead
        <5>3. CASE ~ forward
          BY <3>1, <3>2, <4>1, <4>2, <4>3, <4>5, <5>1, <5>3 DEF Ahead
        <5>4. QED
          BY <5>2, <5>3
      <4>6. CASE last # 0 /\ ~ page.more
        <5>1. /\ at1 = last /\ told1 = n /\ one1 = IF at = 0 THEN first ELSE one
              /\ p \in S <=> p \in onward
              /\ p \in onward => ~ Ahead(last, p, forward) /\ ~ Ahead(p, first, forward)
          BY <3>3, <3>4, <4>3, <4>6
        <5>2. CASE forward
          BY <3>1, <3>2, <4>1, <4>2, <4>3, <4>6, <5>1, <5>2 DEF Ahead
        <5>3. CASE ~ forward
          BY <3>1, <3>2, <4>1, <4>2, <4>3, <4>6, <5>1, <5>3 DEF Ahead
        <5>4. QED
          BY <5>2, <5>3
      <4>7. QED
        BY <4>4, <4>5, <4>6
    <3>6. p \in ToSet(got) <=> IF forward THEN p <= at \/ p <= told
                               ELSE IF at = 0 THEN p <= told
                               ELSE p <= one /\ (p >= at \/ told > 0)
      <4>1. p \in ToSet(got) <=> Past(p)
        BY <2>3, <2>7
      <4>2. got # <<>> => one = got[1]
        BY <2>4
      <4>3. QED
        BY <2>5, <4>1, <4>2 DEF Past, got, at, told, forward
    <3>7. /\ reader'.at = at1 /\ reader'.told = told1 /\ reader'.forward = forward
          /\ reader'.got = <<>> <=> at1 = 0
          /\ reader'.got # <<>> => reader'.got[1] = one1
      BY <1>6, <1>14, <2>4, <2>5, <3>4
    <3>8. Past(p)' <=> IF forward THEN p <= at1 \/ p <= told1
                       ELSE IF at1 = 0 THEN p <= told1
                       ELSE p <= one1 /\ (p >= at1 \/ told1 > 0)
      BY <3>7 DEF Past
    <3>9. QED
      BY <3>5, <3>6, <3>8
  <2>8. \A p \in 1 .. n : Asked(p, q)' <=> Asked(p, q)
    BY <1>1 DEF Asked, Matches, MatchesAfterIndex, MatchesRegistry, Visible, Called, OwnedBy, n
  <2>9. ToSet(got) \cup S \subseteq {p \in 1 .. n : Asked(p, q)}
    BY <1>5, <1>7, <2>2, <2>3
  <2>10. Positions' = 1 .. n
    BY <1>1 DEF Positions
  <2>11. QED
    BY <1>12, <2>7, <2>8, <2>9, <2>10
<1>17. PagesRead'
  BY <1>6, <1>16 DEF PagesRead
<1>18. QED
  BY <1>15, <1>17 DEF PageInv

LEMMA PageInvStep == QueryInv /\ PageInv /\ [QueriesNext]_queryVars => PageInv'
<1>1. SUFFICES ASSUME QueryInv, PageInv, [QueriesNext]_queryVars PROVE PageInv'
  OBVIOUS
<1>2. CASE UNCHANGED <<thoughts, reader>>
  BY <1>1, <1>2, PagesStay
<1>3. ASSUME NEW d \in Drafts, NEW at \in 1 .. MaxClock, AppendDraft(d, at) PROVE PageInv'
  <2>1. PICK x \in Thoughts : thoughts' = Append(thoughts, x)
    <3>1. PICK x : thoughts' = Append(thoughts, x)
      BY <1>3 DEF AppendDraft
    <3>2. thoughts \in Seq(Thoughts) /\ thoughts' \in Seq(Thoughts)
      BY <1>1, QueryInvStep DEF QueryInv
    <3>3. Len(thoughts') \in 1 .. Len(thoughts') /\ thoughts'[Len(thoughts')] = x
      BY <3>1, <3>2
    <3>4. x \in Thoughts
      BY <3>2, <3>3
    <3>5. QED
      BY <3>1, <3>4
  <2>2. reader' = reader
    BY <1>3 DEF AppendDraft
  <2>3. QED
    BY <1>1, <2>1, <2>2, PagesStay
<1>4. ASSUME NEW e \in Edits, UpsertAgent(e) \/ AddAlias(e) PROVE PageInv'
  BY <1>2, <1>4 DEF UpsertAgent, AddAlias, PersistRegistries
<1>5. CASE CloseAndOpen \/ CrashAndOpen
  BY <1>2, <1>5 DEF CloseAndOpen, CrashAndOpen, Reopen
<1>6. CASE StartReading
  BY <1>1, <1>6, StartKeeps
<1>7. CASE ReadPage
  BY <1>1, <1>7, ReadKeeps
<1>8. CASE UNCHANGED queryVars
  BY <1>2, <1>8 DEF queryVars
<1>9. QED
  BY <1>1, <1>3, <1>4, <1>5, <1>6, <1>7, <1>8 DEF QueriesNext

\* PagesMissNothing: a client that pages with next_cursor while others append,
\* edit, close and open the chain reads every matching thought once, in order.
THEOREM PagesKeepMissingNothing == QueriesSpec => []PagesMissNothing
<1>1. QueriesSpec => []PageInv
  BY QueryInvInit, PageInvInit, QueryInvStep, PageInvStep, PTL DEF QueriesSpec
<1>2. QED
  BY <1>1, InvPages, PTL

=============================================================================
