--------------------------- MODULE EmbedPipeline ---------------------------
(***************************************************************************)
(* The vectors of one managed sidecar that arrive after their thoughts:    *)
(* the embedding pipeline of lib.rs.  An append under the chain's write    *)
(* lock issues a ticket; the embedding model runs without the lock; the    *)
(* outcome is committed later, in any order, and vectors are applied       *)
(* strictly in chain order.  Vectors that get lost are embedded again on   *)
(* a worker thread, a few at a time (gap repair), or all at once (rebuild).*)
(*                                                                         *)
(* Everything the write lock protects is one record, vectors, and what is  *)
(* done to it under one acquisition of the lock is one action, written as  *)
(* a function of that record.  Thoughts are numbered from 1.               *)
(***************************************************************************)
EXTENDS Naturals, FiniteSets

CONSTANTS
    MaxThoughts,      \* bound: thoughts appended
    MaxPipelined,     \* MAX_PIPELINED_EMBEDDINGS
    MaxEmbedAttempts, \* MAX_EMBED_ATTEMPTS
    RepairBatch,      \* EMBED_REPAIR_BATCH
    MaxDrain,         \* MAX_DRAIN_PER_CALL
    CatchUp,          \* SIDECAR_ADOPT_CATCHUP_LIMIT
    Poison,           \* thoughts the provider can never embed
    MaxEmbedFaults,   \* bound: provider failures and lost tickets
    MaxSync           \* bound: appends that embed under the lock

Thoughts == 1 .. MaxThoughts

ASSUME ConstantAssumption ==
    /\ MaxThoughts \in Nat /\ MaxEmbedFaults \in Nat /\ MaxSync \in Nat
    /\ {MaxPipelined, MaxEmbedAttempts, RepairBatch, MaxDrain, CatchUp}
          \subseteq Nat \ {0}
    /\ MaxEmbedAttempts >= 2
    /\ Poison \subseteq Thoughts

VARIABLES
    thoughts,          \* length of the chain
    vectors,           \* covered: vectors in the sidecar; inflight, parked, missing,
                       \* attempts: ManagedSidecarEntry; ledger: the abandoned tickets of
                       \* its TicketLedger; repair, rebuild: the pending gap repair and
                       \* rebuild; guard: SidecarRebuildGuard; issued: outstanding
                       \* tickets that name this ledger; lost: history, a rebuild was
                       \* refused or failed since one was adopted
    tickets,           \* per thought: its ticket, outside the lock
    embedFaults, syncs \* counters of the bounds

embedVars == <<thoughts, vectors, tickets, embedFaults, syncs>>

NoAttempts == [i \in Thoughts |-> 0]
NoRepair == [pc |-> "none", rows |-> {}]
NoRebuild == [pc |-> "none", rows |-> 0]

\* A new ManagedSidecarEntry around a sidecar of that many vectors.
Entry(covered) ==
    [covered |-> covered, inflight |-> {}, parked |-> {}, missing |-> {},
     attempts |-> NoAttempts, ledger |-> {}, issued |-> {},
     repair |-> NoRepair, rebuild |-> NoRebuild, guard |-> "free",
     lost |-> "no"]

EmbedInit ==
    /\ thoughts = 0
    /\ vectors = Entry(0)
    /\ tickets = [i \in Thoughts |-> "none"]
    /\ embedFaults = 0 /\ syncs = 0

-----------------------------------------------------------------------------
(* ManagedSidecarEntry *)

Pipelined(d) == Cardinality(d.inflight) + Cardinality(d.parked)
Pending(d) == d.rebuild.pc # "none"

Reset(d) == [d EXCEPT !.inflight = {}, !.parked = {}, !.missing = {},
                      !.attempts = NoAttempts]

\* Variant: a failed embedding is forgotten.
FailForgets(d, failed) == [d EXCEPT !.inflight = d.inflight \ failed]

\* record_failure: embed again, unless it has failed too often.
Fail(d, failed) ==
    LET tried == [i \in Thoughts |->
                    d.attempts[i] + IF i \in failed THEN 1 ELSE 0]
    IN  [d EXCEPT !.inflight = d.inflight \ failed,
                  !.attempts = tried,
                  !.missing = d.missing
                                \cup {i \in failed : tried[i] < MaxEmbedAttempts}]

Exhausted(d, failed) == \E i \in failed : d.attempts[i] >= MaxEmbedAttempts

\* reclaim_abandoned
Abandoned(d) == d.ledger \ d.parked
Reclaim(d) == [Fail(d, Abandoned(d)) EXCEPT !.ledger = {}]

-----------------------------------------------------------------------------
(* Rebuild, repair and drain, each under the lock; n is the length of the  *)
(* chain                                                                   *)

\* schedule_sidecar_rebuild_job: single flight.
ScheduleRebuild(d, n) ==
    IF Pending(d) THEN d
    ELSE IF d.guard = "held" THEN [d EXCEPT !.lost = "yes"]
    ELSE [d EXCEPT !.rebuild = [pc |-> "running", rows |-> n], !.guard = "held"]

\* fall_back_to_full_repair
FullRepair(d, n) == ScheduleRebuild(Reset(d), n)

\* schedule_gap_repair: the first few missing thoughts with no embedding in
\* flight before them, unless a repair or a rebuild is at work.
First(set, k) == {i \in set : Cardinality({j \in set : j <= i}) <= k}
Repair(d) ==
    LET wanted == d.missing \ 1 .. d.covered
        picked == First({i \in wanted : \A j \in d.inflight : i < j},
                        RepairBatch)
    IN  IF d.missing = {} \/ d.repair.pc # "none" THEN d
        ELSE IF Pending(d) THEN Reset(d)
        ELSE IF picked = {} THEN [d EXCEPT !.missing = wanted]
        ELSE [d EXCEPT !.missing = wanted \ picked,
                       !.inflight = d.inflight \cup picked,
                       !.repair = [pc |-> "queued", rows |-> picked]]

\* The vectors one drain applies: those that directly follow the sidecar.
Applied(d) ==
    {i \in d.covered + 1 .. d.covered + MaxDrain :
        d.covered + 1 .. i \subseteq d.parked}
Drained(d) ==
    LET covered == d.covered + Cardinality(Applied(d))
    IN  [d EXCEPT !.covered = covered, !.parked = d.parked \ 1 .. covered]

\* drain_parked_vectors: if the next parked vector does not follow the sidecar,
\* an earlier thought must be in flight or missing, or only a rebuild helps.
Drain(d, n) ==
    LET left  == Drained(d).parked
        stuck == /\ Cardinality(Applied(d)) < MaxDrain /\ left # {}
                 /\ \A i \in d.inflight \cup d.missing : \E j \in left : j <= i
    IN  IF Pending(d) THEN Reset(d)
        ELSE IF stuck THEN FullRepair(Drained(d), n)
        ELSE Drained(d)

\* commit_embeddings
Commit(d, good, bad, n) ==
    LET arrived == [d EXCEPT !.inflight = d.inflight \ good,
                             !.parked = d.parked \cup good,
                             !.attempts = [i \in Thoughts |->
                                 IF i \in good THEN 0 ELSE d.attempts[i]]]
        noted   == Reclaim(Fail(arrived, bad))
    IN  Repair(IF Exhausted(noted, bad \cup Abandoned(arrived))
                 THEN FullRepair(noted, n)
               ELSE IF good # {} THEN Drain(noted, n)
               ELSE noted)

-----------------------------------------------------------------------------
(* poll_vector_backend_upgrades: adopt a finished rebuild, then a finished *)
(* repair, then drain what is parked and not held back                     *)

\* The thoughts appended since the rebuild began that one adoption embeds.
CatchingUp(d, n) ==
    IF d.rebuild.pc # "built" THEN {}
    ELSE d.rebuild.rows + 1 .. d.rebuild.rows + CatchUp \cap 1 .. n

\* adopt_finished_full_rebuilds, adopt_rebuilt_sidecar: a new entry, which
\* knows nothing of the old one's tickets, takes over once it has caught up.
PollRebuild(d, n, ok) ==
    LET rows == d.rebuild.rows + Cardinality(CatchingUp(d, n))
    IN  CASE d.rebuild.pc \in {"none", "running", "panicked"} -> d
          [] d.rebuild.pc = "failed" \/ (d.rebuild.pc = "built" /\ ~ok) ->
                [d EXCEPT !.rebuild = NoRebuild, !.lost = "yes"]
          [] d.rebuild.pc = "built" /\ ok /\ rows < n ->
                [d EXCEPT !.rebuild.rows = rows]
          [] d.rebuild.pc = "built" /\ ok /\ rows = n ->
                [Entry(n) EXCEPT !.repair = d.repair, !.guard = d.guard]

\* adopt_finished_gap_repairs
PollRepair(d, n) ==
    LET taken == [d EXCEPT !.repair = NoRepair]
    IN  CASE d.repair.pc = "embedded" -> Commit(taken, d.repair.rows, {}, n)
          [] d.repair.pc = "failed" -> Commit(taken, {}, d.repair.rows, n)
          [] d.repair.pc \in {"none", "queued"} -> d

\* has_drainable_parked, drain_leftover_parked_vectors
Drainable(d) ==
    \E i \in d.parked : \A j \in d.parked \cup d.inflight \cup d.missing : i <= j
\* Variant: what a bounded drain left behind waits for the next commit.
PollDrainNever(d, n) == d
PollDrain(d, n) == IF Drainable(d) THEN Drain(d, n) ELSE d

Poll(d, n, ok) == PollDrain(PollRepair(PollRebuild(d, n, ok), n), n)

\* has_finished_sidecar_rebuilds
Finished(d) ==
    \/ d.rebuild.pc \in {"built", "failed"}
    \/ d.repair.pc \in {"embedded", "failed"}
    \/ Drainable(d)

-----------------------------------------------------------------------------
(* The embedding provider: one call for rows succeeds or fails as a whole *)

Answers(rows) ==
    {ok \in BOOLEAN :
        IF ok THEN rows \cap Poison = {}
              ELSE rows # {} /\ (rows \cap Poison # {} \/ embedFaults < MaxEmbedFaults)}
Cost(rows, ok) == IF ok \/ rows \cap Poison # {} THEN 0 ELSE 1

-----------------------------------------------------------------------------
(* Appends *)

\* queue_embed_tickets, once the pending results have been polled
QueueTicket(d, n) ==
    IF Pending(d) THEN Repair(d)
    ELSE IF Exhausted(Reclaim(d), Abandoned(d))
      THEN Repair(FullRepair(Reclaim(d), n))
    ELSE IF Pipelined(Reclaim(d)) >= MaxPipelined
      THEN Repair([Reclaim(d) EXCEPT !.missing = @ \cup {n}])
    ELSE Repair([Reclaim(d) EXCEPT !.inflight = @ \cup {n},
                                   !.issued = @ \cup {n}])
\* A deferred append (append_thought_detached). The new thought is on the
\* chain when the poll runs.
AppendDeferred ==
    LET n == thoughts + 1
        rows == CatchingUp(vectors, n)
    IN  /\ n \in Thoughts
        /\ \E ok \in Answers(rows) :
              /\ vectors' = QueueTicket(Poll(vectors, n, ok), n)
              /\ embedFaults' = embedFaults + Cost(rows, ok)
        /\ thoughts' = n
        /\ tickets' = [tickets EXCEPT ![n] =
              IF n \in vectors'.issued THEN "out" ELSE "none"]
        /\ UNCHANGED syncs

\* Variant: a failed embedding is only reported.
EmbedAndParkSilently(d, n, ok) ==
    IF ok THEN Drain([d EXCEPT !.parked = @ \cup {n}], n) ELSE d
\* embed_and_park: the thought takes its place in the pipeline at once.
EmbedAndPark(d, n, ok) ==
    IF ok THEN Drain([d EXCEPT !.parked = @ \cup {n}], n)
    ELSE Repair(Fail(d, {n}))

\* sync_managed_vector_sidecars_for_append: with an idle pipeline the vector
\* extends the sidecar; a stale sidecar or a failed embedding means a rebuild.
SyncAppend(d, n, ok) ==
    CASE Pending(d) -> d
      [] ~Pending(d) /\ (Pipelined(d) > 0 \/ d.missing # {}) ->
            EmbedAndPark(d, n, ok)
      [] ~Pending(d) /\ Pipelined(d) = 0 /\ d.missing = {} ->
            IF ok /\ d.covered = n - 1 THEN [d EXCEPT !.covered = n]
                                       ELSE ScheduleRebuild(d, n)

\* An append that embeds while it holds the lock (merges, the dashboard).
AppendSync ==
    LET n == thoughts + 1
        rows == CatchingUp(vectors, n)
    IN  /\ n \in Thoughts /\ syncs < MaxSync
        /\ \E ok1 \in Answers(rows), ok2 \in Answers({n}) :
              /\ vectors' = SyncAppend(Poll(vectors, n, ok1), n, ok2)
              /\ embedFaults' = embedFaults + Cost(rows, ok1) + Cost({n}, ok2)
        /\ thoughts' = n
        /\ syncs' = syncs + 1
        /\ UNCHANGED tickets

-----------------------------------------------------------------------------
(* Tickets, outside the lock, and their outcomes *)

\* EmbedTicket::embed
EmbedTicket(i) ==
    /\ tickets[i] = "out"
    /\ \E ok \in Answers({i}) :
          /\ tickets' = [tickets EXCEPT ![i] = IF ok THEN "good" ELSE "bad"]
          /\ embedFaults' = embedFaults + Cost({i}, ok)
    /\ UNCHANGED <<thoughts, vectors, syncs>>

\* TicketGuard::drop: a panic or the end of the runtime loses the outcome; the
\* ledger the ticket was issued from hears of it.
DropTicket(i) ==
    /\ tickets[i] # "none" /\ embedFaults < MaxEmbedFaults
    /\ tickets' = [tickets EXCEPT ![i] = "none"]
    /\ vectors' = [vectors EXCEPT !.ledger = @ \cup ({i} \cap vectors.issued),
                                  !.issued = @ \ {i}]
    /\ embedFaults' = embedFaults + 1
    /\ UNCHANGED <<thoughts, syncs>>

CommitTicket(i) ==
    /\ tickets[i] \in {"good", "bad"}
    /\ tickets' = [tickets EXCEPT ![i] = "none"]
    /\ LET disarmed == [vectors EXCEPT !.issued = @ \ {i}]
       IN  vectors' = IF tickets[i] = "good"
                        THEN Commit(disarmed, {i}, {}, thoughts)
                        ELSE Commit(disarmed, {}, {i}, thoughts)
    /\ UNCHANGED <<thoughts, embedFaults, syncs>>

-----------------------------------------------------------------------------
(* The worker thread, and the poll of an otherwise idle chain *)

\* GapRepairJob::run: one call for the whole batch.
RunRepair ==
    /\ vectors.repair.pc = "queued"
    /\ \E ok \in Answers(vectors.repair.rows) :
          /\ vectors' = [vectors EXCEPT
                !.repair.pc = IF ok THEN "embedded" ELSE "failed"]
          /\ embedFaults' = embedFaults + Cost(vectors.repair.rows, ok)
    /\ UNCHANGED <<thoughts, tickets, syncs>>

\* build_sidecar_in_background: the slot is filled, then the guard released.
RunRebuild ==
    LET rows == 1 .. vectors.rebuild.rows
    IN  /\ vectors.rebuild.pc = "running"
        /\ \E ok \in Answers(rows) :
              /\ vectors' = [vectors EXCEPT
                    !.rebuild.pc = IF ok THEN "built" ELSE "failed"]
              /\ embedFaults' = embedFaults + Cost(rows, ok)
        /\ UNCHANGED <<thoughts, tickets, syncs>>

\* A panic of the provider ends the job without an outcome; the worker and the
\* guard survive it.
PanicRebuild ==
    /\ vectors.rebuild.pc = "running" /\ embedFaults < MaxEmbedFaults
    /\ vectors' = [vectors EXCEPT !.rebuild.pc = "panicked"]
    /\ embedFaults' = embedFaults + 1
    /\ UNCHANGED <<thoughts, tickets, syncs>>

ReleaseGuard ==
    /\ vectors.guard = "held" /\ vectors.rebuild.pc # "running"
    /\ vectors' = [vectors EXCEPT !.guard = "free"]
    /\ UNCHANGED <<thoughts, tickets, embedFaults, syncs>>

\* repair_if_idle: a request that finds finished work has it adopted.
PollIdle ==
    /\ Finished(vectors)
    /\ \E ok \in Answers(CatchingUp(vectors, thoughts)) :
          /\ \E rebuilt \in {PollRebuild(vectors, thoughts, ok)} :
                \E repaired \in {PollRepair(rebuilt, thoughts)} :
                    vectors' = PollDrain(repaired, thoughts)
          /\ embedFaults' = embedFaults + Cost(CatchingUp(vectors, thoughts), ok)
    /\ UNCHANGED <<thoughts, tickets, syncs>>

EmbedNext ==
    \/ AppendDeferred \/ AppendSync
    \/ \E i \in Thoughts : EmbedTicket(i) \/ DropTicket(i) \/ CommitTicket(i)
    \/ RunRepair \/ RunRebuild \/ PanicRebuild \/ ReleaseGuard
    \/ PollIdle

\* A ticket is embedded, then committed or lost: the steps of EmbedTicket,
\* CommitTicket and DropTicket, told by the ticket alone.
TicketMoves ==
    \E i \in Thoughts, to \in {"none", "good", "bad"} :
        /\ tickets[i] # "none" /\ to # tickets[i]
        /\ tickets' = [tickets EXCEPT ![i] = to]

\* An append's task runs to its end even if its client has gone (it is spawned),
\* the worker runs what is queued, and a chain that is in use is polled.
EmbedFairness ==
    /\ WF_tickets(TicketMoves)
    /\ WF_embedVars(RunRepair \/ RunRebuild \/ ReleaseGuard)
    /\ WF_embedVars(PollIdle)

EmbedSpec == EmbedInit /\ [][EmbedNext]_embedVars /\ EmbedFairness

-----------------------------------------------------------------------------
(* Properties *)

\* Every piece of state has its type.
EmbedTypeOK ==
    /\ thoughts \in 0 .. MaxThoughts
    /\ vectors.covered \in 0 .. thoughts
    /\ vectors.inflight \cup vectors.parked \cup vectors.missing
          \cup vectors.ledger \cup vectors.issued \cup vectors.repair.rows
          \subseteq 1 .. thoughts
    /\ vectors.attempts \in [Thoughts -> 0 .. MaxEmbedAttempts]
    /\ vectors.repair.pc \in {"none", "queued", "embedded", "failed"}
    /\ vectors.rebuild.pc
          \in {"none", "running", "built", "failed", "panicked"}
    /\ vectors.rebuild.rows \in 0 .. thoughts
    /\ vectors.guard \in {"free", "held"} /\ vectors.lost \in {"no", "yes"}
    /\ tickets \in [Thoughts -> {"none", "out", "good", "bad"}]

\* Every thought whose vector has not been applied is on its way to it: a
\* rebuild is pending, the vector is parked, the thought is noted to be embedded
\* again, or it counts as in flight and a ticket, the ledger of abandoned
\* tickets or the gap repair really has it.  Only a rebuild that failed or was
\* refused leaves a gap that the next append must find.
Accounted ==
    \/ Pending(vectors) \/ vectors.lost = "yes"
    \/ \A i \in vectors.covered + 1 .. thoughts :
          \/ i \in vectors.parked \cup vectors.missing
          \/ /\ i \in vectors.inflight
             /\ i \in vectors.issued \cup vectors.ledger \cup vectors.repair.rows

\* When the appends stop the sidecar catches up, unless an abandoned ticket or
\* a lost rebuild waits for the next append to notice it, or everything waits
\* for a rebuild that has panicked.
VectorsCatchUp ==
    <>[](\/ vectors.covered = thoughts
         \/ vectors.ledger # {} \/ vectors.lost = "yes"
         \/ vectors.rebuild.pc = "panicked")

=============================================================================
