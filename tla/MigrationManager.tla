-------------------------- MODULE MigrationManager --------------------------
(***************************************************************************)
(* The background migration of a data directory: migration/manager.rs.     *)
(* Worker threads take chains from a queue guarded by a mutex and a        *)
(* condition variable, run the engine on each and publish a status per     *)
(* chain; every request asks that status, gate(), whether its chain may be *)
(* opened.  Operators retry and skip chains meanwhile, and the daemon may  *)
(* ask the workers to stop.                                                *)
(*                                                                         *)
(* The engine itself is MigrationEngine; here a run takes the chain lock,  *)
(* journals that it started, and ends in one of its outcomes.              *)
(***************************************************************************)
EXTENDS Naturals, Sequences, FiniteSets

CONSTANTS
    Chains, Workers, Operators,
    MaxCommands, \* bound: operator commands that change something
    MaxFaults    \* bound: failed and panicking runs

ASSUME BoundAssumption == MaxCommands \in Nat /\ MaxFaults \in Nat
ASSUME FiniteAssumption == IsFiniteSet(Chains) /\ IsFiniteSet(Workers) /\ IsFiniteSet(Operators)

VARIABLES
    file,        \* per chain: the format of its file
    journal,     \* per chain: the state of its journal
    status,      \* statuses: what gate() answers from; "absent" without entry
    queue,       \* queue: chains waiting for a worker
    mutex,       \* who holds the queue mutex: a worker, or "free"
    outstanding, \* outstanding: chains queued or running
    shutdown,    \* "off"; "set", the flag alone; "done", the workers notified
    wpc, job, outcome, \* per worker: next step, its chain, what the engine said
    lock,        \* per chain: the worker whose run holds the chain lock, "free"
    opc, och, decision, \* per operator: next step, chain, what assess() said
    commands, faults    \* counters of the bounds

disk    == <<file, journal, lock>>
work    == <<wpc, job, outcome>>
command == <<opc, och, decision>>
bounds  == <<commands, faults>>
managerVars == <<disk, status, queue, mutex, outstanding, shutdown, work, command,
                 bounds>>

Formats == {"legacy", "current", "broken"}
Journals == {"none", "unfinished", "finalized", "failed", "skipped"}
Quarantined == {"failed", "skipped"}
Phases == {"absent", "pending", "running", "completed", "failed", "skipped"}

\* assess(): what a chain needs, from its journal and its file.
Assessment(c) ==
    CASE journal[c] \in Quarantined   -> journal[c]
      [] journal[c] = "unfinished"    -> "queue"
      [] journal[c] \in {"none", "finalized"} ->
            CASE file[c] = "current" -> "current"
              [] file[c] = "legacy"  -> "queue"
              [] file[c] = "broken"  -> "failed"
\* ... and what is recorded for it.
Recorded(assessment) ==
    CASE assessment = "current"      -> "absent"
      [] assessment = "queue"        -> "pending"
      [] assessment \in Quarantined  -> assessment

\* What a daemon finds on the disk, a corrupt chain already quarantined.
Found == {<<"legacy", "none">>, <<"legacy", "unfinished">>,
          <<"legacy", "failed">>, <<"legacy", "skipped">>,
          <<"current", "none">>, <<"current", "finalized">>,
          <<"current", "unfinished">>, <<"broken", "failed">>}

\* start(): the directory is scanned, in any order, before the workers are
\* spawned.
Scanned(chains) ==
    {q \in [1 .. Cardinality(chains) -> chains] : \A i, j \in DOMAIN q : q[i] = q[j] => i = j}

ManagerInit ==
    /\ \E found \in [Chains -> Found] :
          /\ file = [c \in Chains |-> found[c][1]]
          /\ journal = [c \in Chains |-> found[c][2]]
    /\ status = [c \in Chains |-> Recorded(Assessment(c))]
    /\ queue \in Scanned({c \in Chains : Assessment(c) = "queue"})
    /\ outstanding = Len(queue)
    /\ mutex = "free" /\ shutdown = "off"
    /\ lock = [c \in Chains |-> "free"]
    /\ wpc = [w \in Workers |-> "lock"]
    /\ job \in [Workers -> Chains]
    /\ \A w \in Workers : job[w] = CHOOSE c \in Chains : TRUE
    /\ outcome = [w \in Workers |-> "none"]
    /\ opc = [o \in Operators |-> "idle"]
    /\ och = [o \in Operators |-> CHOOSE c \in Chains : TRUE]
    /\ decision = [o \in Operators |-> "none"]
    /\ commands = 0 /\ faults = 0

-----------------------------------------------------------------------------
(* The condition variable. *)

\* notify_one: some waiting worker goes for the mutex; nobody if none waits.
WakeOne(pcs) ==
    LET parked == {w \in Workers : pcs[w] = "parked"}
    IN  \/ parked = {} /\ wpc' = pcs
        \/ \E w \in parked : wpc' = [pcs EXCEPT ![w] = "lock"]

\* queue.lock().push_back(): the mutex is held for the push only.
Push(c) == mutex = "free" /\ queue' = Append(queue, c)

-----------------------------------------------------------------------------
(* work_loop *)

Goto(w, step) == wpc' = [wpc EXCEPT ![w] = step]

Lock(w) ==
    /\ wpc[w] = "lock" /\ mutex = "free"
    /\ mutex' = w
    /\ Goto(w, "check")
    /\ UNCHANGED <<disk, status, queue, outstanding, shutdown, job, outcome,
                   command, bounds>>

\* With the mutex held: stop, take a chain, or decide to wait.
Check(w) ==
    /\ wpc[w] = "check"
    /\ \/ /\ shutdown # "off"
          /\ Goto(w, "exited") /\ mutex' = "free"
          /\ UNCHANGED <<queue, job>>
       \/ /\ shutdown = "off" /\ queue # <<>>
          /\ job' = [job EXCEPT ![w] = Head(queue)] /\ queue' = Tail(queue)
          /\ Goto(w, "mark") /\ mutex' = "free"
       \/ /\ shutdown = "off" /\ queue = <<>>
          /\ Goto(w, "park")
          /\ UNCHANGED <<queue, mutex, job>>
    /\ UNCHANGED <<disk, status, outstanding, shutdown, outcome, command,
                   bounds>>

\* wake.wait(): releases the mutex and waits, in one step.
Park(w) ==
    /\ wpc[w] = "park"
    /\ mutex' = "free"
    /\ Goto(w, "parked")
    /\ UNCHANGED <<disk, status, queue, outstanding, shutdown, job, outcome,
                   command, bounds>>

Release(w) ==
    /\ wpc[w] = "release"
    /\ outstanding' = IF outstanding = 0 THEN 0 ELSE outstanding - 1
    /\ Goto(w, "lock")
    /\ UNCHANGED <<disk, status, queue, mutex, shutdown, job, outcome, command,
                   bounds>>

-----------------------------------------------------------------------------
(* run_job *)

Mark(w) ==
    /\ wpc[w] = "mark"
    /\ status' = [status EXCEPT ![job[w]] = "running"]
    /\ Goto(w, "start")
    /\ UNCHANGED <<disk, queue, mutex, outstanding, shutdown, job, outcome,
                   command, bounds>>

\* ChainLock::acquire: another run holds the chain, or this one does now.
StartRun(w) ==
    LET c == job[w] IN
    /\ wpc[w] = "start"
    /\ \/ /\ lock[c] # "free"
          /\ Goto(w, "requeue")
          /\ UNCHANGED lock
       \/ /\ lock[c] = "free"
          /\ lock' = [lock EXCEPT ![c] = w]
          /\ Goto(w, "engine")
    /\ UNCHANGED <<file, journal, status, queue, mutex, outstanding, shutdown,
                   job, outcome, command, bounds>>

\* A chain that needs it is journalled before anything else is done to it.
Plan(w) ==
    LET c == job[w] IN
    /\ wpc[w] = "engine"
    /\ journal[c] \in {"none", "finalized"} /\ file[c] = "legacy"
    /\ journal' = [journal EXCEPT ![c] = "unfinished"]
    /\ UNCHANGED <<file, lock, status, queue, mutex, outstanding, shutdown,
                   work, command, bounds>>

\* The run returns, and with it the chain lock.
EndRun(w) ==
    LET c == job[w]
        Return(says, format, state) ==
            /\ outcome' = [outcome EXCEPT ![w] = says]
            /\ file' = [file EXCEPT ![c] = format]
            /\ journal' = [journal EXCEPT ![c] = state]
    IN
    /\ wpc[w] = "engine"
    /\ \/ journal[c] \in Quarantined
          /\ Return(journal[c], file[c], journal[c]) /\ UNCHANGED faults
       \/ journal[c] \in {"none", "finalized"} /\ file[c] = "current"
          /\ Return("not_needed", file[c], journal[c]) /\ UNCHANGED faults
       \/ journal[c] \in {"none", "finalized"} /\ file[c] = "broken"
          /\ Return("error", file[c], "failed") /\ UNCHANGED faults
       \/ journal[c] = "unfinished"
          /\ Return("migrated", "current", "finalized") /\ UNCHANGED faults
       \/ journal[c] = "unfinished" /\ file[c] = "legacy" /\ shutdown # "off"
          /\ Return("interrupted", file[c], journal[c]) /\ UNCHANGED faults
       \* an error quarantines the chain; a panic, and an error that could not
       \* be journalled, leave the journal as it was
       \/ /\ journal[c] = "unfinished" /\ faults < MaxFaults
          /\ \/ Return("error", file[c], "failed")
             \/ \E format \in {file[c], "current"} :
                   Return("error", format, "unfinished")
          /\ faults' = faults + 1
    /\ lock' = [lock EXCEPT ![c] = "free"]
    /\ Goto(w, "report")
    /\ UNCHANGED <<status, queue, mutex, outstanding, shutdown, job, command,
                   commands>>

\* The phase a run's outcome is published as.
PhaseOf(said) ==
    CASE said = "migrated"    -> "completed"
      [] said = "not_needed"  -> "absent"
      [] said = "interrupted" -> "pending"
      [] said = "error"       -> "failed"
      [] said \in Quarantined -> said

Report(w) ==
    /\ wpc[w] = "report"
    /\ status' = [status EXCEPT ![job[w]] = PhaseOf(outcome[w])]
    /\ outcome' = [outcome EXCEPT ![w] = "none"]
    /\ Goto(w, "release")
    /\ UNCHANGED <<disk, queue, mutex, outstanding, shutdown, job, command,
                   bounds>>

\* enqueue_again, in three steps: push, notify, count.
Requeue(w) ==
    /\ wpc[w] = "requeue"
    /\ Push(job[w])
    /\ Goto(w, "renotify")
    /\ UNCHANGED <<disk, status, mutex, outstanding, shutdown, job, outcome,
                   command, bounds>>
Renotify(w) ==
    /\ wpc[w] = "renotify"
    /\ WakeOne([wpc EXCEPT ![w] = "recount"])
    /\ UNCHANGED <<disk, status, queue, mutex, outstanding, shutdown, job,
                   outcome, command, bounds>>
\* Variant: a requeued chain gets no slot of its own.
RecountForgotten(w) ==
    /\ wpc[w] = "recount"
    /\ Goto(w, "release")
    /\ UNCHANGED <<disk, status, queue, mutex, outstanding, shutdown, job,
                   outcome, command, bounds>>
Recount(w) ==
    /\ wpc[w] = "recount"
    /\ outstanding' = outstanding + 1
    /\ Goto(w, "release")
    /\ UNCHANGED <<disk, status, queue, mutex, shutdown, job, outcome, command,
                   bounds>>

-----------------------------------------------------------------------------
(* retry and skip *)

Continue(o, step) == opc' = [opc EXCEPT ![o] = step]

\* retry_chain and skip_chain refuse a chain that is being migrated, or whose
\* migration was cut off; otherwise they change its journal under its lock.
Begin(o, c, step, state) ==
    /\ opc[o] = "idle" /\ commands < MaxCommands
    /\ lock[c] = "free" /\ journal[c] # "unfinished"
    /\ journal' = [journal EXCEPT ![c] = state]
    /\ och' = [och EXCEPT ![o] = c]
    /\ Continue(o, step)
    /\ commands' = commands + 1
    /\ UNCHANGED <<file, lock, queue, mutex, outstanding, shutdown, work,
                   decision, faults>>

\* Variant: the old status is dropped before the new one is known.
RetryForgets(o) == \E c \in Chains :
    /\ Begin(o, c, "assess", "none")
    /\ status' = [status EXCEPT ![c] = "absent"]
Retry(o) == \E c \in Chains :
    Begin(o, c, "assess", "none") /\ UNCHANGED status
Skip(o) == \E c \in Chains :
    Begin(o, c, "hide", "skipped") /\ UNCHANGED status

\* assess() records nothing, except that a chain nobody can migrate is
\* quarantined, if its lock is free.
Assess(o) ==
    LET c == och[o] IN
    /\ opc[o] = "assess"
    /\ decision' = [decision EXCEPT ![o] = Assessment(c)]
    /\ journal' = IF Assessment(c) = "failed" /\ lock[c] = "free"
                    THEN [journal EXCEPT ![c] = "failed"] ELSE journal
    /\ Continue(o, "record")
    /\ UNCHANGED <<file, lock, status, queue, mutex, outstanding, shutdown,
                   work, och, bounds>>

Record(o) ==
    /\ opc[o] = "record"
    /\ status' = [status EXCEPT ![och[o]] = Recorded(decision[o])]
    /\ Continue(o, IF decision[o] = "queue" THEN "count" ELSE "idle")
    /\ decision' = [decision EXCEPT ![o] = "none"]
    /\ UNCHANGED <<disk, queue, mutex, outstanding, shutdown, work, och,
                   bounds>>

\* enqueue: count, push, notify.
Count(o) ==
    /\ opc[o] = "count"
    /\ outstanding' = outstanding + 1
    /\ Continue(o, "push")
    /\ UNCHANGED <<disk, status, queue, mutex, shutdown, work, och, decision,
                   bounds>>
PushJob(o) ==
    /\ opc[o] = "push"
    /\ Push(och[o])
    /\ Continue(o, "notify")
    /\ UNCHANGED <<disk, status, mutex, outstanding, shutdown, work, och,
                   decision, bounds>>
\* Variant: nobody is woken.
NotifyNobody(o) ==
    /\ opc[o] = "notify"
    /\ Continue(o, "idle")
    /\ UNCHANGED <<disk, status, queue, mutex, outstanding, shutdown, work,
                   och, decision, bounds>>
Notify(o) ==
    /\ opc[o] = "notify"
    /\ WakeOne(wpc)
    /\ Continue(o, "idle")
    /\ UNCHANGED <<disk, status, queue, mutex, outstanding, shutdown, job,
                   outcome, och, decision, bounds>>

Hide(o) ==
    /\ opc[o] = "hide"
    /\ status' = [status EXCEPT ![och[o]] = "skipped"]
    /\ Continue(o, "idle")
    /\ UNCHANGED <<disk, queue, mutex, outstanding, shutdown, work, och,
                   decision, bounds>>

-----------------------------------------------------------------------------
(* shutdown: the flag, then the workers that wait; never the mutex. *)

SetFlag ==
    /\ shutdown = "off"
    /\ shutdown' = "set"
    /\ UNCHANGED <<disk, status, queue, mutex, outstanding, work, command,
                   bounds>>
WakeAll ==
    /\ shutdown = "set"
    /\ shutdown' = "done"
    /\ wpc' = [w \in Workers |-> IF wpc[w] = "parked" THEN "lock" ELSE wpc[w]]
    /\ UNCHANGED <<disk, status, queue, mutex, outstanding, job, outcome,
                   command, bounds>>

-----------------------------------------------------------------------------
WorkerStep(w) ==
    \/ Lock(w) \/ Check(w) \/ Park(w) \/ Mark(w) \/ StartRun(w) \/ Plan(w)
    \/ EndRun(w) \/ Report(w) \/ Requeue(w) \/ Renotify(w) \/ Recount(w)
    \/ Release(w)
OperatorStep(o) ==
    \/ Assess(o) \/ Record(o) \/ Count(o) \/ PushJob(o) \/ Notify(o) \/ Hide(o)

ManagerNext ==
    \/ \E w \in Workers : WorkerStep(w)
    \/ \E o \in Operators : Retry(o) \/ Skip(o) \/ OperatorStep(o)
    \/ SetFlag \/ WakeAll

ManagerSpec == ManagerInit /\ [][ManagerNext]_managerVars

\* Threads that can run do; no command, and no request to stop, need come.
ManagerFairSpec ==
    /\ ManagerSpec
    /\ \A w \in Workers : WF_managerVars(WorkerStep(w))
    /\ \A o \in Operators : WF_managerVars(OperatorStep(o))
    /\ WF_managerVars(WakeAll)

-----------------------------------------------------------------------------
(* Properties *)

\* Types; and the number of outstanding chains does not drift: a chain counts
\* once for each time it was asked for, and once more while it is requeued.
ManagerTypeOK ==
    /\ file \in [Chains -> Formats] /\ journal \in [Chains -> Journals]
    /\ status \in [Chains -> Phases]
    /\ queue \in Seq(Chains) /\ mutex \in Workers \cup {"free"}
    /\ outstanding \in
          0 .. Cardinality(Chains) + MaxCommands + Cardinality(Workers)
    /\ shutdown \in {"off", "set", "done"}
    /\ wpc \in [Workers -> {"lock", "check", "park", "parked", "mark", "start",
                            "engine", "report", "requeue", "renotify",
                            "recount", "release", "exited"}]
    /\ job \in [Workers -> Chains]
    /\ outcome \in [Workers -> {"none", "migrated", "not_needed",
                                "interrupted", "error"} \cup Quarantined]
    /\ lock \in [Chains -> Workers \cup {"free"}]
    /\ opc \in [Operators -> {"idle", "assess", "record", "count", "push",
                              "notify", "hide"}]
    /\ och \in [Operators -> Chains]
    /\ decision \in [Operators -> {"none", "current", "queue"} \cup Quarantined]
    /\ commands \in 0 .. MaxCommands /\ faults \in 0 .. MaxFaults

\* gate(): may a request open the chain?
Open(c) == status[c] \in {"absent", "completed"}

\* No request opens a chain that is still in an old format or whose migration
\* is not over, whatever commands overlap with the runs.
GateIsSafe == \A c \in Chains :
    Open(c) => file[c] = "current" /\ journal[c] # "unfinished"

Running(w) == wpc[w] \in {"mark", "start", "engine", "report", "requeue"}

\* wait_idle() answers true only when nothing is queued and no run is under
\* way: a chain that is requeued stays counted.
IdleMeansDone ==
    outstanding = 0 => queue = <<>> /\ \A w \in Workers : ~Running(w)

\* A chain reported as pending is taken up, unless the daemon is stopping: no
\* wake-up of enqueue() is lost.
PendingRuns == \A c \in Chains :
    status[c] = "pending" ~> status[c] # "pending" \/ shutdown # "off"

=============================================================================
