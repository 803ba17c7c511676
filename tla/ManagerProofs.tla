---------------------------- MODULE ManagerProofs ----------------------------
(***************************************************************************)
(* Proofs about MigrationManager, for every number of chains, workers and  *)
(* operators: gate() never opens a chain too early, and wait_idle() never  *)
(* answers too early; and about Lineage, for every chain of versions, every *)
(* depth, window and audience: the bounded walk finds what is live.        *)
(***************************************************************************)
EXTENDS MigrationManager, Lineage, TLAPS, FiniteSetTheorems, SequenceTheorems, WellFoundedInduction

-----------------------------------------------------------------------------
(* The gate. *)

\* A chain whose migration is over.  No step of anybody undoes that: a run
\* journals only a chain in the old format, and no operator may touch the
\* journal of a chain whose migration was begun.
Good(c) == file[c] = "current" /\ journal[c] # "unfinished"

Engaged == {"mark", "start", "engine", "report", "requeue", "renotify", "recount"}
Asked == {"assess", "record", "count", "push", "notify", "hide"}
Outcomes == {"migrated", "not_needed", "interrupted", "error"} \cup Quarantined

ManagerTyped ==
    /\ file \in [Chains -> Formats] /\ journal \in [Chains -> Journals]
    /\ status \in [Chains -> Phases] /\ queue \in Seq(Chains)
    /\ DOMAIN wpc = Workers /\ DOMAIN job = Workers /\ DOMAIN outcome = Workers
    /\ \A w \in Workers : wpc[w] \in Engaged => job[w] \in Chains
    /\ \A w \in Workers : wpc[w] = "report" => outcome[w] \in Outcomes
    /\ DOMAIN opc = Operators /\ DOMAIN och = Operators /\ DOMAIN decision = Operators
    /\ \A o \in Operators : opc[o] \in Asked => och[o] \in Chains
    /\ \A o \in Operators : opc[o] = "record" => decision[o] \in {"current", "queue"} \cup Quarantined

\* What is open is good, and so is what is about to be opened: the chain of a
\* run that reports, and of an operator that found nothing to do.
GateSound ==
    /\ \A c \in Chains : Open(c) => Good(c)
    /\ \A w \in Workers :
         wpc[w] = "report" /\ outcome[w] \in {"migrated", "not_needed"} => Good(job[w])
    /\ \A o \in Operators : opc[o] = "record" /\ decision[o] = "current" => Good(och[o])

-----------------------------------------------------------------------------
(* The count of wait_idle(). *)

\* A run has a slot of the count until it releases it.  A chain that is pushed
\* again takes the run's slot with it, and the run gets a new one when it is
\* counted (enqueue_again); an operator counts its chain before it is pushed.
Slots == {w \in Workers : wpc[w] \in {"mark", "start", "engine", "report", "requeue", "release"}}
Owed == {o \in Operators : opc[o] = "push"}

Counted == outstanding = Len(queue) + Cardinality(Slots) + Cardinality(Owed)

MInv == ManagerTyped /\ GateSound /\ Counted

-----------------------------------------------------------------------------
(* What the steps do to the threads. *)

\* The next step of one worker, the others where they were.
LEMMA GotoShape ==
    ASSUME ManagerTyped, NEW w \in Workers, NEW step, Goto(w, step)
    PROVE  /\ DOMAIN wpc' = Workers /\ wpc'[w] = step
           /\ \A v \in Workers \ {w} : wpc'[v] = wpc[v]
BY DEF ManagerTyped, Goto

LEMMA ContinueShape ==
    ASSUME ManagerTyped, NEW o \in Operators, NEW step, Continue(o, step)
    PROVE  /\ DOMAIN opc' = Operators /\ opc'[o] = step
           /\ \A p \in Operators \ {o} : opc'[p] = opc[p]
BY DEF ManagerTyped, Continue

\* A notification moves a worker that waits, if any, and nobody else.
LEMMA WakeShape ==
    ASSUME NEW pcs, DOMAIN pcs = Workers, WakeOne(pcs)
    PROVE  /\ DOMAIN wpc' = Workers
           /\ \A v \in Workers : wpc'[v] = pcs[v] \/ (pcs[v] = "parked" /\ wpc'[v] = "lock")
BY DEF WakeOne

\* The chain a run is about, and that of a command.
LEMMA JobThere ==
    ASSUME ManagerTyped, NEW w \in Workers, wpc[w] \in Engaged
    PROVE  job[w] \in Chains
BY DEF ManagerTyped

\* What a chain needs, and how that is recorded.
LEMMA AssessmentShape ==
    ASSUME ManagerTyped, NEW c \in Chains
    PROVE  /\ Assessment(c) \in {"current", "queue"} \cup Quarantined
           /\ Assessment(c) = "current" => Good(c)
<1>1. file[c] \in Formats /\ journal[c] \in Journals
  BY DEF ManagerTyped
<1>2. CASE journal[c] \in Quarantined
  BY <1>2 DEF Assessment, Quarantined
<1>3. CASE journal[c] = "unfinished"
  BY <1>3 DEF Assessment, Quarantined
<1>4. CASE journal[c] \in {"none", "finalized"} /\ file[c] = "current"
  BY <1>4 DEF Assessment, Quarantined, Good
<1>5. CASE journal[c] \in {"none", "finalized"} /\ file[c] = "legacy"
  BY <1>5 DEF Assessment, Quarantined
<1>6. CASE journal[c] \in {"none", "finalized"} /\ file[c] = "broken"
  BY <1>6 DEF Assessment, Quarantined
<1>7. QED
  BY <1>1, <1>2, <1>3, <1>4, <1>5, <1>6 DEF Formats, Journals, Quarantined

LEMMA RecordedShape ==
    ASSUME NEW a \in {"current", "queue"} \cup Quarantined
    PROVE  /\ Recorded(a) \in Phases
           /\ Recorded(a) \in {"absent", "completed"} => a = "current"
<1>1. CASE a = "current"
  BY <1>1 DEF Recorded, Phases, Quarantined
<1>2. CASE a = "queue"
  BY <1>2 DEF Recorded, Phases, Quarantined
<1>3. CASE a \in Quarantined
  BY <1>3 DEF Recorded, Phases, Quarantined
<1>4. QED
  BY <1>1, <1>2, <1>3

LEMMA PhaseShape ==
    ASSUME NEW said \in Outcomes
    PROVE  /\ PhaseOf(said) \in Phases
           /\ PhaseOf(said) \in {"absent", "completed"} => said \in {"migrated", "not_needed"}
<1>1. CASE said = "migrated" \/ said = "not_needed" \/ said = "interrupted" \/ said = "error"
  BY <1>1 DEF PhaseOf, Phases, Quarantined
<1>2. CASE said \in Quarantined
  BY <1>2 DEF PhaseOf, Phases, Quarantined
<1>3. QED
  BY <1>1, <1>2 DEF Outcomes

-----------------------------------------------------------------------------
(* What is good stays good. *)

\* The format and the journal of every chain after a step.
LEMMA EndRunShape ==
    ASSUME ManagerTyped, NEW w \in Workers, EndRun(w)
    PROVE  /\ file' \in [Chains -> Formats] /\ journal' \in [Chains -> Journals]
           /\ \A c \in Chains : Good(c) => Good(c)'
           /\ DOMAIN outcome' = Workers /\ outcome'[w] \in Outcomes
           /\ outcome'[w] \in {"migrated", "not_needed"} => Good(job[w])'
           /\ \A v \in Workers \ {w} : outcome'[v] = outcome[v]
<1>1. PICK c \in Chains : c = job[w]
  BY JobThere DEF EndRun, Engaged
<1>2. PICK says \in Outcomes, format \in Formats, state \in Journals :
        /\ outcome' = [outcome EXCEPT ![w] = says]
        /\ file' = [file EXCEPT ![c] = format]
        /\ journal' = [journal EXCEPT ![c] = state]
        /\ says \in {"migrated", "not_needed"} => format = "current" /\ state # "unfinished"
        /\ Good(c) => format = "current" /\ state # "unfinished"
  <2>1. file[c] \in Formats /\ journal[c] \in Journals
    BY DEF ManagerTyped
  <2>2. QED
    BY <1>1, <2>1 DEF EndRun, Outcomes, Formats, Journals, Quarantined, Good
<1>3. /\ file'[c] = format /\ journal'[c] = state /\ outcome'[w] = says
      /\ \A d \in Chains \ {c} : file'[d] = file[d] /\ journal'[d] = journal[d]
      /\ file' \in [Chains -> Formats] /\ journal' \in [Chains -> Journals]
      /\ DOMAIN outcome' = Workers /\ \A v \in Workers \ {w} : outcome'[v] = outcome[v]
  BY <1>2 DEF ManagerTyped
<1>4. job' = job
  BY DEF EndRun
<1>5. QED
  BY <1>1, <1>2, <1>3, <1>4 DEF Good

LEMMA JournalShape ==
    ASSUME ManagerTyped, NEW c \in Chains, NEW state \in Journals \ {"unfinished"},
           journal' = [journal EXCEPT ![c] = state], file' = file
    PROVE  journal' \in [Chains -> Journals] /\ \A d \in Chains : Good(d) => Good(d)'
<1>1. journal' \in [Chains -> Journals] /\ journal'[c] = state /\ \A d \in Chains \ {c} : journal'[d] = journal[d]
  BY DEF ManagerTyped
<1>2. QED
  BY <1>1 DEF Good

LEMMA GoodStays ==
    ASSUME ManagerTyped, [ManagerNext]_managerVars
    PROVE  /\ file' \in [Chains -> Formats] /\ journal' \in [Chains -> Journals]
           /\ \A c \in Chains : Good(c) => Good(c)'
<1>1. ASSUME UNCHANGED <<file, journal>>
      PROVE  /\ file' \in [Chains -> Formats] /\ journal' \in [Chains -> Journals]
             /\ \A c \in Chains : Good(c) => Good(c)'
  BY <1>1 DEF ManagerTyped, Good
<1>2. ASSUME NEW w \in Workers, Plan(w)
      PROVE  /\ file' \in [Chains -> Formats] /\ journal' \in [Chains -> Journals]
             /\ \A c \in Chains : Good(c) => Good(c)'
  <2>1. PICK c \in Chains : c = job[w]
    BY <1>2, JobThere DEF Plan, Engaged
  <2>2. file[c] = "legacy" /\ journal' = [journal EXCEPT ![c] = "unfinished"] /\ file' = file
    BY <1>2, <2>1 DEF Plan
  <2>3. /\ journal' \in [Chains -> Journals] /\ \A d \in Chains \ {c} : journal'[d] = journal[d]
    BY <2>2 DEF ManagerTyped, Journals
  <2>4. QED
    BY <2>2, <2>3 DEF ManagerTyped, Good
<1>3. ASSUME NEW o \in Operators, NEW c \in Chains, NEW step, NEW state \in {"none", "skipped"},
             Begin(o, c, step, state)
      PROVE  /\ file' \in [Chains -> Formats] /\ journal' \in [Chains -> Journals]
             /\ \A d \in Chains : Good(d) => Good(d)'
  <2>1. journal' = [journal EXCEPT ![c] = state] /\ file' = file
    BY <1>3 DEF Begin
  <2>2. state \in Journals \ {"unfinished"}
    BY DEF Journals
  <2>3. QED
    BY <2>1, <2>2, JournalShape DEF ManagerTyped
<1>4. ASSUME NEW o \in Operators, Assess(o)
      PROVE  /\ file' \in [Chains -> Formats] /\ journal' \in [Chains -> Journals]
             /\ \A c \in Chains : Good(c) => Good(c)'
  <2>1. PICK c \in Chains : c = och[o]
    BY <1>4 DEF Assess, ManagerTyped, Asked
  <2>2. file' = file /\ (journal' = journal \/ journal' = [journal EXCEPT ![c] = "failed"])
    BY <1>4, <2>1 DEF Assess
  <2>3. "failed" \in Journals \ {"unfinished"}
    BY DEF Journals
  <2>4. QED
    BY <1>1, <2>2, <2>3, JournalShape DEF ManagerTyped
<1>5. ASSUME NEW w \in Workers, WorkerStep(w), ~Plan(w), ~EndRun(w)
      PROVE  UNCHANGED <<file, journal>>
  BY <1>5 DEF WorkerStep, Lock, Check, Park, Mark, StartRun, Report, Requeue, Renotify, Recount, Release, disk
<1>6. ASSUME NEW o \in Operators, OperatorStep(o), ~Assess(o)
      PROVE  UNCHANGED <<file, journal>>
  BY <1>6 DEF OperatorStep, Record, Count, PushJob, Notify, Hide, disk
<1>7. CASE SetFlag \/ WakeAll \/ UNCHANGED managerVars
  <2>1. UNCHANGED <<file, journal>>
    BY <1>7 DEF SetFlag, WakeAll, managerVars, disk
  <2>2. QED
    BY <1>1, <2>1
<1>8. ASSUME NEW o \in Operators, Retry(o) \/ Skip(o)
      PROVE  /\ file' \in [Chains -> Formats] /\ journal' \in [Chains -> Journals]
             /\ \A c \in Chains : Good(c) => Good(c)'
  BY <1>3, <1>8 DEF Retry, Skip
<1>9. QED
  BY <1>1, <1>2, <1>4, <1>5, <1>6, <1>7, <1>8, EndRunShape DEF ManagerNext

-----------------------------------------------------------------------------
(* The gate is sound. *)

\* Nothing is opened but what is good.
LEMMA StatusGate ==
    ASSUME GateSound, \A c \in Chains : Good(c) => Good(c)',
           \A c \in Chains : status'[c] = status[c] \/ status'[c] \notin {"absent", "completed"} \/ Good(c)'
    PROVE  \A c \in Chains : Open(c)' => Good(c)'
BY DEF GateSound, Open

\* No run comes to its report, and those that have keep what they report.
LEMMA RunsGate ==
    ASSUME ManagerTyped, GateSound, \A c \in Chains : Good(c) => Good(c)',
           NEW v \in Workers, wpc[v] = "report", job'[v] = job[v], outcome'[v] = outcome[v],
           outcome'[v] \in {"migrated", "not_needed"}
    PROVE  Good(job[v])'
<1>1. PICK c \in Chains : c = job[v]
  BY JobThere DEF Engaged
<1>2. Good(c)'
  BY <1>1 DEF GateSound
<1>3. QED
  BY <1>1, <1>2 DEF Good

LEMMA CommandsGate ==
    ASSUME ManagerTyped, GateSound, \A c \in Chains : Good(c) => Good(c)',
           NEW o \in Operators, opc[o] = "record", och'[o] = och[o], decision'[o] = decision[o],
           decision'[o] = "current"
    PROVE  Good(och[o])'
<1>1. PICK c \in Chains : c = och[o]
  BY DEF ManagerTyped, Asked
<1>2. Good(c)'
  BY <1>1 DEF GateSound
<1>3. QED
  BY <1>1, <1>2 DEF Good

\* So a step keeps the gate sound that publishes, reports and decides nothing new.
LEMMA GateFrame ==
    ASSUME ManagerTyped, GateSound, \A c \in Chains : Good(c) => Good(c)',
           \A c \in Chains : status'[c] = status[c] \/ status'[c] \notin {"absent", "completed"} \/ Good(c)',
           \A v \in Workers : wpc'[v] = "report" =>
               wpc[v] = "report" /\ job'[v] = job[v] /\ outcome'[v] = outcome[v],
           \A o \in Operators : opc'[o] = "record" =>
               opc[o] = "record" /\ och'[o] = och[o] /\ decision'[o] = decision[o]
    PROVE  GateSound'
<1>1. \A c \in Chains : Open(c)' => Good(c)'
  BY StatusGate
<1>2. ASSUME NEW v \in Workers, wpc'[v] = "report", outcome'[v] \in {"migrated", "not_needed"}
      PROVE  Good(job[v])'
  BY <1>2, RunsGate
<1>3. ASSUME NEW o \in Operators, opc'[o] = "record", decision'[o] = "current"
      PROVE  Good(och[o])'
  BY <1>3, CommandsGate
<1>4. QED
  BY <1>1, <1>2, <1>3 DEF GateSound

\* The steps that report, record or decide.
LEMMA EndRunGate ==
    ASSUME ManagerTyped, GateSound, NEW w \in Workers, EndRun(w)
    PROVE  GateSound'
<1>1. /\ \A c \in Chains : Good(c) => Good(c)'
      /\ outcome'[w] \in {"migrated", "not_needed"} => Good(job[w])'
      /\ \A v \in Workers \ {w} : outcome'[v] = outcome[v]
  BY EndRunShape
<1>2. UNCHANGED <<status, job, opc, och, decision>>
  BY DEF EndRun, command
<1>3. wpc'[w] = "report" /\ \A v \in Workers \ {w} : wpc'[v] = wpc[v]
  BY GotoShape DEF EndRun
<1>4. \A c \in Chains : Open(c)' => Good(c)'
  BY <1>1, <1>2, StatusGate
<1>5. ASSUME NEW v \in Workers, wpc'[v] = "report", outcome'[v] \in {"migrated", "not_needed"}
      PROVE  Good(job[v])'
  <2>1. CASE v = w
    BY <1>1, <1>5, <2>1
  <2>2. CASE v # w
    <3>1. wpc[v] = "report" /\ job'[v] = job[v] /\ outcome'[v] = outcome[v]
      BY <1>1, <1>2, <1>3, <1>5, <2>2
    <3>2. QED
      BY <1>1, <1>5, <3>1, RunsGate
  <2>3. QED
    BY <2>1, <2>2
<1>6. ASSUME NEW o \in Operators, opc'[o] = "record", decision'[o] = "current"
      PROVE  Good(och[o])'
  BY <1>1, <1>2, <1>6, CommandsGate
<1>7. QED
  BY <1>4, <1>5, <1>6 DEF GateSound

LEMMA ReportGate ==
    ASSUME ManagerTyped, GateSound, \A c \in Chains : Good(c) => Good(c)', NEW w \in Workers, Report(w)
    PROVE  GateSound'
<1>1. PICK c \in Chains : c = job[w]
  BY JobThere DEF Report, Engaged
<1>2. /\ wpc[w] = "report" /\ outcome[w] \in Outcomes
      /\ status' = [status EXCEPT ![c] = PhaseOf(outcome[w])]
      /\ UNCHANGED <<job, opc, och, decision>>
  BY <1>1 DEF Report, command, ManagerTyped
<1>3. /\ wpc'[w] = "release" /\ \A v \in Workers \ {w} : wpc'[v] = wpc[v] /\ outcome'[v] = outcome[v]
  <2>1. Goto(w, "release") /\ outcome' = [outcome EXCEPT ![w] = "none"]
    BY DEF Report
  <2>2. QED
    BY <2>1, GotoShape DEF ManagerTyped
<1>4. status'[c] = PhaseOf(outcome[w]) /\ \A d \in Chains \ {c} : status'[d] = status[d]
  BY <1>2 DEF ManagerTyped
<1>5. status'[c] \in {"absent", "completed"} => Good(c)
  BY <1>1, <1>2, <1>4, PhaseShape DEF GateSound
<1>6. QED
  BY <1>2, <1>3, <1>4, <1>5, GateFrame

LEMMA AssessGate ==
    ASSUME ManagerTyped, GateSound, \A c \in Chains : Good(c) => Good(c)', NEW o \in Operators, Assess(o)
    PROVE  GateSound'
<1>1. PICK c \in Chains : c = och[o]
  BY DEF Assess, ManagerTyped, Asked
<1>2. /\ decision' = [decision EXCEPT ![o] = Assessment(c)] /\ UNCHANGED <<status, wpc, job, outcome, och>>
      /\ Continue(o, "record")
  BY <1>1 DEF Assess, work
<1>3. opc'[o] = "record" /\ \A p \in Operators \ {o} : opc'[p] = opc[p]
  BY <1>2, ContinueShape
<1>4. decision'[o] = Assessment(c) /\ \A p \in Operators \ {o} : decision'[p] = decision[p]
  BY <1>2 DEF ManagerTyped
<1>5. \A d \in Chains : Open(d)' => Good(d)'
  BY <1>2, StatusGate
<1>6. ASSUME NEW v \in Workers, wpc'[v] = "report", outcome'[v] \in {"migrated", "not_needed"}
      PROVE  Good(job[v])'
  BY <1>2, <1>6, RunsGate
<1>7. ASSUME NEW p \in Operators, opc'[p] = "record", decision'[p] = "current"
      PROVE  Good(och[p])'
  <2>1. CASE p = o
    <3>1. Good(c)'
      BY <1>4, <1>7, <2>1, AssessmentShape
    <3>2. QED
      BY <1>1, <1>2, <2>1, <3>1 DEF Good
  <2>2. CASE p # o
    BY <1>2, <1>3, <1>4, <1>7, <2>2, CommandsGate
  <2>3. QED
    BY <2>1, <2>2
<1>8. QED
  BY <1>5, <1>6, <1>7 DEF GateSound

LEMMA RecordGate ==
    ASSUME ManagerTyped, GateSound, \A c \in Chains : Good(c) => Good(c)', NEW o \in Operators, Record(o)
    PROVE  GateSound'
<1>1. PICK c \in Chains : c = och[o]
  BY DEF Record, ManagerTyped, Asked
<1>2. /\ opc[o] = "record" /\ decision[o] \in {"current", "queue"} \cup Quarantined
      /\ status' = [status EXCEPT ![c] = Recorded(decision[o])]
      /\ UNCHANGED <<wpc, job, outcome, och>>
  BY <1>1 DEF Record, work, ManagerTyped
<1>3. /\ opc'[o] # "record" /\ \A p \in Operators \ {o} : opc'[p] = opc[p] /\ decision'[p] = decision[p]
  <2>1. /\ Continue(o, IF decision[o] = "queue" THEN "count" ELSE "idle")
        /\ decision' = [decision EXCEPT ![o] = "none"]
    BY DEF Record
  <2>2. QED
    BY <2>1, ContinueShape DEF ManagerTyped
<1>4. status'[c] = Recorded(decision[o]) /\ \A d \in Chains \ {c} : status'[d] = status[d]
  BY <1>2 DEF ManagerTyped
<1>5. status'[c] \in {"absent", "completed"} => Good(c)
  BY <1>1, <1>2, <1>4, RecordedShape DEF GateSound
<1>6. QED
  BY <1>2, <1>3, <1>4, <1>5, GateFrame

LEMMA GateInductive ==
    ASSUME ManagerTyped, GateSound, [ManagerNext]_managerVars
    PROVE  GateSound'
<1>1. \A c \in Chains : Good(c) => Good(c)'
  BY GoodStays
<1>2. ASSUME NEW w \in Workers,
             Lock(w) \/ Check(w) \/ Park(w) \/ StartRun(w) \/ Requeue(w) \/ Recount(w) \/ Release(w)
      PROVE  GateSound'
  <2>1. UNCHANGED <<status, outcome, opc, och, decision>> /\ \A v \in Workers \ {w} : job'[v] = job[v]
    BY <1>2 DEF Lock, Check, Park, StartRun, Requeue, Recount, Release, command, ManagerTyped
  <2>2. PICK step \in {"check", "exited", "mark", "park", "parked", "requeue", "engine", "renotify", "release", "lock"} :
          Goto(w, step)
    BY <1>2 DEF Lock, Check, Park, StartRun, Requeue, Recount, Release
  <2>3. wpc'[w] # "report" /\ \A v \in Workers \ {w} : wpc'[v] = wpc[v]
    BY <2>2, GotoShape
  <2>4. QED
    BY <1>1, <2>1, <2>3, GateFrame
<1>3. ASSUME NEW w \in Workers, Mark(w) PROVE GateSound'
  <2>1. PICK c \in Chains : c = job[w]
    BY <1>3, JobThere DEF Mark, Engaged
  <2>2. /\ status' = [status EXCEPT ![c] = "running"] /\ UNCHANGED <<job, outcome, opc, och, decision>>
        /\ Goto(w, "start")
    BY <1>3, <2>1 DEF Mark, command
  <2>3. \A d \in Chains : status'[d] = status[d] \/ status'[d] = "running"
    BY <2>2 DEF ManagerTyped
  <2>4. wpc'[w] # "report" /\ \A v \in Workers \ {w} : wpc'[v] = wpc[v]
    BY <2>2, GotoShape
  <2>5. QED
    BY <1>1, <2>2, <2>3, <2>4, GateFrame
<1>4. ASSUME NEW w \in Workers, Plan(w) PROVE GateSound'
  BY <1>1, <1>4, GateFrame DEF Plan, work, command
<1>5. ASSUME NEW w \in Workers, Renotify(w) PROVE GateSound'
  <2>1. UNCHANGED <<status, job, outcome, opc, och, decision>> /\ WakeOne([wpc EXCEPT ![w] = "recount"])
    BY <1>5 DEF Renotify, command
  <2>2. /\ DOMAIN [wpc EXCEPT ![w] = "recount"] = Workers /\ [wpc EXCEPT ![w] = "recount"][w] = "recount"
        /\ \A v \in Workers \ {w} : [wpc EXCEPT ![w] = "recount"][v] = wpc[v]
    BY DEF ManagerTyped
  <2>3. \A v \in Workers : wpc'[v] = "report" => wpc[v] = "report"
    BY <2>1, <2>2, WakeShape
  <2>4. QED
    BY <1>1, <2>1, <2>3, GateFrame
<1>6. ASSUME NEW o \in Operators, NEW c \in Chains, NEW step \in {"assess", "hide"}, NEW state,
             Begin(o, c, step, state), status' = status
      PROVE  GateSound'
  <2>1. UNCHANGED <<wpc, job, outcome, decision>> /\ Continue(o, step) /\ och' = [och EXCEPT ![o] = c]
    BY <1>6 DEF Begin, work
  <2>2. opc'[o] # "record" /\ \A p \in Operators \ {o} : opc'[p] = opc[p] /\ och'[p] = och[p]
    BY <2>1, ContinueShape DEF ManagerTyped
  <2>3. QED
    BY <1>1, <1>6, <2>1, <2>2, GateFrame
<1>7. ASSUME NEW o \in Operators, Retry(o) \/ Skip(o) PROVE GateSound'
  BY <1>6, <1>7 DEF Retry, Skip
<1>8. ASSUME NEW o \in Operators, Count(o) \/ PushJob(o) PROVE GateSound'
  <2>1. UNCHANGED <<status, wpc, job, outcome, och, decision>> /\ (Continue(o, "push") \/ Continue(o, "notify"))
    BY <1>8 DEF Count, PushJob, work
  <2>2. opc'[o] # "record" /\ \A p \in Operators \ {o} : opc'[p] = opc[p]
    BY <2>1, ContinueShape
  <2>3. QED
    BY <1>1, <2>1, <2>2, GateFrame
<1>9. ASSUME NEW o \in Operators, Notify(o) PROVE GateSound'
  <2>1. UNCHANGED <<status, job, outcome, och, decision>> /\ Continue(o, "idle") /\ WakeOne(wpc)
    BY <1>9 DEF Notify
  <2>2. opc'[o] # "record" /\ \A p \in Operators \ {o} : opc'[p] = opc[p]
    BY <2>1, ContinueShape
  <2>3. \A v \in Workers : wpc'[v] = "report" => wpc[v] = "report"
    BY <2>1, WakeShape DEF ManagerTyped
  <2>4. QED
    BY <1>1, <2>1, <2>2, <2>3, GateFrame
<1>10. ASSUME NEW o \in Operators, Hide(o) PROVE GateSound'
  <2>1. PICK c \in Chains : c = och[o]
    BY <1>10 DEF Hide, ManagerTyped, Asked
  <2>2. /\ UNCHANGED <<wpc, job, outcome, och, decision>> /\ Continue(o, "idle")
        /\ status' = [status EXCEPT ![c] = "skipped"]
    BY <1>10, <2>1 DEF Hide, work
  <2>3. opc'[o] # "record" /\ \A p \in Operators \ {o} : opc'[p] = opc[p]
    BY <2>2, ContinueShape
  <2>4. \A d \in Chains : status'[d] = status[d] \/ status'[d] = "skipped"
    BY <2>2 DEF ManagerTyped
  <2>5. QED
    BY <1>1, <2>2, <2>3, <2>4, GateFrame
<1>11. CASE SetFlag \/ WakeAll \/ UNCHANGED managerVars
  <2>1. /\ UNCHANGED <<status, job, outcome, opc, och, decision>>
        /\ \A v \in Workers : wpc'[v] = "report" => wpc[v] = "report"
    BY <1>11 DEF SetFlag, WakeAll, managerVars, work, command
  <2>2. QED
    BY <1>1, <2>1, GateFrame
<1>12. QED
  BY <1>1, <1>2, <1>3, <1>4, <1>5, <1>7, <1>8, <1>9, <1>10, <1>11, EndRunGate, ReportGate, AssessGate, RecordGate
     DEF ManagerNext, WorkerStep, OperatorStep

-----------------------------------------------------------------------------
(* The types. *)

WorkersTyped ==
    /\ DOMAIN wpc = Workers /\ DOMAIN job = Workers /\ DOMAIN outcome = Workers
    /\ \A w \in Workers : wpc[w] \in Engaged => job[w] \in Chains
    /\ \A w \in Workers : wpc[w] = "report" => outcome[w] \in Outcomes
CommandsTyped ==
    /\ DOMAIN opc = Operators /\ DOMAIN och = Operators /\ DOMAIN decision = Operators
    /\ \A o \in Operators : opc[o] \in Asked => och[o] \in Chains
    /\ \A o \in Operators : opc[o] = "record" => decision[o] \in {"current", "queue"} \cup Quarantined
ChainsTyped == status \in [Chains -> Phases] /\ queue \in Seq(Chains)

LEMMA TypedParts ==
    ManagerTyped <=> /\ file \in [Chains -> Formats] /\ journal \in [Chains -> Journals]
                     /\ ChainsTyped /\ WorkersTyped /\ CommandsTyped
BY DEF ManagerTyped, ChainsTyped, WorkersTyped, CommandsTyped

LEMMA WorkerTyped ==
    ASSUME ManagerTyped, NEW w \in Workers, WorkerStep(w)
    PROVE  WorkersTyped' /\ ChainsTyped' /\ CommandsTyped'
<1>1. CommandsTyped'
  <2>1. UNCHANGED <<opc, och, decision>>
    BY DEF WorkerStep, Lock, Check, Park, Mark, StartRun, Plan, EndRun, Report, Requeue, Renotify, Recount,
           Release, command
  <2>2. QED
    BY <2>1 DEF ManagerTyped, CommandsTyped
<1>2. ASSUME NEW step \in {"check", "exited", "park", "parked", "requeue", "engine", "renotify", "release", "lock",
                           "start"},
             Goto(w, step), UNCHANGED <<job, outcome>>, step \in Engaged => wpc[w] \in Engaged
      PROVE  WorkersTyped'
  BY <1>2, GotoShape DEF ManagerTyped, WorkersTyped
<1>3. ASSUME UNCHANGED <<status, queue>> PROVE ChainsTyped'
  BY <1>3 DEF ManagerTyped, ChainsTyped
<1>4. CASE Lock(w) \/ Park(w) \/ StartRun(w) \/ Recount(w) \/ Release(w)
  <2>1. UNCHANGED <<status, queue, job, outcome>>
    BY <1>4 DEF Lock, Park, StartRun, Recount, Release
  <2>2. PICK step \in {"check", "parked", "requeue", "engine", "release", "lock"} :
          Goto(w, step) /\ (step \in Engaged => wpc[w] \in Engaged)
    BY <1>4 DEF Lock, Park, StartRun, Recount, Release, Engaged
  <2>3. QED
    BY <1>1, <1>2, <1>3, <2>1, <2>2
<1>5. CASE Check(w)
  <2>1. CASE queue # <<>> /\ job' = [job EXCEPT ![w] = Head(queue)] /\ queue' = Tail(queue) /\ Goto(w, "mark")
    <3>1. queue \in Seq(Chains)
      BY DEF ManagerTyped
    <3>2. Head(queue) \in Chains /\ queue' \in Seq(Chains)
      BY <2>1, <3>1
    <3>3. /\ DOMAIN job' = Workers /\ job'[w] \in Chains /\ \A v \in Workers \ {w} : job'[v] = job[v]
          /\ UNCHANGED <<status, outcome>>
      BY <1>5, <2>1, <3>2 DEF ManagerTyped, Check
    <3>4. DOMAIN wpc' = Workers /\ wpc'[w] = "mark" /\ \A v \in Workers \ {w} : wpc'[v] = wpc[v]
      BY <2>1, GotoShape
    <3>5. WorkersTyped' /\ ChainsTyped'
      BY <3>2, <3>3, <3>4 DEF ManagerTyped, WorkersTyped, ChainsTyped
    <3>6. QED
      BY <1>1, <3>5
  <2>2. CASE (Goto(w, "exited") \/ Goto(w, "park")) /\ UNCHANGED <<queue, job>>
    <3>1. UNCHANGED <<status, outcome>>
      BY <1>5 DEF Check
    <3>2. PICK step \in {"exited", "park"} : Goto(w, step)
      BY <2>2
    <3>3. step \notin Engaged
      BY DEF Engaged
    <3>4. QED
      BY <1>1, <1>2, <1>3, <2>2, <3>1, <3>2, <3>3
  <2>3. QED
    BY <1>5, <2>1, <2>2 DEF Check
<1>6. CASE Mark(w) \/ Report(w)
  <2>1. PICK c \in Chains : c = job[w]
    BY <1>6, JobThere DEF Mark, Report, Engaged
  <2>2. PICK phase \in Phases : status' = [status EXCEPT ![c] = phase]
    BY <1>6, <2>1, PhaseShape DEF Mark, Report, Phases, ManagerTyped
  <2>3. queue' = queue /\ job' = job /\ DOMAIN outcome' = Workers /\ \A v \in Workers \ {w} : outcome'[v] = outcome[v]
    BY <1>6 DEF Mark, Report, ManagerTyped
  <2>4. ChainsTyped'
    BY <2>2, <2>3 DEF ManagerTyped, ChainsTyped
  <2>5. Goto(w, "start") \/ Goto(w, "release")
    BY <1>6 DEF Mark, Report
  <2>6. DOMAIN wpc' = Workers /\ wpc'[w] \in {"start", "release"} /\ \A v \in Workers \ {w} : wpc'[v] = wpc[v]
    BY <2>5, GotoShape
  <2>7. WorkersTyped'
    BY <2>1, <2>3, <2>6 DEF ManagerTyped, WorkersTyped
  <2>8. QED
    BY <1>1, <2>4, <2>7
<1>7. CASE Plan(w)
  <2>1. UNCHANGED <<status, queue, wpc, job, outcome>>
    BY <1>7 DEF Plan, work
  <2>2. QED
    BY <1>1, <1>3, <2>1 DEF ManagerTyped, WorkersTyped
<1>8. CASE EndRun(w)
  <2>1. UNCHANGED <<status, queue, job>> /\ Goto(w, "report") /\ wpc[w] \in Engaged
    BY <1>8 DEF EndRun, Engaged
  <2>2. WorkersTyped'
    BY <1>8, <2>1, GotoShape, EndRunShape DEF ManagerTyped, WorkersTyped
  <2>3. QED
    BY <1>1, <1>3, <2>1, <2>2
<1>9. CASE Requeue(w)
  <2>1. /\ wpc[w] \in Engaged /\ queue' = Append(queue, job[w]) /\ UNCHANGED <<status, job, outcome>>
        /\ Goto(w, "renotify")
    BY <1>9 DEF Requeue, Push, Engaged
  <2>2. job[w] \in Chains /\ queue \in Seq(Chains)
    BY <2>1, JobThere DEF ManagerTyped
  <2>3. ChainsTyped'
    BY <2>1, <2>2 DEF ManagerTyped, ChainsTyped
  <2>4. QED
    BY <1>1, <1>2, <2>1, <2>3
<1>10. CASE Renotify(w)
  <2>1. /\ wpc[w] \in Engaged /\ UNCHANGED <<status, queue, job, outcome>>
        /\ WakeOne([wpc EXCEPT ![w] = "recount"])
    BY <1>10 DEF Renotify, Engaged
  <2> DEFINE pcs == [wpc EXCEPT ![w] = "recount"]
  <2>2. DOMAIN pcs = Workers /\ pcs[w] = "recount" /\ \A v \in Workers \ {w} : pcs[v] = wpc[v]
    BY DEF ManagerTyped
  <2>6. WakeOne(pcs)
    BY <2>1
  <2> HIDE DEF pcs
  <2>3. /\ DOMAIN wpc' = Workers
        /\ \A v \in Workers : wpc'[v] = wpc[v] \/ wpc'[v] = "lock" \/ (v = w /\ wpc'[v] = "recount")
    BY <2>2, <2>6, WakeShape
  <2>4. WorkersTyped'
    BY <2>1, <2>3 DEF ManagerTyped, WorkersTyped, Engaged
  <2>5. QED
    BY <1>1, <1>3, <2>1, <2>4
<1>11. QED
  BY <1>4, <1>5, <1>6, <1>7, <1>8, <1>9, <1>10 DEF WorkerStep

LEMMA CommandTyped ==
    ASSUME ManagerTyped, NEW o \in Operators, Retry(o) \/ Skip(o) \/ OperatorStep(o)
    PROVE  WorkersTyped' /\ ChainsTyped' /\ CommandsTyped'
<1>1. WorkersTyped'
  <2>1. CASE Notify(o)
    <3>1. UNCHANGED <<job, outcome>> /\ WakeOne(wpc)
      BY <2>1 DEF Notify
    <3>2. DOMAIN wpc' = Workers /\ \A v \in Workers : wpc'[v] = wpc[v] \/ wpc'[v] = "lock"
      BY <3>1, WakeShape DEF ManagerTyped
    <3>3. QED
      BY <3>1, <3>2 DEF ManagerTyped, WorkersTyped, Engaged
  <2>2. CASE ~Notify(o)
    <3>1. UNCHANGED <<wpc, job, outcome>>
      BY <2>2 DEF Retry, Skip, Begin, OperatorStep, Assess, Record, Count, PushJob, Hide, work
    <3>2. QED
      BY <3>1 DEF ManagerTyped, WorkersTyped
  <2>3. QED
    BY <2>1, <2>2
<1>2. CASE Retry(o) \/ Skip(o)
  <2>1. PICK c \in Chains, step \in {"assess", "hide"} :
          Continue(o, step) /\ och' = [och EXCEPT ![o] = c] /\ UNCHANGED <<status, queue, decision>>
    BY <1>2 DEF Retry, Skip, Begin
  <2>2. CommandsTyped'
    BY <2>1, ContinueShape DEF ManagerTyped, CommandsTyped
  <2>3. QED
    BY <1>1, <2>1, <2>2 DEF ManagerTyped, ChainsTyped
<1>3. CASE OperatorStep(o)
  <2>1. PICK c \in Chains : c = och[o]
    BY <1>3 DEF OperatorStep, Assess, Record, Count, PushJob, Notify, Hide, ManagerTyped, Asked
  <2>2. och' = och /\ opc[o] \in Asked
    BY <1>3 DEF OperatorStep, Assess, Record, Count, PushJob, Notify, Hide, Asked
  <2>3. ChainsTyped'
    <3>1. CASE PushJob(o)
      <4>1. queue' = Append(queue, c) /\ status' = status
        BY <2>1, <3>1 DEF PushJob, Push
      <4>2. QED
        BY <4>1 DEF ManagerTyped, ChainsTyped
    <3>2. CASE Record(o)
      <4>1. /\ queue' = queue /\ status' = [status EXCEPT ![c] = Recorded(decision[o])]
            /\ decision[o] \in {"current", "queue"} \cup Quarantined
        BY <2>1, <3>2 DEF Record, ManagerTyped
      <4>2. Recorded(decision[o]) \in Phases
        BY <4>1, RecordedShape
      <4>3. QED
        BY <4>1, <4>2 DEF ManagerTyped, ChainsTyped
    <3>3. CASE Hide(o)
      <4>1. queue' = queue /\ status' = [status EXCEPT ![c] = "skipped"] /\ "skipped" \in Phases
        BY <2>1, <3>3 DEF Hide, Phases
      <4>2. QED
        BY <4>1 DEF ManagerTyped, ChainsTyped
    <3>4. CASE Assess(o) \/ Count(o) \/ Notify(o)
      BY <3>4 DEF Assess, Count, Notify, ManagerTyped, ChainsTyped
    <3>5. QED
      BY <1>3, <3>1, <3>2, <3>3, <3>4 DEF OperatorStep
  <2>4. CommandsTyped'
    <3>1. CASE Assess(o)
      <4>1. decision' = [decision EXCEPT ![o] = Assessment(c)] /\ Continue(o, "record")
        BY <2>1, <3>1 DEF Assess
      <4>2. Assessment(c) \in {"current", "queue"} \cup Quarantined
        BY AssessmentShape
      <4>3. DOMAIN opc' = Operators /\ opc'[o] = "record" /\ \A p \in Operators \ {o} : opc'[p] = opc[p]
        BY <4>1, ContinueShape
      <4>4. DOMAIN decision' = Operators /\ decision'[o] = Assessment(c)
            /\ \A p \in Operators \ {o} : decision'[p] = decision[p]
        BY <4>1 DEF ManagerTyped
      <4>5. QED
        BY <2>1, <2>2, <4>2, <4>3, <4>4 DEF ManagerTyped, CommandsTyped
    <3>2. CASE ~Assess(o)
      <4>1. PICK step \in {"idle", "count", "push", "notify"} : Continue(o, step)
        BY <1>3, <3>2 DEF OperatorStep, Record, Count, PushJob, Notify, Hide
      <4>2. DOMAIN decision' = Operators /\ \A p \in Operators \ {o} : decision'[p] = decision[p]
        BY <1>3, <3>2 DEF OperatorStep, Record, Count, PushJob, Notify, Hide, ManagerTyped
      <4>3. DOMAIN opc' = Operators /\ opc'[o] = step /\ \A p \in Operators \ {o} : opc'[p] = opc[p]
        BY <4>1, ContinueShape
      <4>4. QED
        BY <2>1, <2>2, <4>2, <4>3 DEF ManagerTyped, CommandsTyped
    <3>3. QED
      BY <3>1, <3>2
  <2>5. QED
    BY <1>1, <2>3, <2>4
<1>4. QED
  BY <1>2, <1>3

LEMMA TypedInductive ==
    ASSUME ManagerTyped, [ManagerNext]_managerVars
    PROVE  ManagerTyped'
<1>1. file' \in [Chains -> Formats] /\ journal' \in [Chains -> Journals]
  BY GoodStays
<1>2. CASE SetFlag \/ WakeAll \/ UNCHANGED managerVars
  <2>1. UNCHANGED <<status, queue, job, outcome, opc, och, decision>>
    BY <1>2 DEF SetFlag, WakeAll, managerVars, work, command
  <2>2. DOMAIN wpc' = Workers /\ \A v \in Workers : wpc'[v] = wpc[v] \/ wpc'[v] = "lock"
    BY <1>2 DEF SetFlag, WakeAll, managerVars, work, ManagerTyped
  <2>3. QED
    BY <1>1, <2>1, <2>2 DEF ManagerTyped, Engaged
<1>3. ManagerTyped' <=> /\ file' \in [Chains -> Formats] /\ journal' \in [Chains -> Journals]
                        /\ ChainsTyped' /\ WorkersTyped' /\ CommandsTyped'
  BY DEF ManagerTyped, ChainsTyped, WorkersTyped, CommandsTyped
<1>4. QED
  BY <1>1, <1>2, <1>3, WorkerTyped, CommandTyped DEF ManagerNext

-----------------------------------------------------------------------------
(* The count. *)

SlotSteps == {"mark", "start", "engine", "report", "requeue", "release"}

LEMMA CountTyped ==
    /\ IsFiniteSet(Slots) /\ IsFiniteSet(Owed)
    /\ Cardinality(Slots) \in Nat /\ Cardinality(Owed) \in Nat
    /\ \A w \in Workers : w \in Slots <=> wpc[w] \in SlotSteps
    /\ \A o \in Operators : o \in Owed <=> opc[o] = "push"
<1>1. Slots \in SUBSET Workers /\ Owed \in SUBSET Operators
  BY DEF Slots, Owed
<1>2. IsFiniteSet(Slots) /\ IsFiniteSet(Owed)
  BY <1>1, FiniteAssumption, FS_Subset
<1>3. QED
  BY <1>2, FS_CardinalityType DEF Slots, Owed, SlotSteps

\* One more and one less.
LEMMA OneMore ==
    ASSUME NEW S, NEW x, IsFiniteSet(S), x \notin S
    PROVE  Cardinality(S \cup {x}) = Cardinality(S) + 1
BY FS_AddElement

LEMMA OneLess ==
    ASSUME NEW S, NEW x, IsFiniteSet(S), x \in S
    PROVE  Cardinality(S \ {x}) = Cardinality(S) - 1
BY FS_RemoveElement

\* A worker that neither gets a slot nor gives one up.
LEMMA SlotsKept ==
    ASSUME \A v \in Workers : wpc'[v] \in SlotSteps <=> wpc[v] \in SlotSteps
    PROVE  Slots' = Slots
BY DEF Slots, SlotSteps

LEMMA OwedKept ==
    ASSUME \A o \in Operators : opc'[o] = "push" <=> opc[o] = "push"
    PROVE  Owed' = Owed
BY DEF Owed

LEMMA SlotMoves ==
    ASSUME ManagerTyped, NEW w \in Workers, NEW step, Goto(w, step)
    PROVE  /\ (step \in SlotSteps <=> wpc[w] \in SlotSteps) => Slots' = Slots
           /\ step \in SlotSteps /\ wpc[w] \notin SlotSteps => Cardinality(Slots') = Cardinality(Slots) + 1
           /\ step \notin SlotSteps /\ wpc[w] \in SlotSteps => Cardinality(Slots') = Cardinality(Slots) - 1
<1>1. wpc'[w] = step /\ \A v \in Workers \ {w} : wpc'[v] = wpc[v]
  BY GotoShape
<1>2. (step \in SlotSteps <=> wpc[w] \in SlotSteps) => Slots' = Slots
  BY <1>1, SlotsKept
<1>3. ASSUME step \in SlotSteps, wpc[w] \notin SlotSteps
      PROVE  Cardinality(Slots') = Cardinality(Slots) + 1
  <2>1. Slots' = Slots \cup {w} /\ w \notin Slots
    BY <1>1, <1>3 DEF Slots, SlotSteps
  <2>2. QED
    BY <2>1, CountTyped, OneMore
<1>4. ASSUME step \notin SlotSteps, wpc[w] \in SlotSteps
      PROVE  Cardinality(Slots') = Cardinality(Slots) - 1
  <2>1. Slots' = Slots \ {w} /\ w \in Slots
    BY <1>1, <1>4 DEF Slots, SlotSteps
  <2>2. QED
    BY <2>1, CountTyped, OneLess
<1>5. QED
  BY <1>2, <1>3, <1>4

LEMMA OwedMoves ==
    ASSUME ManagerTyped, NEW o \in Operators, NEW step, Continue(o, step)
    PROVE  /\ step # "push" /\ opc[o] # "push" => Owed' = Owed
           /\ step = "push" /\ opc[o] # "push" => Cardinality(Owed') = Cardinality(Owed) + 1
           /\ step # "push" /\ opc[o] = "push" => Cardinality(Owed') = Cardinality(Owed) - 1
<1>1. opc'[o] = step /\ \A p \in Operators \ {o} : opc'[p] = opc[p]
  BY ContinueShape
<1>2. step # "push" /\ opc[o] # "push" => Owed' = Owed
  BY <1>1, OwedKept
<1>3. ASSUME step = "push", opc[o] # "push"
      PROVE  Cardinality(Owed') = Cardinality(Owed) + 1
  <2>1. Owed' = Owed \cup {o} /\ o \notin Owed
    BY <1>1, <1>3 DEF Owed
  <2>2. QED
    BY <2>1, CountTyped, OneMore
<1>4. ASSUME step # "push", opc[o] = "push"
      PROVE  Cardinality(Owed') = Cardinality(Owed) - 1
  <2>1. Owed' = Owed \ {o} /\ o \in Owed
    BY <1>1, <1>4 DEF Owed
  <2>2. QED
    BY <2>1, CountTyped, OneLess
<1>5. QED
  BY <1>2, <1>3, <1>4

LEMMA WorkerCounted ==
    ASSUME ManagerTyped, Counted, NEW w \in Workers, WorkerStep(w)
    PROVE  Counted'
<1>1. Owed' = Owed
  <2>1. opc' = opc
    BY DEF WorkerStep, Lock, Check, Park, Mark, StartRun, Plan, EndRun, Report, Requeue, Renotify, Recount,
           Release, command
  <2>2. QED
    BY <2>1, OwedKept
<1>2. /\ queue \in Seq(Chains) /\ Len(queue) \in Nat
      /\ Cardinality(Slots) \in Nat /\ Cardinality(Owed) \in Nat
  BY CountTyped DEF ManagerTyped
<1>3. CASE Lock(w) \/ Park(w) \/ StartRun(w) \/ Mark(w) \/ EndRun(w) \/ Report(w)
  <2>1. UNCHANGED <<queue, outstanding>>
    BY <1>3 DEF Lock, Park, StartRun, Mark, EndRun, Report
  <2>2. PICK step : Goto(w, step) /\ (step \in SlotSteps <=> wpc[w] \in SlotSteps)
    BY <1>3 DEF Lock, Park, StartRun, Mark, EndRun, Report, SlotSteps
  <2>3. Slots' = Slots
    BY <2>2, SlotMoves
  <2>4. QED
    BY <1>1, <2>1, <2>3 DEF Counted
<1>4. CASE Plan(w)
  <2>1. UNCHANGED <<queue, outstanding, wpc>>
    BY <1>4 DEF Plan, work
  <2>2. Slots' = Slots
    BY <2>1, SlotsKept
  <2>3. QED
    BY <1>1, <2>1, <2>2 DEF Counted
<1>5. CASE Check(w)
  <2>1. outstanding' = outstanding /\ wpc[w] \notin SlotSteps
    BY <1>5 DEF Check, SlotSteps
  <2>2. CASE queue # <<>> /\ queue' = Tail(queue) /\ Goto(w, "mark")
    <3>1. Len(queue') = Len(queue) - 1
      BY <1>2, <2>2
    <3>2. "mark" \in SlotSteps
      BY DEF SlotSteps
    <3>3. Cardinality(Slots') = Cardinality(Slots) + 1
      BY <2>1, <2>2, <3>2, SlotMoves
    <3>4. QED
      BY <1>1, <1>2, <2>1, <3>1, <3>3 DEF Counted
  <2>3. CASE (Goto(w, "exited") \/ Goto(w, "park")) /\ queue' = queue
    <3>1. "exited" \notin SlotSteps /\ "park" \notin SlotSteps
      BY DEF SlotSteps
    <3>2. Slots' = Slots
      BY <2>1, <2>3, <3>1, SlotMoves
    <3>3. QED
      BY <1>1, <2>1, <2>3, <3>2 DEF Counted
  <2>4. QED
    BY <1>5, <2>2, <2>3 DEF Check
<1>6. CASE Requeue(w)
  <2>1. /\ outstanding' = outstanding /\ Goto(w, "renotify") /\ wpc[w] \in SlotSteps
        /\ "renotify" \notin SlotSteps /\ queue' = Append(queue, job[w]) /\ wpc[w] \in Engaged
    BY <1>6 DEF Requeue, Push, SlotSteps, Engaged
  <2>2. Len(queue') = Len(queue) + 1
    BY <1>2, <2>1, JobThere
  <2>3. Cardinality(Slots') = Cardinality(Slots) - 1
    BY <2>1, SlotMoves
  <2>4. QED
    BY <1>1, <1>2, <2>1, <2>2, <2>3 DEF Counted
<1>7. CASE Renotify(w)
  <2>1. UNCHANGED <<queue, outstanding>> /\ WakeOne([wpc EXCEPT ![w] = "recount"]) /\ wpc[w] = "renotify"
    BY <1>7 DEF Renotify
  <2> DEFINE pcs == [wpc EXCEPT ![w] = "recount"]
  <2>2. DOMAIN pcs = Workers /\ pcs[w] = "recount" /\ \A v \in Workers \ {w} : pcs[v] = wpc[v]
    BY DEF ManagerTyped
  <2>3. WakeOne(pcs)
    BY <2>1
  <2> HIDE DEF pcs
  <2>4. \A v \in Workers : wpc'[v] = pcs[v] \/ (pcs[v] = "parked" /\ wpc'[v] = "lock")
    BY <2>2, <2>3, WakeShape
  <2>5. \A v \in Workers : wpc'[v] \in SlotSteps <=> wpc[v] \in SlotSteps
    BY <2>1, <2>2, <2>4 DEF SlotSteps
  <2>6. Slots' = Slots
    BY <2>5, SlotsKept
  <2>7. QED
    BY <1>1, <2>1, <2>6 DEF Counted
<1>8. CASE Recount(w)
  <2>1. /\ outstanding' = outstanding + 1 /\ queue' = queue /\ Goto(w, "release")
        /\ wpc[w] \notin SlotSteps /\ "release" \in SlotSteps
    BY <1>8 DEF Recount, SlotSteps
  <2>2. Cardinality(Slots') = Cardinality(Slots) + 1
    BY <2>1, SlotMoves
  <2>3. QED
    BY <1>1, <1>2, <2>1, <2>2 DEF Counted
<1>9. CASE Release(w)
  <2>1. /\ outstanding' = IF outstanding = 0 THEN 0 ELSE outstanding - 1
        /\ queue' = queue /\ Goto(w, "lock") /\ wpc[w] \in SlotSteps /\ "lock" \notin SlotSteps
    BY <1>9 DEF Release, SlotSteps
  <2>2. Cardinality(Slots) # 0
    BY <2>1, CountTyped, FS_EmptySet
  <2>3. outstanding # 0
    BY <1>2, <2>2 DEF Counted
  <2>4. Cardinality(Slots') = Cardinality(Slots) - 1
    BY <2>1, SlotMoves
  <2>5. QED
    BY <1>1, <1>2, <2>1, <2>3, <2>4 DEF Counted
<1>10. QED
  BY <1>3, <1>4, <1>5, <1>6, <1>7, <1>8, <1>9 DEF WorkerStep

LEMMA CommandCounted ==
    ASSUME ManagerTyped, Counted, NEW o \in Operators, Retry(o) \/ Skip(o) \/ OperatorStep(o)
    PROVE  Counted'
<1>1. Slots' = Slots
  <2>1. CASE Notify(o)
    <3>1. WakeOne(wpc)
      BY <2>1 DEF Notify
    <3>2. \A v \in Workers : wpc'[v] = wpc[v] \/ (wpc[v] = "parked" /\ wpc'[v] = "lock")
      BY <3>1, WakeShape DEF ManagerTyped
    <3>3. QED
      BY <3>2, SlotsKept DEF SlotSteps
  <2>2. CASE ~Notify(o)
    <3>1. wpc' = wpc
      BY <2>2 DEF Retry, Skip, Begin, OperatorStep, Assess, Record, Count, PushJob, Hide, work
    <3>2. QED
      BY <3>1, SlotsKept
  <2>3. QED
    BY <2>1, <2>2
<1>2. /\ queue \in Seq(Chains) /\ Len(queue) \in Nat
      /\ Cardinality(Slots) \in Nat /\ Cardinality(Owed) \in Nat
  BY CountTyped DEF ManagerTyped
<1>3. CASE Count(o)
  <2>1. outstanding' = outstanding + 1 /\ queue' = queue /\ Continue(o, "push") /\ opc[o] # "push"
    BY <1>3 DEF Count
  <2>2. Cardinality(Owed') = Cardinality(Owed) + 1
    BY <2>1, OwedMoves
  <2>3. QED
    BY <1>1, <1>2, <2>1, <2>2 DEF Counted
<1>4. CASE PushJob(o)
  <2>1. /\ outstanding' = outstanding /\ queue' = Append(queue, och[o]) /\ Continue(o, "notify")
        /\ opc[o] = "push"
    BY <1>4 DEF PushJob, Push
  <2>2. och[o] \in Chains
    BY <2>1 DEF ManagerTyped, Asked
  <2>3. Len(queue') = Len(queue) + 1
    BY <1>2, <2>1, <2>2
  <2>4. Cardinality(Owed') = Cardinality(Owed) - 1
    BY <2>1, OwedMoves
  <2>5. QED
    BY <1>1, <1>2, <2>1, <2>3, <2>4 DEF Counted
<1>5. CASE Retry(o) \/ Skip(o) \/ Assess(o) \/ Record(o) \/ Notify(o) \/ Hide(o)
  <2>1. UNCHANGED <<queue, outstanding>> /\ opc[o] # "push"
    BY <1>5 DEF Retry, Skip, Begin, Assess, Record, Notify, Hide
  <2>2. PICK step \in {"assess", "hide", "record", "count", "idle"} : Continue(o, step)
    BY <1>5 DEF Retry, Skip, Begin, Assess, Record, Notify, Hide
  <2>3. Owed' = Owed
    BY <2>1, <2>2, OwedMoves
  <2>4. QED
    BY <1>1, <2>1, <2>3 DEF Counted
<1>6. QED
  BY <1>3, <1>4, <1>5 DEF OperatorStep

LEMMA CountInductive ==
    ASSUME ManagerTyped, Counted, [ManagerNext]_managerVars
    PROVE  Counted'
<1>1. CASE SetFlag \/ WakeAll \/ UNCHANGED managerVars
  <2>1. /\ UNCHANGED <<queue, outstanding, opc>>
        /\ \A v \in Workers : wpc'[v] = wpc[v] \/ (wpc[v] = "parked" /\ wpc'[v] = "lock")
    BY <1>1 DEF SetFlag, WakeAll, managerVars, work, command
  <2>2. Slots' = Slots /\ Owed' = Owed
    BY <2>1, SlotsKept, OwedKept DEF SlotSteps
  <2>3. QED
    BY <2>1, <2>2 DEF Counted
<1>2. QED
  BY <1>1, WorkerCounted, CommandCounted DEF ManagerNext

-----------------------------------------------------------------------------

LEMMA ManagerInitial == ManagerInit => MInv
<1> SUFFICES ASSUME ManagerInit PROVE MInv
  OBVIOUS
<1> DEFINE waiting == {c \in Chains : Assessment(c) = "queue"}
<1>1. file \in [Chains -> Formats] /\ journal \in [Chains -> Journals]
  <2>1. PICK found \in [Chains -> Found] :
          /\ file = [c \in Chains |-> found[c][1]] /\ journal = [c \in Chains |-> found[c][2]]
    BY DEF ManagerInit
  <2>2. \A c \in Chains : found[c][1] \in Formats /\ found[c][2] \in Journals
    BY DEF Found, Formats, Journals
  <2>3. QED
    BY <2>1, <2>2
<1>2. ASSUME NEW c \in Chains
      PROVE  /\ Assessment(c) \in {"current", "queue"} \cup Quarantined
             /\ Assessment(c) = "current" => Good(c)
  <2>1. file[c] \in Formats /\ journal[c] \in Journals
    BY <1>1
  <2>2. CASE journal[c] \in Quarantined \/ journal[c] = "unfinished"
    BY <2>2 DEF Assessment, Quarantined
  <2>3. CASE journal[c] \in {"none", "finalized"} /\ file[c] = "current"
    BY <2>3 DEF Assessment, Quarantined, Good
  <2>4. CASE journal[c] \in {"none", "finalized"} /\ file[c] \in {"legacy", "broken"}
    BY <2>4 DEF Assessment, Quarantined
  <2>5. QED
    BY <2>1, <2>2, <2>3, <2>4 DEF Formats, Journals, Quarantined
<1>3. queue \in Seq(Chains)
  <2>1. IsFiniteSet(waiting)
    BY FiniteAssumption, FS_Subset
  <2>2. PICK n \in Nat : n = Cardinality(waiting)
    BY <2>1, FS_CardinalityType
  <2>3. queue \in [1 .. n -> waiting]
    BY <2>2 DEF ManagerInit, Scanned
  <2>4. queue \in [1 .. n -> Chains]
    BY <2>3
  <2>5. Seq(Chains) = UNION {[1 .. m -> Chains] : m \in Nat}
    BY SeqDef
  <2>6. QED
    BY <2>2, <2>4, <2>5
<1>4. status \in [Chains -> Phases] /\ \A c \in Chains : Open(c) => Good(c)
  <2>1. \A c \in Chains : status[c] = Recorded(Assessment(c))
    BY DEF ManagerInit
  <2>2. \A c \in Chains : status[c] \in Phases /\ (status[c] \in {"absent", "completed"} => Good(c))
    BY <1>2, <2>1, RecordedShape
  <2>3. DOMAIN status = Chains /\ status = [c \in Chains |-> Recorded(Assessment(c))]
    BY DEF ManagerInit
  <2>4. QED
    BY <2>2, <2>3 DEF Open
<1>5. ManagerTyped /\ GateSound
  BY <1>1, <1>3, <1>4 DEF ManagerInit, ManagerTyped, GateSound, Engaged, Asked
<1>6. Counted
  <2>1. Slots = {} /\ Owed = {}
    BY DEF ManagerInit, Slots, Owed
  <2>2. Cardinality(Slots) = 0 /\ Cardinality(Owed) = 0 /\ Len(queue) \in Nat
    BY <1>3, <2>1, FS_EmptySet
  <2>3. QED
    BY <2>2 DEF ManagerInit, Counted
<1>7. QED
  BY <1>5, <1>6 DEF MInv

LEMMA ManagerInvCorrect == ManagerSpec => []MInv
<1>1. MInv /\ [ManagerNext]_managerVars => MInv'
  BY TypedInductive, GateInductive, CountInductive DEF MInv
<1>2. QED
  BY <1>1, ManagerInitial, PTL DEF ManagerSpec

\* No request opens a chain that is still in an old format or whose migration
\* is not over, whatever runs, retries and skips overlap (GateIsSafe).
THEOREM GateStaysSafe == ManagerSpec => []GateIsSafe
<1>1. MInv => GateIsSafe
  BY DEF MInv, GateSound, Good, GateIsSafe
<1>2. QED
  BY <1>1, ManagerInvCorrect, PTL

\* wait_idle() answers only when nothing is queued and no run is under way:
\* the count never drifts, however often a chain is requeued (IdleMeansDone).
THEOREM IdleStaysDone == ManagerSpec => []IdleMeansDone
<1>1. MInv => IdleMeansDone
  <2> SUFFICES ASSUME MInv, outstanding = 0 PROVE queue = <<>> /\ \A w \in Workers : ~Running(w)
    BY DEF IdleMeansDone
  <2>1. /\ queue \in Seq(Chains) /\ Len(queue) \in Nat
        /\ Cardinality(Slots) \in Nat /\ Cardinality(Owed) \in Nat
    BY CountTyped DEF MInv, ManagerTyped
  <2>2. Len(queue) = 0 /\ Cardinality(Slots) = 0
    BY <2>1 DEF MInv, Counted
  <2>3. Slots = {}
    BY <2>2, CountTyped, FS_EmptySet
  <2>4. queue = <<>>
    BY <2>1, <2>2
  <2>5. QED
    BY <2>3, <2>4 DEF Slots, Running
<1>2. QED
  BY <1>1, ManagerInvCorrect, PTL


-----------------------------------------------------------------------------
(* Induction on natural numbers, of sets. *)

Less == {p \in Nat \X Nat : p[1] < p[2]}

LEMMA LeastNat ==
    ASSUME NEW T, T \subseteq Nat, T # {}
    PROVE  \E x \in T : \A y \in T : x <= y
<1>1. IsWellFoundedOn(Less, Nat)
  BY NatLessThanWellFounded DEF OpToRel, Less
<1>2. \E x \in T : \A y \in T : ~ (<<y, x>> \in Less)
  BY <1>1, WFMin
<1>3. \A x, y \in Nat : y < x => <<y, x>> \in Less
  BY DEF Less
<1>4. \A x, y \in Nat : ~ (y < x) => x <= y
  OBVIOUS
<1>5. QED
  BY <1>2, <1>3, <1>4

LEMMA GreatestNat ==
    ASSUME NEW m \in Nat, NEW T, T \subseteq 0 .. m, T # {}
    PROVE  \E x \in T : \A y \in T : x >= y
<1> DEFINE U == {m - x : x \in T}
<1>1. U \subseteq Nat /\ U # {}
  <2>1. \A x \in T : m - x \in Nat
    OBVIOUS
  <2>2. QED
    BY <2>1
<1>2. PICK u \in U : \A y \in U : u <= y
  BY <1>1, LeastNat
<1>3. PICK x \in T : u = m - x
  OBVIOUS
<1>4. \A y \in T : m - x <= m - y
  BY <1>2, <1>3
<1>5. QED
  BY <1>4

LEMMA CountUp ==
    ASSUME NEW n \in Nat, NEW T, 0 \in T, \A i \in 0 .. n - 1 : i \in T => i + 1 \in T
    PROVE  \A i \in 0 .. n : i \in T
<1> DEFINE U == {i \in 0 .. n : i \notin T}
<1>1. SUFFICES ASSUME U # {} PROVE FALSE
  OBVIOUS
<1>2. U \subseteq Nat
  OBVIOUS
<1> HIDE DEF U
<1>3. PICK x \in U : \A y \in U : x <= y
  BY <1>1, <1>2, LeastNat
<1>4. x \in 0 .. n /\ x \notin T /\ x # 0
  BY DEF U
<1>5. x - 1 \in 0 .. n - 1 /\ x - 1 \notin U
  BY <1>3, <1>4, <1>2
<1>6. x - 1 \in T
  BY <1>5 DEF U
<1>7. QED
  BY <1>4, <1>5, <1>6

\* f starts with a, and each value comes from the one before it by a step.
Steps(f, n, a, step) == f[0] = a /\ \A i \in 1 .. n : f[i] = step[i][f[i - 1]]

\* What is defined by steps exists.
LEMMA Recursion ==
    ASSUME NEW n \in Nat, NEW S, NEW a \in S, NEW step \in [1 .. n -> [S -> S]]
    PROVE  \E f \in [0 .. n -> S] : Steps(f, n, a, step)
<1> DEFINE Up(k, f) == f[0] = a /\ \A i \in 1 .. k : f[i] = step[i][f[i - 1]]
           T == {k \in 0 .. n : \E f \in [0 .. k -> S] : Up(k, f)}
<1>1. 0 \in T
  <2>1. [i \in 0 .. 0 |-> a] \in [0 .. 0 -> S] /\ Up(0, [i \in 0 .. 0 |-> a])
    OBVIOUS
  <2>2. \E f \in [0 .. 0 -> S] : Up(0, f)
    BY <2>1
  <2> HIDE DEF Up
  <2>3. QED
    BY <2>2
<1>2. ASSUME NEW k \in 0 .. n - 1, k \in T PROVE k + 1 \in T
  <2>1. PICK f \in [0 .. k -> S] : Up(k, f)
    BY <1>2
  <2> DEFINE g == [i \in 0 .. k + 1 |-> IF i = k + 1 THEN step[k + 1][f[k]] ELSE f[i]]
  <2>2. k + 1 \in 1 .. n /\ k \in 0 .. k
    OBVIOUS
  <2>3. step[k + 1][f[k]] \in S
    BY <2>2
  <2>4. g \in [0 .. k + 1 -> S]
    BY <2>3
  <2>5. g[0] = a
    BY <2>1
  <2>6. ASSUME NEW i \in 1 .. k + 1 PROVE g[i] = step[i][g[i - 1]]
    <3>1. CASE i = k + 1
      <4>1. g[i - 1] = f[k]
        BY <3>1
      <4>2. QED
        BY <3>1, <4>1
    <3>2. CASE i # k + 1
      <4>1. i \in 1 .. k /\ i - 1 \in 0 .. k
        BY <3>2
      <4>2. g[i] = f[i] /\ g[i - 1] = f[i - 1]
        BY <4>1
      <4>3. QED
        BY <2>1, <4>1, <4>2
    <3>3. QED
      BY <3>1, <3>2
  <2> HIDE DEF g
  <2>7. Up(k + 1, g)
    BY <2>5, <2>6
  <2>8. QED
    BY <2>2, <2>4, <2>7
<1> HIDE DEF T
<1>3. n \in T
  <2>1. \A i \in 0 .. n - 1 : i \in T => i + 1 \in T
    BY <1>2
  <2>2. \A i \in 0 .. n : i \in T
    BY <1>1, <2>1, CountUp
  <2>3. QED
    BY <2>2
<1>4. QED
  BY <1>3 DEF T, Steps

\* A bounded set of naturals has a greatest element.
LEMMA MaxIs ==
    ASSUME NEW m \in Nat, NEW S, S \subseteq 0 .. m, S # {}
    PROVE  Max(S) \in S /\ \A y \in S : Max(S) >= y
<1>1. \E x \in S : \A y \in S : x >= y
  BY GreatestNat
<1>2. QED
  BY <1>1 DEF Max

-----------------------------------------------------------------------------
(* Versions, and how long the chains of them are. *)

LineLink == [to: Nat, strong: BOOLEAN, from: {w.from : w \in Windows}, until: {w.until : w \in Windows}]
LineVersion == [who: Writers, at: Nat, private: BOOLEAN, links: SUBSET LineLink]

\* Links go to older thoughts.
Older(vs) == \A id \in DOMAIN vs : \A l \in vs[id].links : l.to \in 1 .. id - 1

Before(vs, L, id) == {0} \cup {L[l.to] : l \in {k \in vs[id].links : k.strong}}

LEMMA LengthsAre ==
    ASSUME NEW vs, NEW n \in Nat, DOMAIN vs = 1 .. n, Older(vs)
    PROVE  LengthsIn(vs) = [id \in 1 .. n |-> 1 + Max(Before(vs, LengthsIn(vs), id))]
<1> DEFINE Fits(k, L) == L = [id \in 1 .. k |-> 1 + Max(Before(vs, L, id))]
           T == {k \in 0 .. n : \E L : Fits(k, L)}
<1>1. 0 \in T
  <2>1. Fits(0, <<>>)
    <3>1. 1 .. 0 = {}
      OBVIOUS
    <3>2. QED
      BY <3>1
  <2>2. \E L : Fits(0, L)
    BY <2>1
  <2> HIDE DEF Fits
  <2>3. QED
    BY <2>2
<1>2. ASSUME NEW k \in 0 .. n - 1, k \in T PROVE k + 1 \in T
  <2>1. PICK L : Fits(k, L)
    BY <1>2
  <2> DEFINE M == [id \in 1 .. k + 1 |-> IF id = k + 1 THEN 1 + Max(Before(vs, L, k + 1)) ELSE L[id]]
  <2>2. \A id \in 1 .. k + 1 : \A l \in vs[id].links : l.to \in 1 .. k /\ M[l.to] = L[l.to]
    <3>1. SUFFICES ASSUME NEW id \in 1 .. k + 1, NEW l \in vs[id].links
                   PROVE  l.to \in 1 .. k /\ M[l.to] = L[l.to]
      OBVIOUS
    <3>2. id \in 1 .. n
      OBVIOUS
    <3>3. l.to \in 1 .. id - 1
      BY <3>2 DEF Older
    <3>4. l.to \in 1 .. k /\ l.to \in 1 .. k + 1 /\ l.to # k + 1
      BY <3>3
    <3>5. QED
      BY <3>4
  <2> HIDE DEF M
  <2>3. \A id \in 1 .. k + 1 : Before(vs, M, id) = Before(vs, L, id)
    BY <2>2 DEF Before
  <2>4. M = [id \in 1 .. k + 1 |-> 1 + Max(Before(vs, M, id))]
    <3>1. \A id \in 1 .. k : L[id] = 1 + Max(Before(vs, L, id))
      BY <2>1
    <3>2. \A id \in 1 .. k + 1 : id # k + 1 => id \in 1 .. k
      OBVIOUS
    <3>3. M = [id \in 1 .. k + 1 |-> 1 + Max(Before(vs, L, id))]
      BY <3>1, <3>2 DEF M
    <3>4. QED
      BY <2>3, <3>3
  <2>5. \E N : Fits(k + 1, N)
    BY <2>4
  <2> HIDE DEF Fits
  <2>6. QED
    BY <2>5
<1>3. \E L : Fits(n, L)
  <2> HIDE DEF Fits
  <2>1. \A i \in 0 .. n - 1 : i \in T => i + 1 \in T
    BY <1>2
  <2> HIDE DEF T
  <2>2. \A i \in 0 .. n : i \in T
    BY <1>1, <2>1, CountUp
  <2>3. QED
    BY <2>2 DEF T
<1>4. LengthsIn(vs) = CHOOSE L : Fits(n, L)
  BY DEF LengthsIn, Before
<1>5. QED
  BY <1>3, <1>4

\* Whatever satisfies the equations on the same links has the same lengths.
LEMMA LengthsAgree ==
    ASSUME NEW n \in Nat, NEW vs, NEW us, NEW L, NEW M, 1 .. n \subseteq DOMAIN vs, Older(vs),
           \A id \in 1 .. n : us[id] = vs[id],
           \A id \in 1 .. n : L[id] = 1 + Max(Before(vs, L, id)),
           \A id \in 1 .. n : M[id] = 1 + Max(Before(us, M, id))
    PROVE  \A id \in 1 .. n : L[id] = M[id]
<1> DEFINE T == {id \in 1 .. n : L[id] # M[id]}
<1>1. SUFFICES ASSUME T # {} PROVE FALSE
  OBVIOUS
<1>2. PICK id \in T : \A x \in T : id <= x
  <2>1. T \subseteq Nat
    OBVIOUS
  <2> HIDE DEF T
  <2>2. QED
    BY <1>1, <2>1, LeastNat
<1>3. \A x \in 1 .. id - 1 : L[x] = M[x]
  BY <1>2
<1>4. Before(vs, L, id) = Before(us, M, id)
  <2>1. us[id] = vs[id] /\ \A l \in vs[id].links : l.to \in 1 .. id - 1
    BY DEF Older
  <2>2. QED
    BY <1>3, <2>1 DEF Before
<1>5. QED
  BY <1>4

(* The invariant: links go to older thoughts, and no chain of strong links is
   longer than the guard allows. *)
LineageTyped ==
    /\ versions \in Seq(LineVersion)
    /\ governed \in BOOLEAN /\ trusted \subseteq Writers /\ time \in Nat \ {0}

Told == \A id \in Versions : versions[id].at <= time

NoneTooLong == \A id \in Versions : ChainLengths[id] \in 1 .. MaxDepth

LineageInv == LineageTyped /\ Told /\ Older(versions) /\ NoneTooLong

LEMMA VersionsAre ==
    ASSUME LineageInv
    PROVE  /\ Versions = 1 .. Len(versions) /\ Len(versions) \in Nat
           /\ ChainLengths = [id \in Versions |-> 1 + Max(Before(versions, ChainLengths, id))]
<1>1. DOMAIN versions = 1 .. Len(versions) /\ Len(versions) \in Nat
  BY DEF LineageInv, LineageTyped
<1>2. Older(versions)
  BY DEF LineageInv
<1> DEFINE vs == versions
<1> HIDE DEF vs
<1>3. Len(vs) \in Nat /\ DOMAIN vs = 1 .. Len(vs) /\ Older(vs)
  BY <1>1, <1>2 DEF vs
<1>4. LengthsIn(vs) = [id \in 1 .. Len(vs) |-> 1 + Max(Before(vs, LengthsIn(vs), id))]
  BY <1>3, LengthsAre
<1>5. QED
  BY <1>1, <1>4 DEF vs, Versions, ChainLengths

LEMMA LineageStarts == LineageInit => LineageInv
<1> SUFFICES ASSUME LineageInit PROVE LineageInv
  OBVIOUS
<1>1. versions = <<>> /\ DOMAIN versions = {}
  BY DEF LineageInit
<1>2. versions \in Seq(LineVersion)
  BY <1>1
<1>3. governed = FALSE /\ trusted = {} /\ time = 1
  BY DEF LineageInit
<1>4. governed \in BOOLEAN /\ trusted \subseteq Writers
  BY <1>3, Zenon
<1>8. time \in Nat \ {0}
  BY <1>3
<1>5. LineageTyped
  BY <1>2, <1>4, <1>8 DEF LineageTyped
<1>6. Told /\ Older(versions) /\ NoneTooLong
  BY <1>1 DEF Told, Older, NoneTooLong, Versions
<1>7. QED
  BY <1>5, <1>6 DEF LineageInv

LEMMA AppendVersionKeeps ==
    ASSUME LineageInv, AppendVersion
    PROVE  LineageInv'
<1>1. PICK who \in Writers, targets \in UNION {kSubset(n, Versions) : n \in 0 .. MaxLinks} :
      \E kind \in [targets -> BOOLEAN \X Windows] :
         LET links == {[to |-> id, strong |-> kind[id][1], from |-> kind[id][2].from,
                        until |-> kind[id][2].until] : id \in targets} IN
         /\ DepthAllowed(links)
         /\ versions' = Append(versions, [who |-> who, at |-> time, private |-> governed,
                                          links |-> links])
  BY DEF AppendVersion
<1>2. PICK kind \in [targets -> BOOLEAN \X Windows] :
         LET links == {[to |-> id, strong |-> kind[id][1], from |-> kind[id][2].from,
                        until |-> kind[id][2].until] : id \in targets} IN
         /\ DepthAllowed(links)
         /\ versions' = Append(versions, [who |-> who, at |-> time, private |-> governed,
                                          links |-> links])
  BY <1>1
<1> DEFINE link(id) == [to |-> id, strong |-> kind[id][1], from |-> kind[id][2].from,
                        until |-> kind[id][2].until]
           links == {link(id) : id \in targets}
           new == [who |-> who, at |-> time, private |-> governed, links |-> links]
           n == Len(versions)
<1>3. UNCHANGED <<governed, trusted, time>>
  BY DEF AppendVersion
<1>4. targets \subseteq Versions
  BY DEF kSubset
<1>5. /\ Versions = 1 .. n /\ n \in Nat
      /\ ChainLengths = [id \in Versions |-> 1 + Max(Before(versions, ChainLengths, id))]
  BY VersionsAre
<1>6. \A l \in links : l \in LineLink /\ l.to \in 1 .. n
  <2>1. \A id \in targets : link(id).to = id /\ id \in 1 .. n
    BY <1>4, <1>5
  <2>2. \A id \in targets : link(id) \in LineLink
    <3>1. SUFFICES ASSUME NEW id \in targets PROVE link(id) \in LineLink
      OBVIOUS
    <3>2. kind[id] \in BOOLEAN \X Windows
      OBVIOUS
    <3>3. kind[id][1] \in BOOLEAN /\ kind[id][2] \in Windows
      BY <3>2
    <3>4. QED
      BY <2>1, <3>3 DEF LineLink
  <2> HIDE DEF link
  <2>3. QED
    BY <2>1, <2>2
<1>7. DepthAllowed(links) /\ versions' = Append(versions, new)
  BY <1>2
<1> HIDE DEF links
<1>8. new \in LineVersion /\ new.links = links /\ new.at = time
  BY <1>6 DEF LineageInv, LineageTyped, LineVersion
<1> HIDE DEF new
<1>9. /\ versions' \in Seq(LineVersion) /\ DOMAIN versions' = 1 .. n + 1
      /\ \A id \in 1 .. n : versions'[id] = versions[id]
      /\ versions'[n + 1] = new /\ Len(versions') = n + 1
  BY <1>7, <1>8 DEF LineageInv, LineageTyped
<1>10. LineageTyped'
  BY <1>3, <1>9 DEF LineageInv, LineageTyped
<1>11. \A id \in 1 .. n + 1 : id # n + 1 => id \in 1 .. n
  BY <1>5
<1>12. Told'
  BY <1>3, <1>5, <1>8, <1>9, <1>11 DEF LineageInv, LineageTyped, Told, Versions
<1>13. Older(versions')
  BY <1>5, <1>6, <1>8, <1>9, <1>11 DEF LineageInv, Older, Versions
<1> DEFINE L == ChainLengths
           M == ChainLengths'
<1>14. M = [id \in 1 .. n + 1 |-> 1 + Max(Before(versions', M, id))]
  <2> DEFINE vs == versions'
  <2>1. n + 1 \in Nat /\ DOMAIN vs = 1 .. n + 1 /\ Older(vs)
    BY <1>5, <1>9, <1>13
  <2> HIDE DEF vs
  <2>2. LengthsIn(vs) = [id \in 1 .. n + 1 |-> 1 + Max(Before(vs, LengthsIn(vs), id))]
    BY <2>1, LengthsAre
  <2>3. QED
    BY <2>2 DEF ChainLengths, vs
<1>15. \A id \in 1 .. n : M[id] = L[id] /\ M[id] \in 1 .. MaxDepth
  <2>1. /\ \A id \in 1 .. n : L[id] = 1 + Max(Before(versions, L, id))
        /\ \A id \in 1 .. n : M[id] = 1 + Max(Before(versions', M, id))
        /\ 1 .. n \subseteq DOMAIN versions /\ Older(versions)
        /\ \A id \in 1 .. n : L[id] \in 1 .. MaxDepth
    <3>1. \A id \in 1 .. n : L[id] = 1 + Max(Before(versions, L, id))
      BY <1>5
    <3>2. \A id \in 1 .. n : id \in 1 .. n + 1
      BY <1>5
    <3>3. \A id \in 1 .. n : M[id] = 1 + Max(Before(versions', M, id))
      <4> HIDE DEF M
      <4>1. QED
        BY <1>14, <3>2
    <3>4. 1 .. n \subseteq DOMAIN versions /\ Older(versions) /\ \A id \in 1 .. n : L[id] \in 1 .. MaxDepth
      BY <1>5 DEF LineageInv, NoneTooLong, Versions
    <3>5. QED
      BY <3>1, <3>3, <3>4
  <2> HIDE DEF L, M
  <2>2. \A id \in 1 .. n : L[id] = M[id]
    <3> DEFINE vs == versions
               us == versions'
    <3>1. /\ \A id \in 1 .. n : L[id] = 1 + Max(Before(vs, L, id))
          /\ \A id \in 1 .. n : M[id] = 1 + Max(Before(us, M, id))
          /\ 1 .. n \subseteq DOMAIN vs /\ Older(vs) /\ n \in Nat
          /\ \A id \in 1 .. n : us[id] = vs[id]
      BY <1>5, <1>9, <2>1
    <3> HIDE DEF vs, us, n
    <3>2. QED
      BY <3>1, LengthsAgree
  <2>3. QED
    BY <2>1, <2>2
<1>16. M[n + 1] \in 1 .. MaxDepth
  <2> DEFINE S == Before(versions', M, n + 1)
  <2>1. M[n + 1] = 1 + Max(S)
    <3> HIDE DEF M
    <3>1. n + 1 \in 1 .. n + 1
      BY <1>5
    <3>2. QED
      BY <1>14, <3>1
  <2>2. MaxDepth - 1 \in Nat
    BY LineageAssumption
  <2>3. S \subseteq 0 .. MaxDepth - 1 /\ S # {}
    <3>1. \A l \in links : l.strong => M[l.to] \in 1 .. MaxDepth - 1
      BY <1>6, <1>7, <1>15, LineageAssumption DEF DepthAllowed
    <3>2. S = {0} \cup {M[l.to] : l \in {k \in links : k.strong}}
      BY <1>8, <1>9 DEF Before
    <3> HIDE DEF S, M
    <3>3. QED
      BY <2>2, <3>1, <3>2
  <2> HIDE DEF S, M
  <2>4. Max(S) \in 0 .. MaxDepth - 1
    BY <2>2, <2>3, MaxIs
  <2> DEFINE top == M[n + 1]
             m == Max(S)
  <2>5. top = 1 + m /\ m \in 0 .. MaxDepth - 1 /\ MaxDepth \in Nat
    BY <2>1, <2>4, LineageAssumption
  <2> HIDE DEF top, m
  <2>6. top \in 1 .. MaxDepth
    BY <2>5
  <2>7. QED
    BY <2>6 DEF top
<1>17. NoneTooLong'
  <2> HIDE DEF M
  <2>1. \A id \in 1 .. n + 1 : M[id] \in 1 .. MaxDepth
    BY <1>11, <1>15, <1>16
  <2>2. QED
    BY <1>9, <2>1 DEF NoneTooLong, Versions, M
<1>18. QED
  BY <1>10, <1>12, <1>13, <1>17 DEF LineageInv

LEMMA LineageKeeps == LineageInv /\ [LineageNext]_lineageVars => LineageInv'
<1> SUFFICES ASSUME LineageInv, [LineageNext]_lineageVars PROVE LineageInv'
  OBVIOUS
<1>1. CASE AppendVersion
  BY <1>1, AppendVersionKeeps
<1>2. CASE Govern \/ Pass \/ UNCHANGED lineageVars
  <2>1. versions' = versions /\ time' \in Nat \ {0} /\ time' >= time
    BY <1>2 DEF Govern, Pass, lineageVars, LineageInv, LineageTyped
  <2>2. governed' \in BOOLEAN /\ trusted' \subseteq Writers
    BY <1>2, LineageAssumption DEF Govern, Pass, lineageVars, LineageInv, LineageTyped
  <2>3. LineageTyped' /\ Older(versions')
    BY <2>1, <2>2 DEF LineageInv, LineageTyped
  <2>4. NoneTooLong'
    BY <2>1 DEF LineageInv, NoneTooLong, Versions, ChainLengths
  <2>5. \A id \in Versions : versions[id].at \in Nat
    <3>1. \A id \in DOMAIN versions : versions[id] \in LineVersion
      <4> DEFINE set == LineVersion
      <4>1. versions \in Seq(set)
        BY DEF LineageInv, LineageTyped
      <4> HIDE DEF set
      <4>2. \A id \in DOMAIN versions : versions[id] \in set
        BY <4>1
      <4>3. QED
        BY <4>2 DEF set
    <3>2. \A v \in LineVersion : v.at \in Nat
      BY DEF LineVersion
    <3>3. QED
      BY <3>1, <3>2 DEF Versions
  <2>6. Told'
    BY <2>1, <2>5 DEF LineageInv, LineageTyped, Told, Versions
  <2>7. QED
    BY <2>3, <2>4, <2>6 DEF LineageInv
<1>3. QED
  BY <1>1, <1>2 DEF LineageNext

-----------------------------------------------------------------------------
(* What the readers' operators return. *)

LEMMA EveryVersion ==
    ASSUME LineageInv
    PROVE  \A id \in Versions : /\ versions[id].at \in 0 .. time
                                /\ id \in 1 .. Len(versions)
<1>1. \A id \in DOMAIN versions : versions[id] \in LineVersion
  <2> DEFINE set == LineVersion
  <2>1. versions \in Seq(set)
    BY DEF LineageInv, LineageTyped
  <2> HIDE DEF set
  <2>2. \A id \in DOMAIN versions : versions[id] \in set
    BY <2>1
  <2>3. QED
    BY <2>2 DEF set
<1>2. \A v \in LineVersion : v.at \in Nat
  BY DEF LineVersion
<1>3. time \in Nat
  BY DEF LineageInv, LineageTyped
<1>4. \A id \in Versions : versions[id].at \in 0 .. time
  BY <1>1, <1>2, <1>3 DEF LineageInv, Told, Versions
<1>5. QED
  BY <1>4, VersionsAre

LEMMA RangeOfAppend ==
    ASSUME NEW S, NEW s \in Seq(S), NEW x
    PROVE  Range(Append(s, x)) = Range(s) \cup {x}
<1>1. /\ DOMAIN Append(s, x) = 1 .. Len(s) + 1 /\ DOMAIN s = 1 .. Len(s)
      /\ \A i \in 1 .. Len(s) : Append(s, x)[i] = s[i]
      /\ Append(s, x)[Len(s) + 1] = x /\ Len(s) \in Nat
  OBVIOUS
<1> DEFINE n == Len(s)
           a == Append(s, x)
<1> HIDE DEF n, a
<1>2. /\ DOMAIN a = 1 .. n + 1 /\ DOMAIN s = 1 .. n /\ n \in Nat
      /\ \A i \in 1 .. n : a[i] = s[i]
      /\ a[n + 1] = x
  BY <1>1 DEF n, a
<1>3. \A i \in 1 .. n + 1 : i \in 1 .. n \/ i = n + 1
  BY <1>2
<1>4. \A i \in 1 .. n : i \in 1 .. n + 1
  BY <1>2
<1>5. n + 1 \in 1 .. n + 1
  BY <1>2
<1>6. Range(a) = Range(s) \cup {x}
  BY <1>2, <1>3, <1>4, <1>5 DEF Range
<1>7. QED
  BY <1>6 DEF a

LEMMA OldestFirstIs ==
    ASSUME LineageInv, NEW ids, ids \subseteq Versions
    PROVE  OldestFirst(ids) \in Seq(ids) /\ Range(OldestFirst(ids)) = ids
<1>0. PICK N \in Nat : N = Len(versions)
  BY VersionsAre
<1> DEFINE Fits(f) == f = [n \in 0 .. N |-> IF n = 0 THEN <<>>
                             ELSE IF n \in ids THEN Append(f[n - 1], n) ELSE f[n - 1]]
           U == CHOOSE f : Fits(f)
           step == [n \in 1 .. N |-> [s \in Seq(ids) |-> IF n \in ids THEN Append(s, n) ELSE s]]
<1>1. N \in Nat /\ ids \subseteq 1 .. N
  BY <1>0, VersionsAre
<1>2. OldestFirst(ids) = U[N]
  BY <1>0 DEF OldestFirst
<1>3. \E f : Fits(f)
  <2>1. step \in [1 .. N -> [Seq(ids) -> Seq(ids)]] /\ <<>> \in Seq(ids)
    OBVIOUS
  <2> DEFINE S == Seq(ids)
             none == <<>>
  <2> HIDE DEF step, S, none
  <2>6. step \in [1 .. N -> [S -> S]] /\ none \in S /\ N \in Nat
    BY <1>1, <2>1 DEF S, none
  <2>7. \E f \in [0 .. N -> S] : Steps(f, N, none, step)
    BY <2>6, Recursion
  <2>2. PICK f \in [0 .. N -> Seq(ids)] : f[0] = <<>> /\ \A i \in 1 .. N : f[i] = step[i][f[i - 1]]
    BY <2>7 DEF S, none, Steps
  <2>3. \A i \in 0 .. N : i # 0 => i \in 1 .. N /\ i - 1 \in 0 .. N
    BY <1>1
  <2>4. \A i \in 1 .. N : f[i] = IF i \in ids THEN Append(f[i - 1], i) ELSE f[i - 1]
    <3>1. \A i \in 1 .. N : f[i - 1] \in Seq(ids)
      BY <2>3, <1>1
    <3>2. QED
      BY <2>2, <3>1 DEF step
  <2>5. Fits(f)
    BY <2>2, <2>3, <2>4
  <2> HIDE DEF Fits
  <2>8. QED
    BY <2>5
<1>4. Fits(U)
  <2> HIDE DEF Fits
  <2>1. QED
    BY <1>3
<1> HIDE DEF U
<1>5. U[0] = <<>> /\ \A i \in 1 .. N : U[i] = IF i \in ids THEN Append(U[i - 1], i) ELSE U[i - 1]
  <2>1. \A i \in 1 .. N : i \in 0 .. N /\ i # 0
    BY <1>1
  <2>2. 0 \in 0 .. N
    BY <1>1
  <2>3. QED
    BY <1>4, <2>1, <2>2
<1> HIDE DEF Fits
<1> DEFINE T == {n \in 0 .. N : U[n] \in Seq(ids) /\ Range(U[n]) = ids \cap 1 .. n}
<1>6. 0 \in T
  <2>1. 0 \in 0 .. N /\ ids \cap 1 .. 0 = {} /\ Range(<<>>) = {} /\ <<>> \in Seq(ids)
    BY <1>1 DEF Range
  <2>2. QED
    BY <1>5, <2>1
<1>7. ASSUME NEW i \in 0 .. N - 1, i \in T PROVE i + 1 \in T
  <2>1. i + 1 \in 1 .. N /\ i + 1 - 1 = i /\ i + 1 \in 0 .. N /\ i \in Nat
    BY <1>1
  <2>2. U[i + 1] = IF i + 1 \in ids THEN Append(U[i], i + 1) ELSE U[i]
    BY <1>5, <2>1
  <2>3. U[i] \in Seq(ids) /\ Range(U[i]) = ids \cap 1 .. i
    BY <1>7
  <2> HIDE DEF U
  <2>4. CASE i + 1 \in ids
    <3>1. U[i + 1] = Append(U[i], i + 1)
      BY <2>2, <2>4
    <3>2. U[i + 1] \in Seq(ids)
      BY <2>3, <2>4, <3>1
    <3>3. Range(U[i + 1]) = Range(U[i]) \cup {i + 1}
      BY <2>3, <3>1, RangeOfAppend
    <3>4. ids \cap 1 .. i + 1 = (ids \cap 1 .. i) \cup {i + 1}
      BY <2>1, <2>4
    <3>5. QED
      BY <2>1, <2>3, <3>2, <3>3, <3>4
  <2>5. CASE i + 1 \notin ids
    <3>1. ids \cap 1 .. i + 1 = ids \cap 1 .. i
      BY <2>1, <2>5
    <3>2. QED
      BY <2>1, <2>2, <2>3, <2>5, <3>1
  <2>6. QED
    BY <2>4, <2>5
<1> HIDE DEF T
<1>8. N \in T
  <2>1. \A i \in 0 .. N - 1 : i \in T => i + 1 \in T
    BY <1>7
  <2>2. \A i \in 0 .. N : i \in T
    BY <1>1, <1>6, <2>1, CountUp
  <2>3. QED
    BY <1>1, <2>2
<1>9. ids \cap 1 .. N = ids
  BY <1>1
<1>10. QED
  BY <1>2, <1>8, <1>9 DEF T

LEMMA NewestIs ==
    ASSUME LineageInv, NEW ids, ids \subseteq Versions, ids # {}
    PROVE  NewestOf(ids) \in ids
<1> DEFINE times == {versions[a].at : a \in ids}
<1>1. \A a \in ids : versions[a].at \in 0 .. time /\ a \in 0 .. Len(versions)
  BY EveryVersion
<1>2. time \in Nat /\ Len(versions) \in Nat
  BY VersionsAre DEF LineageInv, LineageTyped
<1>3. times \subseteq 0 .. time /\ times # {}
  BY <1>1
<1>4. PICK latest \in times : \A x \in times : latest >= x
  <2> HIDE DEF times
  <2>1. QED
    BY <1>2, <1>3, GreatestNat
<1> DEFINE last == {a \in ids : versions[a].at = latest}
<1>5. last \subseteq 0 .. Len(versions) /\ last # {}
  BY <1>1
<1>6. PICK a \in last : \A b \in last : a >= b
  <2> HIDE DEF last
  <2>1. QED
    BY <1>2, <1>5, GreatestNat
<1>7. \A b \in ids : a = b \/ Newer(a, b)
  <2>1. SUFFICES ASSUME NEW b \in ids, a # b PROVE Newer(a, b)
    OBVIOUS
  <2>2. /\ versions[b].at \in Nat /\ versions[a].at = latest /\ latest \in Nat /\ a \in Nat /\ b \in Nat
        /\ latest >= versions[b].at
    BY <1>1, <1>4, <1>2
  <2>3. CASE versions[b].at = latest
    BY <1>6, <2>1, <2>2, <2>3 DEF Newer
  <2>4. CASE versions[b].at # latest
    BY <2>2, <2>4 DEF Newer
  <2>5. QED
    BY <2>3, <2>4
<1> HIDE DEF last
<1>8. a \in ids
  BY DEF last
<1>9. \E x \in ids : \A b \in ids : x = b \/ Newer(x, b)
  BY <1>7, <1>8
<1>10. QED
  BY <1>9 DEF NewestOf

LEMMA EdgesAre ==
    ASSUME LineageInv, NEW id \in Versions, NEW e \in EdgesInto(id)
    PROVE  /\ e.by \in Versions /\ e.by > id
           /\ e.link \in versions[e.by].links /\ e.link.to = id
<1>1. PICK n \in id + 1 .. Len(versions) :
        e \in {[by |-> n, link |-> l] : l \in {k \in LinksOf(n) : k.to = id}}
  BY DEF EdgesInto
<1>2. PICK l \in {k \in LinksOf(n) : k.to = id} : e = [by |-> n, link |-> l]
  BY <1>1
<1>3. e.by = n /\ e.link = l /\ l \in versions[n].links /\ l.to = id
  BY <1>2 DEF LinksOf
<1>4. id \in 1 .. Len(versions) /\ Versions = 1 .. Len(versions) /\ Len(versions) \in Nat
  BY VersionsAre
<1>5. n \in Versions /\ n > id
  BY <1>1, <1>4
<1>6. QED
  BY <1>3, <1>5

\* What replaced a thought is newer, visible, and at the end of a longer chain.
LEMMA ReplacingIs ==
    ASSUME LineageInv, NEW id \in Versions, NEW t, NEW audience,
           NEW m \in Replacing(id, t, audience)
    PROVE  /\ m \in Versions /\ m > id /\ Visible(m, audience)
           /\ ChainLengths[m] > ChainLengths[id]
<1>1. PICK e \in EdgesInto(id) :
        e.by = m /\ e.link.strong /\ Visible(m, audience)
  BY DEF Replacing, VisibleEdges
<1>2. m \in Versions /\ m > id /\ e.link \in versions[m].links /\ e.link.to = id
  BY <1>1, EdgesAre
<1> DEFINE S == Before(versions, ChainLengths, m)
<1>3. ChainLengths[m] = 1 + Max(S)
  BY <1>2, VersionsAre
<1>4. ChainLengths[id] \in S
  BY <1>1, <1>2 DEF Before
<1>5. S \subseteq 0 .. MaxDepth
  <2>1. Older(versions) /\ DOMAIN versions = 1 .. Len(versions) /\ m \in 1 .. Len(versions) /\ m \in DOMAIN versions
    BY <1>2, VersionsAre DEF LineageInv, Versions
  <2>2. \A l \in versions[m].links : l.to \in Versions
    BY <2>1 DEF Older, Versions
  <2>3. \A l \in versions[m].links : ChainLengths[l.to] \in 0 .. MaxDepth
    BY <2>2, LineageAssumption DEF LineageInv, NoneTooLong
  <2>4. 0 \in 0 .. MaxDepth
    BY LineageAssumption
  <2>5. QED
    BY <2>3, <2>4 DEF Before
<1> HIDE DEF S
<1>6. Max(S) \in 0 .. MaxDepth /\ Max(S) >= ChainLengths[id]
  BY <1>4, <1>5, MaxIs, LineageAssumption
<1> DEFINE m0 == Max(S)
           a == ChainLengths[m]
           b == ChainLengths[id]
<1>7. a = 1 + m0 /\ m0 \in Nat /\ b \in Nat /\ m0 >= b
  <2>1. b \in 0 .. MaxDepth /\ MaxDepth \in Nat
    BY <1>4, <1>5, LineageAssumption
  <2>2. a = 1 + m0 /\ m0 \in 0 .. MaxDepth /\ m0 >= b
    BY <1>3, <1>6
  <2> HIDE DEF a, b, m0
  <2>3. QED
    BY <2>1, <2>2
<1> HIDE DEF m0, a, b
<1>8. a > b
  BY <1>7
<1>9. QED
  BY <1>1, <1>2, <1>8 DEF a, b

\* A thought replaced now is replaced at a time when something had replaced it then.
LEMMA ReplacedIs ==
    ASSUME NEW id, NEW t, NEW audience
    PROVE  InvalidatedAt(id, t, audience)
             <=> InvalidatedNow(id, audience) /\ Replacing(id, t, audience) # {}
BY DEF InvalidatedAt, Replacing, VisibleEdges

-----------------------------------------------------------------------------
(* The walk: its best thoughts are live, and while it has none, the thought it
   visits next was replaced, is newer than every one it visited, and ends a
   chain longer than the visits so far. *)

WalkState == [frontier: Seq(Versions), visited: SUBSET Versions, best: SUBSET Versions]

LiveAt(t, audience) == {m \in Versions : Visible(m, audience) /\ ~ InvalidatedAt(m, t, audience)}

OnTheWay(w, d, t, audience) ==
    \/ w.best # {}
    \/ /\ w.frontier # <<>>
       /\ InvalidatedAt(Last(w.frontier), t, audience)
       /\ \A v \in w.visited : v < Last(w.frontier)
       /\ ChainLengths[Last(w.frontier)] > d

LEMMA FrontAndLast ==
    ASSUME NEW S, NEW s \in Seq(S), s # <<>>
    PROVE  Front(s) \in Seq(S) /\ Last(s) \in S
<1>1. Len(s) \in Nat \ {0}
  OBVIOUS
<1>2. Last(s) \in S
  BY <1>1 DEF Last
<1>3. \A i \in 1 .. Len(s) - 1 : i \in 1 .. Len(s)
  BY <1>1
<1>4. SubSeq(s, 1, Len(s) - 1) \in Seq(S)
  BY <1>1, <1>3
<1>5. QED
  BY <1>2, <1>4 DEF Front

LEMMA LastOfBoth ==
    ASSUME NEW S, NEW r \in Seq(S), NEW s \in Seq(S), s # <<>>
    PROVE  r \o s # <<>> /\ Last(r \o s) = Last(s) /\ Last(s) \in Range(s)
<1>1. Len(s) \in Nat \ {0} /\ Len(r) \in Nat /\ Len(r \o s) = Len(r) + Len(s)
  OBVIOUS
<1>2. (r \o s)[Len(r) + Len(s)] = s[Len(s)]
  BY <1>1
<1>3. r \o s # <<>>
  BY <1>1
<1>4. s[Len(s)] \in Range(s)
  BY <1>1 DEF Range
<1>5. QED
  BY <1>1, <1>2, <1>3, <1>4 DEF Last

LEMMA VisitKeeps ==
    ASSUME LineageInv, NEW t, NEW audience, NEW w \in WalkState, w.frontier # <<>>,
           w.best \subseteq LiveAt(t, audience)
    PROVE  /\ Visit(w, t, audience) \in WalkState
           /\ Visit(w, t, audience).best \subseteq LiveAt(t, audience)
           /\ w.best \subseteq Visit(w, t, audience).best
<1> DEFINE n == Last(w.frontier)
           rest == Front(w.frontier)
           stale == {m \in Replacing(n, t, audience) : InvalidatedAt(m, t, audience)}
<1>1. w.frontier \in Seq(Versions) /\ w.visited \subseteq Versions /\ w.best \subseteq Versions
      /\ w = [frontier |-> w.frontier, visited |-> w.visited, best |-> w.best]
  BY DEF WalkState
<1>2. n \in Versions /\ rest \in Seq(Versions)
  BY <1>1, FrontAndLast
<1>3. Visit(w, t, audience) =
        IF n \in w.visited THEN [frontier |-> rest, visited |-> w.visited, best |-> w.best]
        ELSE [frontier |-> rest \o OldestFirst(stale), visited |-> w.visited \cup {n},
              best |-> w.best \cup (Replacing(n, t, audience) \ stale)]
  BY <1>1 DEF Visit
<1> HIDE DEF n, rest
<1>4. Replacing(n, t, audience) \subseteq Versions
      /\ Replacing(n, t, audience) \ stale \subseteq LiveAt(t, audience)
  BY <1>2, ReplacingIs DEF LiveAt
<1>5. OldestFirst(stale) \in Seq(Versions)
  <2>1. stale \subseteq Versions
    BY <1>4
  <2> HIDE DEF stale
  <2>2. OldestFirst(stale) \in Seq(stale)
    BY <2>1, OldestFirstIs
  <2>3. QED
    BY <2>1, <2>2
<1> HIDE DEF stale
<1>6. rest \o OldestFirst(stale) \in Seq(Versions)
  BY <1>2, <1>5
<1> DEFINE all == rest \o OldestFirst(stale)
           more == Replacing(n, t, audience) \ stale
<1> HIDE DEF all, more
<1>7. CASE n \in w.visited
  BY <1>1, <1>2, <1>3, <1>7 DEF WalkState
<1>8. CASE n \notin w.visited
  <2>1. all \in Seq(Versions) /\ more \subseteq Versions /\ more \subseteq LiveAt(t, audience)
    BY <1>4, <1>6 DEF all, more
  <2>2. Visit(w, t, audience) = [frontier |-> all, visited |-> w.visited \cup {n}, best |-> w.best \cup more]
    BY <1>3, <1>8 DEF all, more
  <2>3. QED
    BY <1>1, <1>2, <2>1, <2>2 DEF WalkState
<1>9. QED
  BY <1>7, <1>8

LEMMA VisitGetsOn ==
    ASSUME LineageInv, NEW t, NEW audience, NEW w \in WalkState, w.frontier # <<>>,
           w.best \subseteq LiveAt(t, audience), NEW d \in Nat, OnTheWay(w, d, t, audience)
    PROVE  OnTheWay(Visit(w, t, audience), d + 1, t, audience)
<1>1. CASE w.best # {}
  BY <1>1, VisitKeeps DEF OnTheWay
<1>2. CASE w.best = {}
  <2> DEFINE n == Last(w.frontier)
             rest == Front(w.frontier)
             stale == {m \in Replacing(n, t, audience) : InvalidatedAt(m, t, audience)}
             all == rest \o OldestFirst(stale)
             more == Replacing(n, t, audience) \ stale
  <2>1. w.frontier \in Seq(Versions) /\ w.visited \subseteq Versions
    BY DEF WalkState
  <2>2. n \in Versions /\ rest \in Seq(Versions)
    BY <2>1, FrontAndLast
  <2>3. InvalidatedAt(n, t, audience) /\ (\A v \in w.visited : v < n) /\ ChainLengths[n] > d
    BY <1>2 DEF OnTheWay
  <2>4. Replacing(n, t, audience) # {}
    BY <2>3, ReplacedIs
  <2>5. w.visited \subseteq Nat /\ n \in Nat /\ n \notin w.visited
    <3>1. \A v \in Versions : v \in Nat
      BY VersionsAre
    <3>2. ~ (n < n)
      BY <2>2, <3>1
    <3>3. QED
      BY <2>1, <2>2, <2>3, <3>1, <3>2
  <2>6. Visit(w, t, audience) =
          [frontier |-> all, visited |-> w.visited \cup {n}, best |-> w.best \cup more]
    BY <2>5 DEF Visit
  <2> HIDE DEF n, rest
  <2>7. CASE more # {}
    <3> HIDE DEF more, all
    <3>1. Visit(w, t, audience).best # {}
      BY <2>6, <2>7
    <3>2. QED
      BY <3>1 DEF OnTheWay
  <2>8. CASE more = {}
    <3>1. stale # {} /\ stale \subseteq Versions
      BY <2>2, <2>4, <2>8, ReplacingIs
    <3>2. /\ \A m \in stale : /\ m > n /\ ChainLengths[m] > ChainLengths[n] /\ m \in Versions
                              /\ InvalidatedAt(m, t, audience)
      BY <2>2, ReplacingIs
    <3> HIDE DEF stale
    <3>3. OldestFirst(stale) \in Seq(stale) /\ Range(OldestFirst(stale)) = stale
      BY <3>1, OldestFirstIs
    <3>4. OldestFirst(stale) # <<>> /\ OldestFirst(stale) \in Seq(Versions)
      <4>1. Range(<<>>) = {}
        BY DEF Range
      <4>2. QED
        BY <3>1, <3>3, <4>1
    <3>5. all # <<>> /\ Last(all) \in stale
      BY <2>2, <3>3, <3>4, LastOfBoth
    <3> DEFINE last == Last(all)
    <3> HIDE DEF all
    <3>6. last > n /\ ChainLengths[last] > ChainLengths[n] /\ last \in Versions
          /\ InvalidatedAt(last, t, audience)
      BY <3>2, <3>5
    <3>7. ChainLengths[last] > d + 1
      <4>1. \A v \in Versions : ChainLengths[v] \in Nat
        BY LineageAssumption DEF LineageInv, NoneTooLong
      <4> DEFINE a == ChainLengths[last]
                 b == ChainLengths[n]
      <4>2. a \in Nat /\ b \in Nat /\ a > b /\ b > d
        BY <2>2, <2>3, <3>6, <4>1
      <4> HIDE DEF a, b
      <4>3. a > d + 1
        BY <4>2
      <4>4. QED
        BY <4>3 DEF a
    <3>8. \A v \in w.visited \cup {n} : v < last
      <4>1. last \in Nat
        BY <3>6, VersionsAre
      <4>2. \A v \in w.visited : v \in Nat /\ v < n
        BY <2>3, <2>5
      <4> HIDE DEF last
      <4>3. QED
        BY <2>5, <3>6, <4>1, <4>2
    <3> DEFINE v == Visit(w, t, audience)
    <3>9. v.frontier = all /\ v.visited = w.visited \cup {n}
      BY <2>6
    <3> HIDE DEF v
    <3>10. OnTheWay(v, d + 1, t, audience)
      BY <3>5, <3>6, <3>7, <3>8, <3>9 DEF OnTheWay
    <3>11. QED
      BY <3>10 DEF v
  <2>9. QED
    BY <2>7, <2>8
<1>3. QED
  BY <1>1, <1>2

Start(id) == [frontier |-> <<id>>, visited |-> {}, best |-> {}]

WalkStep(w, t, audience) == IF w.frontier = <<>> THEN w ELSE Visit(w, t, audience)

\* A step of the walk is a walk state: the best thoughts need not be live.
LEMMA WalkStepTyped ==
    ASSUME LineageInv, NEW t, NEW audience, NEW w \in WalkState
    PROVE  WalkStep(w, t, audience) \in WalkState
<1>1. CASE w.frontier = <<>>
  BY <1>1 DEF WalkStep
<1>2. CASE w.frontier # <<>>
  <2> DEFINE n == Last(w.frontier)
             rest == Front(w.frontier)
             stale == {m \in Replacing(n, t, audience) : InvalidatedAt(m, t, audience)}
             all == rest \o OldestFirst(stale)
             more == Replacing(n, t, audience) \ stale
  <2>1. w.frontier \in Seq(Versions) /\ w.visited \subseteq Versions /\ w.best \subseteq Versions
        /\ w = [frontier |-> w.frontier, visited |-> w.visited, best |-> w.best]
    BY DEF WalkState
  <2>2. n \in Versions /\ rest \in Seq(Versions)
    BY <1>2, <2>1, FrontAndLast
  <2>3. WalkStep(w, t, audience) =
          IF n \in w.visited THEN [frontier |-> rest, visited |-> w.visited, best |-> w.best]
          ELSE [frontier |-> all, visited |-> w.visited \cup {n}, best |-> w.best \cup more]
    BY <1>2, <2>1 DEF Visit, WalkStep
  <2> HIDE DEF n, rest
  <2>4. more \subseteq Versions /\ stale \subseteq Versions
    BY <2>2, ReplacingIs
  <2> HIDE DEF stale
  <2>5. OldestFirst(stale) \in Seq(stale)
    BY <2>4, OldestFirstIs
  <2>6. OldestFirst(stale) \in Seq(Versions)
    BY <2>4, <2>5
  <2>7. all \in Seq(Versions)
    BY <2>2, <2>6
  <2> HIDE DEF all, more
  <2>8. QED
    BY <2>1, <2>2, <2>3, <2>4, <2>7 DEF WalkState
<1>3. QED
  BY <1>1, <1>2

LEMMA WalkIs ==
    ASSUME LineageInv, NEW id \in Versions, NEW t, NEW audience, NEW visits \in Nat
    PROVE  \E W : /\ W[0] = Start(id)
                  /\ \A d \in 1 .. visits : W[d] = WalkStep(W[d - 1], t, audience)
                  /\ Walk(id, t, audience, visits) = W[visits]
<1> DEFINE Fits(f) == f = [d \in 0 .. visits |->
                             IF d = 0 THEN [frontier |-> <<id>>, visited |-> {}, best |-> {}]
                             ELSE IF f[d - 1].frontier = <<>> THEN f[d - 1]
                             ELSE Visit(f[d - 1], t, audience)]
           W == CHOOSE f : Fits(f)
<1>1. Walk(id, t, audience, visits) = W[visits]
  BY DEF Walk
<1>2. \A d \in 0 .. visits : d # 0 => d \in 1 .. visits /\ d - 1 \in 0 .. visits
  OBVIOUS
<1>3. \E f : Fits(f)
  <2>1. PICK S : S = WalkState
    OBVIOUS
  <2>2. PICK one : one = [w \in S |-> WalkStep(w, t, audience)]
    OBVIOUS
  <2>3. one \in [S -> S]
    BY <2>1, <2>2, WalkStepTyped
  <2>4. PICK step : step = [d \in 1 .. visits |-> one]
    OBVIOUS
  <2>5. step \in [1 .. visits -> [S -> S]]
    BY <2>3, <2>4
  <2> DEFINE start == [frontier |-> <<id>>, visited |-> {}, best |-> {}]
  <2>6. start \in S
    BY <2>1 DEF WalkState
  <2> HIDE DEF start
  <2>7. \E f \in [0 .. visits -> S] : Steps(f, visits, start, step)
    BY <2>5, <2>6, Recursion
  <2>8. PICK f \in [0 .. visits -> S] : f[0] = start /\ \A i \in 1 .. visits : f[i] = step[i][f[i - 1]]
    BY <2>7 DEF Steps
  <2>9. \A d \in 1 .. visits : f[d] = WalkStep(f[d - 1], t, audience)
    <3>1. \A d \in 1 .. visits : d - 1 \in 0 .. visits
      OBVIOUS
    <3>2. \A d \in 1 .. visits : f[d - 1] \in S /\ step[d] = one
      BY <2>4, <3>1
    <3>3. QED
      BY <2>2, <2>8, <3>2
  <2>10. f = [d \in 0 .. visits |-> f[d]]
    OBVIOUS
  <2>11. \A d \in 0 .. visits :
           f[d] = IF d = 0 THEN start
                  ELSE IF f[d - 1].frontier = <<>> THEN f[d - 1]
                  ELSE Visit(f[d - 1], t, audience)
    BY <1>2, <2>8, <2>9 DEF WalkStep
  <2>12. f = [d \in 0 .. visits |-> IF d = 0 THEN start
                  ELSE IF f[d - 1].frontier = <<>> THEN f[d - 1]
                  ELSE Visit(f[d - 1], t, audience)]
    BY <2>10, <2>11
  <2>13. Fits(f)
    BY <2>12 DEF start
  <2> HIDE DEF Fits
  <2>14. QED
    BY <2>13
<1>4. Fits(W)
  <2> HIDE DEF Fits
  <2>1. QED
    BY <1>3
<1> HIDE DEF W
<1>5. W[0] = Start(id)
  BY <1>4 DEF Start
<1>6. \A d \in 1 .. visits : W[d] = WalkStep(W[d - 1], t, audience)
  <2>1. \A d \in 1 .. visits : d \in 0 .. visits /\ d # 0
    OBVIOUS
  <2>2. \A d \in 1 .. visits : W[d] = IF W[d - 1].frontier = <<>> THEN W[d - 1]
                                      ELSE Visit(W[d - 1], t, audience)
    BY <1>4, <2>1
  <2> HIDE DEF Fits
  <2>3. QED
    BY <2>2 DEF WalkStep
<1>7. QED
  BY <1>1, <1>5, <1>6

\* lib.rs:8426: the walk of MAX_LINEAGE_DEPTH visits from a replaced thought ends at
\* one that is live, and finds nothing for a thought that was not replaced yet.
LEMMA WalkFinds ==
    ASSUME LineageInv, NEW id \in Versions, NEW t, NEW audience
    PROVE  /\ Walk(id, t, audience, MaxDepth).best \subseteq LiveAt(t, audience)
           /\ InvalidatedAt(id, t, audience) => Walk(id, t, audience, MaxDepth).best # {}
           /\ Replacing(id, t, audience) = {} => Walk(id, t, audience, MaxDepth).best = {}
<1>0. MaxDepth \in Nat /\ MaxDepth # 0
  BY LineageAssumption
<1>1. PICK W : /\ W[0] = Start(id)
               /\ \A d \in 1 .. MaxDepth : W[d] = WalkStep(W[d - 1], t, audience)
               /\ Walk(id, t, audience, MaxDepth) = W[MaxDepth]
  BY <1>0, WalkIs
<1> DEFINE Keeps(w) == w \in WalkState /\ w.best \subseteq LiveAt(t, audience)
           Onward(w, d) == InvalidatedAt(id, t, audience) => OnTheWay(w, d, t, audience)
           Empty(w) == w.frontier = <<>> /\ w.best = {}
           T == {d \in 0 .. MaxDepth : Keeps(W[d]) /\ Onward(W[d], d)}
<1>2. Start(id) \in WalkState /\ Start(id).best = {} /\ Start(id).visited = {}
      /\ Start(id).frontier = <<id>> /\ Start(id).frontier # <<>> /\ Last(Start(id).frontier) = id
  BY DEF Start, WalkState, Last
<1>3. 0 \in T
  <2>1. Keeps(Start(id))
    BY <1>2
  <2>2. ChainLengths[id] > 0
    BY LineageAssumption DEF LineageInv, NoneTooLong
  <2>3. Onward(Start(id), 0)
    BY <1>2, <2>2 DEF OnTheWay
  <2>4. 0 \in 0 .. MaxDepth
    BY <1>0
  <2> HIDE DEF Keeps, Onward
  <2>5. QED
    BY <1>1, <2>1, <2>3, <2>4
<1>4. ASSUME NEW d \in 0 .. MaxDepth - 1, d \in T PROVE d + 1 \in T
  <2>1. d + 1 \in 1 .. MaxDepth /\ d + 1 \in 0 .. MaxDepth /\ d + 1 - 1 = d /\ d \in Nat
    BY <1>0
  <2>2. W[d + 1] = WalkStep(W[d], t, audience)
    BY <1>1, <2>1
  <2>3. Keeps(W[d]) /\ Onward(W[d], d)
    BY <1>4
  <2> DEFINE w == W[d]
             v == W[d + 1]
  <2> HIDE DEF w, v, T
  <2>4. v = WalkStep(w, t, audience) /\ w \in WalkState /\ w.best \subseteq LiveAt(t, audience)
        /\ Onward(w, d)
    BY <2>2, <2>3 DEF w, v
  <2>5. Keeps(v) /\ Onward(v, d + 1)
    <3>1. CASE w.frontier = <<>>
      <4>1. v = w
        BY <2>4, <3>1 DEF WalkStep
      <4>2. InvalidatedAt(id, t, audience) => w.best # {}
        BY <2>4, <3>1 DEF OnTheWay
      <4>3. QED
        BY <2>4, <4>1, <4>2 DEF OnTheWay
    <3>2. CASE w.frontier # <<>>
      <4>1. v = Visit(w, t, audience)
        BY <2>4, <3>2 DEF WalkStep
      <4>2. Keeps(v)
        BY <2>4, <3>2, <4>1, VisitKeeps
      <4>3. Onward(v, d + 1)
        BY <2>1, <2>4, <3>2, <4>1, VisitGetsOn
      <4>4. QED
        BY <4>2, <4>3
    <3>3. QED
      BY <3>1, <3>2
  <2> HIDE DEF Keeps, Onward
  <2>6. Keeps(W[d + 1]) /\ Onward(W[d + 1], d + 1)
    BY <2>5 DEF v
  <2>7. QED
    BY <2>1, <2>6 DEF T
<1>5. Keeps(W[MaxDepth]) /\ Onward(W[MaxDepth], MaxDepth)
  <2> HIDE DEF Keeps, Onward, T
  <2>1. \A d \in 0 .. MaxDepth - 1 : d \in T => d + 1 \in T
    BY <1>4
  <2>2. \A d \in 0 .. MaxDepth : d \in T
    BY <1>0, <1>3, <2>1, CountUp
  <2>3. MaxDepth \in T
    BY <1>0, <2>2
  <2>4. QED
    BY <2>3 DEF T
<1> DEFINE end == W[MaxDepth]
<1> HIDE DEF end
<1>6. Keeps(end) /\ Onward(end, MaxDepth) /\ Walk(id, t, audience, MaxDepth) = end
  BY <1>1, <1>5 DEF end
<1>7. InvalidatedAt(id, t, audience) => end.best # {}
  <2>1. SUFFICES ASSUME end.frontier # <<>>, ChainLengths[Last(end.frontier)] > MaxDepth PROVE FALSE
    BY <1>6 DEF OnTheWay
  <2>2. end.frontier \in Seq(Versions)
    BY <1>6 DEF WalkState
  <2>3. Last(end.frontier) \in Versions
    BY <2>1, <2>2, FrontAndLast
  <2>4. \A v \in Versions : ChainLengths[v] \in 1 .. MaxDepth
    BY DEF LineageInv, NoneTooLong
  <2> DEFINE a == ChainLengths[Last(end.frontier)]
  <2>5. a \in 1 .. MaxDepth /\ a > MaxDepth
    BY <2>1, <2>3, <2>4
  <2> HIDE DEF a
  <2>6. QED
    BY <1>0, <2>5
<1>8. ASSUME Replacing(id, t, audience) = {} PROVE end.best = {}
  <2> DEFINE E == {d \in 0 .. MaxDepth : d = 0 \/ Empty(W[d])}
  <2>1. 0 \in E
    BY <1>0
  <2>2. ASSUME NEW d \in 0 .. MaxDepth - 1, d \in E PROVE d + 1 \in E
    <3>1. d + 1 \in 1 .. MaxDepth /\ d + 1 \in 0 .. MaxDepth /\ d + 1 - 1 = d
      BY <1>0
    <3>2. W[d + 1] = WalkStep(W[d], t, audience)
      BY <1>1, <3>1
    <3>3. CASE d = 0
      <4> DEFINE stale == {m \in Replacing(id, t, audience) : InvalidatedAt(m, t, audience)}
                 s == Start(id)
      <4>1. stale = {} /\ Replacing(id, t, audience) \ stale = {}
        BY <1>8
      <4>2. Front(<<id>>) = <<>>
        BY DEF Front
      <4>3. OldestFirst({}) = <<>>
        <5>1. OldestFirst({}) \in Seq({})
          BY OldestFirstIs
        <5>2. QED
          BY <5>1
      <4>4. W[d + 1] = Visit(s, t, audience)
        BY <1>1, <1>2, <3>2, <3>3 DEF WalkStep
      <4> HIDE DEF s
      <4>5. s.frontier = <<id>> /\ s.visited = {} /\ s.best = {} /\ Last(s.frontier) = id
        BY <1>2 DEF s
      <4>6. Visit(s, t, audience) = [frontier |-> Front(<<id>>) \o OldestFirst(stale),
                visited |-> {} \cup {id}, best |-> {} \cup (Replacing(id, t, audience) \ stale)]
        BY <4>5 DEF Visit
      <4>7. Visit(s, t, audience) = [frontier |-> <<>> \o <<>>, visited |-> {id}, best |-> {}]
        BY <4>1, <4>2, <4>3, <4>6
      <4>8. <<>> \o <<>> = <<>>
        OBVIOUS
      <4>9. Empty(W[d + 1])
        BY <4>4, <4>7, <4>8
      <4>10. QED
        BY <3>1, <4>9
    <3>4. CASE d # 0
      <4>1. Empty(W[d])
        BY <2>2, <3>4
      <4>2. W[d + 1] = W[d]
        BY <3>2, <4>1 DEF WalkStep
      <4>3. QED
        BY <3>1, <4>1, <4>2
    <3>5. QED
      BY <3>3, <3>4
  <2> HIDE DEF E
  <2>3. \A d \in 0 .. MaxDepth - 1 : d \in E => d + 1 \in E
    BY <2>2
  <2>4. \A d \in 0 .. MaxDepth : d \in E
    BY <1>0, <2>1, <2>3, CountUp
  <2>5. MaxDepth \in E
    BY <1>0, <2>4
  <2>6. QED
    BY <1>0, <2>5 DEF E, end
<1>9. QED
  BY <1>6, <1>7, <1>8

LEMMA SuccessorIs ==
    ASSUME LineageInv, NEW id \in Versions, NEW t, NEW audience
    PROVE  /\ LiveSuccessor(id, t, audience) \in LiveAt(t, audience) \cup {None}
           /\ InvalidatedAt(id, t, audience) =>
                LiveSuccessor(id, t, audience) \in LiveAt(t, audience)
           /\ Replacing(id, t, audience) = {} => LiveSuccessor(id, t, audience) = None
<1> DEFINE best == Walk(id, t, audience, MaxDepth).best
<1>1. /\ best \subseteq LiveAt(t, audience)
      /\ InvalidatedAt(id, t, audience) => best # {}
      /\ Replacing(id, t, audience) = {} => best = {}
  BY WalkFinds
<1>2. LiveSuccessor(id, t, audience) = NewestOf(best)
  BY DEF LiveSuccessor, WalkedSuccessor
<1> HIDE DEF best
<1>3. best \subseteq Versions
  BY <1>1 DEF LiveAt
<1>4. best # {} => NewestOf(best) \in best
  BY <1>3, NewestIs
<1>5. best = {} => NewestOf(best) = None
  BY DEF NewestOf
<1>6. QED
  BY <1>1, <1>2, <1>4, <1>5

LEMMA ContesterIs ==
    ASSUME LineageInv, NEW id \in Versions, NEW t, NEW audience
    PROVE  /\ LiveContester(id, t, audience) \in LiveAt(t, audience) \cup {None}
           /\ LiveContester(id, t, audience) # id
<1> DEFINE others == {m \in {e.by : e \in {x \in VisibleEdges(id, t, audience) :
                                             ~ x.link.strong /\ Authorized(x)}} :
                        ~ InvalidatedAt(m, t, audience)}
<1>1. LiveContester(id, t, audience) = NewestOf(others)
  BY DEF LiveContester
<1>2. \A m \in others : m \in LiveAt(t, audience) /\ m > id /\ m \in Versions
  <2>1. SUFFICES ASSUME NEW m \in others PROVE m \in LiveAt(t, audience) /\ m > id /\ m \in Versions
    OBVIOUS
  <2>2. ~ InvalidatedAt(m, t, audience) /\ \E e \in VisibleEdges(id, t, audience) : e.by = m
    OBVIOUS
  <2>3. PICK e \in EdgesInto(id) : e.by = m /\ Visible(m, audience)
    BY <2>2 DEF VisibleEdges
  <2>4. m \in Versions /\ m > id
    BY <2>3, EdgesAre
  <2>5. QED
    BY <2>2, <2>3, <2>4 DEF LiveAt
<1> HIDE DEF others
<1>3. others # {} => NewestOf(others) \in others
  BY <1>2, NewestIs
<1>4. others = {} => NewestOf(others) = None
  BY DEF NewestOf
<1>5. id \in Nat /\ id # None /\ ~ (id > id)
  BY VersionsAre DEF None
<1>6. QED
  BY <1>1, <1>2, <1>3, <1>4, <1>5

LEMMA FindsLiveHolds == LineageInv => FindsLive
<1>1. SUFFICES ASSUME LineageInv, NEW id \in Versions, NEW t, NEW audience
      PROVE  LET live == LiveSuccessor(id, t, audience)
             IN IF InvalidatedAt(id, t, audience)
                  THEN live # None /\ Visible(live, audience) /\ ~ InvalidatedAt(live, t, audience)
                  ELSE live = None \/ ~ InvalidatedNow(id, audience)
  BY DEF FindsLive
<1>2. 0 \notin Versions
  BY <1>1, VersionsAre
<1>3. CASE InvalidatedAt(id, t, audience)
  BY <1>1, <1>2, <1>3, SuccessorIs DEF LiveAt, None
<1>4. CASE ~ InvalidatedAt(id, t, audience)
  BY <1>1, <1>4, SuccessorIs, ReplacedIs
<1>5. QED
  BY <1>3, <1>4

-----------------------------------------------------------------------------
(* Pages of hits. *)

LEMMA NewInjective ==
    ASSUME NEW S, NEW s \in Seq(S), IsInjective(s), NEW x, x \notin Range(s)
    PROVE  IsInjective(Append(s, x))
<1> SUFFICES ASSUME NEW all, all = Append(s, x) PROVE IsInjective(all)
  BY Zenon
<1>0. PICK n : n = Len(s)
  OBVIOUS
<1>1. /\ DOMAIN all = 1 .. n + 1 /\ DOMAIN s = 1 .. n /\ n \in Nat
      /\ \A i \in 1 .. n : all[i] = s[i]
      /\ all[n + 1] = x
  BY <1>0
<1>2. \A i \in 1 .. n + 1 : i \in 1 .. n \/ i = n + 1
  BY <1>1
<1>3. \A i \in 1 .. n : s[i] # x
  BY <1>1 DEF Range
<1>4. \A i, j \in 1 .. n : s[i] = s[j] => i = j
  BY <1>1 DEF IsInjective
<1>5. \A i, j \in 1 .. n + 1 : all[i] = all[j] => i = j
  BY <1>1, <1>2, <1>3, <1>4
<1>6. IsInjective(all)
  BY <1>1, <1>5 DEF IsInjective
<1>7. QED
  BY <1>6

LEMMA PutIs ==
    ASSUME NEW S, NEW page \in Seq(S), NEW m \in S \cup {None}
    PROVE  /\ Put(page, m) \in Seq(S)
           /\ Range(page) \subseteq Range(Put(page, m))
           /\ Range(Put(page, m)) \subseteq Range(page) \cup {m}
           /\ m # None => m \in Range(Put(page, m))
           /\ IsInjective(page) => IsInjective(Put(page, m))
<1>1. CASE m = None \/ m \in Range(page)
  BY <1>1 DEF Put
<1>2. CASE ~ (m = None \/ m \in Range(page))
  <2>1. Put(page, m) = Append(page, m) /\ m \in S /\ m \notin Range(page)
    BY <1>2 DEF Put
  <2>2. Append(page, m) \in Seq(S)
    BY <2>1
  <2>3. Range(Append(page, m)) = Range(page) \cup {m}
    BY RangeOfAppend
  <2>4. IsInjective(page) => IsInjective(Append(page, m))
    BY <2>1, NewInjective, Zenon
  <2> DEFINE all == Append(page, m)
  <2> HIDE DEF all
  <2>5. Put(page, m) = all /\ all \in Seq(S) /\ Range(all) = Range(page) \cup {m}
        /\ (IsInjective(page) => IsInjective(all))
    BY <2>1, <2>2, <2>3, <2>4, Zenon DEF all
  <2>6. QED
    BY <2>5
<1>3. QED
  BY <1>1, <1>2

\* What a page owes to a hit.
Stands(hit, page, t, audience) ==
    IF InvalidatedAt(hit, t, audience)
      THEN LiveSuccessor(hit, t, audience) \in Range(page)
      ELSE hit \in Range(page)

LEMMA ShowIs ==
    ASSUME LineageInv, NEW t, NEW audience, NEW page \in Seq(LiveAt(t, audience)),
           NEW hit \in Versions, Visible(hit, audience)
    PROVE  /\ Show(page, hit, t, audience) \in Seq(LiveAt(t, audience))
           /\ Range(page) \subseteq Range(Show(page, hit, t, audience))
           /\ Stands(hit, Show(page, hit, t, audience), t, audience)
           /\ IsInjective(page) => IsInjective(Show(page, hit, t, audience))
<1> DEFINE S == LiveAt(t, audience)
           next == LiveSuccessor(hit, t, audience)
           other == LiveContester(hit, t, audience)
<1>1. other \in S \cup {None} /\ other # hit
  BY ContesterIs
<1>2. InvalidatedAt(hit, t, audience) => next \in S /\ next # None
  <2>1. 0 \notin Versions
    BY VersionsAre
  <2>2. InvalidatedAt(hit, t, audience) => next \in S
    BY SuccessorIs
  <2>3. QED
    BY <2>1, <2>2 DEF LiveAt, None
<1> HIDE DEF next, other
<1>3. CASE hit \in Range(page)
  <2>1. Show(page, hit, t, audience) = page
    BY <1>3 DEF Show
  <2>2. hit \in S
    <3> HIDE DEF S
    <3>1. page \in Seq(S)
      BY DEF S
    <3>2. \A i \in DOMAIN page : page[i] \in S
      BY <3>1
    <3>3. QED
      BY <1>3, <3>2 DEF Range
  <2>3. ~ InvalidatedAt(hit, t, audience)
    BY <2>2 DEF LiveAt
  <2>4. QED
    BY <1>3, <2>1, <2>3 DEF Stands
<1>4. CASE hit \notin Range(page) /\ InvalidatedAt(hit, t, audience)
  <2>1. Show(page, hit, t, audience) = Put(page, next)
    BY <1>4 DEF Show, next
  <2> HIDE DEF S
  <2>2. page \in Seq(S) /\ next \in S \cup {None} /\ next # None
    BY <1>2, <1>4 DEF S
  <2>3. /\ Put(page, next) \in Seq(S) /\ Range(page) \subseteq Range(Put(page, next))
        /\ next \in Range(Put(page, next))
        /\ IsInjective(page) => IsInjective(Put(page, next))
    BY <2>2, PutIs
  <2>4. QED
    BY <1>4, <2>1, <2>3 DEF Stands, next, S
<1>5. CASE hit \notin Range(page) /\ ~ InvalidatedAt(hit, t, audience)
  <2> DEFINE put == Put(page, other)
  <2>1. Show(page, hit, t, audience) = Append(put, hit)
    BY <1>5 DEF Show, other
  <2>2. hit \in S
    BY <1>5 DEF LiveAt
  <2> HIDE DEF S
  <2>3. page \in Seq(S)
    BY DEF S
  <2>4. /\ put \in Seq(S) /\ Range(page) \subseteq Range(put) /\ Range(put) \subseteq Range(page) \cup {other}
        /\ IsInjective(page) => IsInjective(put)
    BY <1>1, <2>3, PutIs
  <2>5. hit \notin Range(put)
    BY <1>1, <1>5, <2>4
  <2> HIDE DEF put
  <2>6. Range(Append(put, hit)) = Range(put) \cup {hit} /\ Append(put, hit) \in Seq(S)
    BY <2>2, <2>4, RangeOfAppend
  <2>7. IsInjective(page) => IsInjective(Append(put, hit))
    BY <2>4, <2>5, NewInjective, Zenon
  <2> DEFINE all == Append(put, hit)
  <2>8. /\ Show(page, hit, t, audience) = all /\ Range(all) = Range(put) \cup {hit}
        /\ all \in Seq(S) /\ (IsInjective(page) => IsInjective(all))
    BY <2>1, <2>6, <2>7, Zenon
  <2> HIDE DEF all
  <2>9. QED
    BY <1>5, <2>4, <2>8 DEF Stands, S
<1>6. QED
  BY <1>3, <1>4, <1>5

\* Whatever the hits, the page holds live thoughts, none twice, and what it owes each hit.
LEMMA PageIs ==
    ASSUME LineageInv, NEW t, NEW audience, NEW hits \in Seq(Versions),
           \A id \in Range(hits) : Visible(id, audience)
    PROVE  /\ Redirected(hits, t, audience) \in Seq(LiveAt(t, audience))
           /\ IsInjective(Redirected(hits, t, audience))
           /\ \A id \in Range(hits) : Stands(id, Redirected(hits, t, audience), t, audience)
<1>0. PICK N \in Nat : N = Len(hits)
  OBVIOUS
<1> DEFINE Fits(f) == f = [n \in 0 .. N |->
                             IF n = 0 THEN <<>> ELSE Show(f[n - 1], hits[n], t, audience)]
           P == CHOOSE f : Fits(f)
<1>1. Redirected(hits, t, audience) = P[N]
  BY <1>0 DEF Redirected
<1>2. PICK S : S = LiveAt(t, audience)
  OBVIOUS
<1>3. \A n \in 1 .. N : hits[n] \in Versions /\ Visible(hits[n], audience)
  BY <1>0 DEF Range
<1>4. \A n \in 0 .. N : n # 0 => n \in 1 .. N /\ n - 1 \in 0 .. N
  OBVIOUS
<1>5. \E f : Fits(f)
  <2>1. PICK step : step = [n \in 1 .. N |-> [page \in Seq(S) |-> Show(page, hits[n], t, audience)]]
    OBVIOUS
  <2>2. \A n \in 1 .. N : \A page \in Seq(S) : Show(page, hits[n], t, audience) \in Seq(S)
    BY <1>2, <1>3, ShowIs
  <2> DEFINE pages == Seq(S)
             none == <<>>
  <2>3. none \in pages
    OBVIOUS
  <2> HIDE DEF pages, none
  <2>4. step \in [1 .. N -> [pages -> pages]]
    BY <2>1, <2>2 DEF pages
  <2>5. \E f \in [0 .. N -> pages] : Steps(f, N, none, step)
    BY <2>3, <2>4, Recursion
  <2>6. PICK f \in [0 .. N -> pages] : f[0] = none /\ \A i \in 1 .. N : f[i] = step[i][f[i - 1]]
    BY <2>5 DEF Steps
  <2>7. \A i \in 1 .. N : f[i] = Show(f[i - 1], hits[i], t, audience)
    <3>1. \A i \in 1 .. N : f[i - 1] \in pages
      BY <1>4
    <3>2. QED
      BY <2>1, <2>6, <3>1 DEF pages
  <2>8. f = [n \in 0 .. N |-> f[n]]
    OBVIOUS
  <2>9. f = [n \in 0 .. N |-> IF n = 0 THEN none ELSE Show(f[n - 1], hits[n], t, audience)]
    BY <1>4, <2>6, <2>7, <2>8
  <2>10. Fits(f)
    BY <2>9 DEF none
  <2> HIDE DEF Fits
  <2>11. QED
    BY <2>10
<1>6. Fits(P)
  <2> HIDE DEF Fits
  <2>1. QED
    BY <1>5
<1> HIDE DEF P
<1>7. P[0] = <<>> /\ \A i \in 1 .. N : P[i] = Show(P[i - 1], hits[i], t, audience)
  <2>1. \A i \in 1 .. N : i \in 0 .. N /\ i # 0
    OBVIOUS
  <2>2. 0 \in 0 .. N
    OBVIOUS
  <2>3. QED
    BY <1>6, <2>1, <2>2
<1> HIDE DEF Fits
<1> DEFINE Fine(page, n) == /\ page \in Seq(S) /\ IsInjective(page)
                            /\ \A i \in 1 .. n : Stands(hits[i], page, t, audience)
           T == {n \in 0 .. N : Fine(P[n], n)}
<1>8. 0 \in T
  <2>1. <<>> \in Seq(S) /\ IsInjective(<<>>) /\ 0 \in 0 .. N
    BY DEF IsInjective
  <2>2. Fine(<<>>, 0)
    BY <2>1
  <2> HIDE DEF Fine
  <2>3. QED
    BY <1>7, <2>1, <2>2
<1>9. ASSUME NEW n \in 0 .. N - 1, n \in T PROVE n + 1 \in T
  <2>1. n + 1 \in 1 .. N /\ n + 1 \in 0 .. N /\ n + 1 - 1 = n
    OBVIOUS
  <2>2. PICK page, next, hit : page = P[n] /\ next = P[n + 1] /\ hit = hits[n + 1]
    OBVIOUS
  <2>3. next = Show(page, hit, t, audience)
    BY <1>7, <2>1, <2>2
  <2>4. Fine(page, n)
    BY <1>9, <2>2
  <2>5. hit \in Versions /\ Visible(hit, audience)
    BY <1>3, <2>1, <2>2
  <2>6. /\ next \in Seq(S) /\ Range(page) \subseteq Range(next)
        /\ Stands(hit, next, t, audience) /\ IsInjective(next)
    BY <1>2, <2>3, <2>4, <2>5, ShowIs
  <2>7. \A i \in 1 .. n : Stands(hits[i], next, t, audience)
    BY <2>4, <2>6 DEF Stands
  <2>8. \A i \in 1 .. n + 1 : i \in 1 .. n \/ i = n + 1
    OBVIOUS
  <2>9. Fine(next, n + 1)
    BY <2>2, <2>6, <2>7, <2>8
  <2> HIDE DEF Fine
  <2>10. QED
    BY <2>1, <2>2, <2>9
<1> HIDE DEF T, Fine
<1>10. Fine(P[N], N)
  <2>1. \A n \in 0 .. N - 1 : n \in T => n + 1 \in T
    BY <1>9
  <2>2. \A n \in 0 .. N : n \in T
    BY <1>8, <2>1, CountUp
  <2>3. N \in 0 .. N
    OBVIOUS
  <2>4. QED
    BY <2>2, <2>3 DEF T
<1>11. PICK page : page = P[N]
  OBVIOUS
<1>12. page \in Seq(S) /\ IsInjective(page) /\ \A i \in 1 .. N : Stands(hits[i], page, t, audience)
  BY <1>10, <1>11 DEF Fine
<1>13. \A id \in Range(hits) : Stands(id, page, t, audience)
  <2>1. \A id \in Range(hits) : \E i \in 1 .. N : id = hits[i]
    BY <1>0 DEF Range
  <2>2. QED
    BY <1>12, <2>1
<1>14. QED
  BY <1>1, <1>2, <1>11, <1>12, <1>13

LEMMA ReverseIs ==
    ASSUME NEW S, NEW s \in Seq(S)
    PROVE  Reverse(s) \in Seq(S) /\ Range(Reverse(s)) = Range(s)
<1>0. PICK n \in Nat : n = Len(s)
  OBVIOUS
<1>1. PICK r : r = Reverse(s)
  OBVIOUS
<1>2. r = [i \in 1 .. n |-> s[(n - i) + 1]]
  BY <1>0, <1>1 DEF Reverse
<1>3. DOMAIN s = 1 .. n /\ \A i \in 1 .. n : s[i] \in S
  BY <1>0
<1>4. \A i \in 1 .. n : (n - i) + 1 \in 1 .. n /\ (n - ((n - i) + 1)) + 1 = i
  OBVIOUS
<1>5. r \in [1 .. n -> S]
  BY <1>2, <1>3, <1>4
<1>6. r \in Seq(S)
  BY <1>5
<1>7. Range(r) = Range(s)
  <2>1. DOMAIN r = 1 .. n /\ \A i \in 1 .. n : r[i] = s[(n - i) + 1]
    BY <1>2
  <2>2. \A i \in 1 .. n : r[(n - i) + 1] = s[i]
    BY <1>4, <2>1
  <2>3. QED
    BY <1>3, <1>4, <2>1, <2>2 DEF Range
<1>8. QED
  BY <1>1, <1>6, <1>7

LEMMA HitsAreCurrentHolds == LineageInv => HitsAreCurrent
<1>1. SUFFICES ASSUME LineageInv, NEW audience,
                      NEW hits \in {OldestFirst({id \in Versions : Visible(id, audience)}),
                                    Reverse(OldestFirst({id \in Versions : Visible(id, audience)}))}
      PROVE  LET page == Redirected(hits, time, audience)
             IN /\ IsInjective(page)
                /\ \A id \in Range(page) : Visible(id, audience) /\ ~ InvalidatedAt(id, time, audience)
                /\ \A id \in Range(hits) :
                     IF InvalidatedAt(id, time, audience)
                       THEN LiveSuccessor(id, time, audience) \in Range(page)
                       ELSE id \in Range(page)
  BY DEF HitsAreCurrent
<1>2. PICK seen : seen = {id \in Versions : Visible(id, audience)}
  OBVIOUS
<1>3. PICK first : first = OldestFirst(seen)
  OBVIOUS
<1>4. first \in Seq(seen) /\ Range(first) = seen /\ seen \subseteq Versions
  BY <1>1, <1>2, <1>3, OldestFirstIs
<1>5. first \in Seq(Versions)
  BY <1>4
<1>6. hits \in Seq(Versions) /\ Range(hits) = seen
  BY <1>2, <1>3, <1>4, <1>5, ReverseIs
<1>7. PICK t : t = time
  OBVIOUS
<1>8. PICK page : page = Redirected(hits, t, audience)
  OBVIOUS
<1>9. /\ page \in Seq(LiveAt(t, audience)) /\ IsInjective(page)
      /\ \A id \in Range(hits) : Stands(id, page, t, audience)
  BY <1>1, <1>2, <1>6, <1>8, PageIs
<1>10. \A id \in Range(page) : Visible(id, audience) /\ ~ InvalidatedAt(id, t, audience)
  <2>1. PICK S : S = LiveAt(t, audience)
    OBVIOUS
  <2>2. page \in Seq(S)
    BY <1>9, <2>1
  <2>3. \A id \in Range(page) : id \in S
    BY <2>2 DEF Range
  <2>4. QED
    BY <2>1, <2>3 DEF LiveAt
<1>11. QED
  BY <1>7, <1>8, <1>9, <1>10 DEF Stands

\* lib.rs:8426 and lineage.rs:791: whatever order of replacements, windows and private
\* links a chain was given, the bounded walk from a replaced thought ends at a live one,
\* and a page of hits holds what is live, for every chain, depth, window and audience.
THEOREM ReadersAlwaysFindLive == LineageSpec => []ReadersFindLive
<1>1. LineageInv => ReadersFindLive
  BY FindsLiveHolds, HitsAreCurrentHolds DEF ReadersFindLive
<1>2. QED
  BY LineageStarts, LineageKeeps, <1>1, PTL DEF LineageSpec

===============================================================================
