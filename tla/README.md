# MentisDB verification

TLA+ models of MentisDB (the Rust crate under `src/src/`), the TLC runs that
check them on small instances, and proofs about them that TLAPS checks for every
value of the constants. Source positions below are relative to `src/src/`.

- [The system](#the-system): its parts, their state, how they interact
- [The modules](#the-modules): which models what, and how it corresponds
- [The runs](#the-runs): what each asks, its bounds, its fairness
- [The proofs](#the-proofs)
- [What the models show](#what-the-models-show): where code and promise differ
- [Not modelled](#not-modelled) and [the plan](#the-plan)

## The system

MentisDB is an append-only, hash-chained memory for agents. A daemon
(`bin/mentisdb.rs`, `server.rs`) serves many chains over REST and MCP; a
dashboard and a command line act on the same directory, sometimes from other
processes.

| Part | State it keeps | Operations | Where it is hard |
|---|---|---|---|
| Chain file and background writer (`lib.rs`, `BinaryStorageAdapter`) | file, write buffer, command channel, error slot, chain in memory | append (durable or buffered), flush, mode switch, drop, open | two threads; group commits; writes, syncs and rollbacks that fail; crash and power loss |
| Vector sidecar (`search/sidecar.rs`) | snapshot file, log file, pending records | flush, compaction, rebuild, load | three threads on two files without a common lock; crash between two files |
| Embedding pipeline (`lib.rs`, `server.rs`) | tickets, parked vectors, missing and in-flight sets, repair and rebuild jobs | deferred and synchronous append, commit, repair, rebuild, idle poll | results in any order; lost tickets; panics; retries |
| Access control and checkpoints (`lib.rs`, `access.rs`, `audience.rs`, `operator.rs`, `signing.rs`) | policy, segments, key registry, verified-prefix checkpoint, quarantine | append under a policy, set mode, allow and deny keys, register and revoke keys, open with verification | several files saved apart from each other; memory against replay; what an event may show |
| Chain migration (`migration/engine.rs`) | live, staged and backup files, journal, registry, derived files | migrate, recover, roll back, skip, retry, purge | a kill or failure between any two file operations |
| Migration manager (`migration/manager.rs`) | queue, statuses, outstanding count | start, retry, skip, gate, wait_idle, shutdown | worker threads, condition variable, commands that overlap with runs |
| Skill registry (`skills.rs`) | one file, a copy per process, summaries and indexes | upload, deprecate, revoke, delete, refresh | several holders of one file; operations that return early in the middle |
| Webhook registry (`webhooks.rs`) | list in memory, one file | register, delete, restart | saves outside the lock through one temporary name |
| Webhook delivery (`webhooks.rs`) | queue, permits, circuit breaker | notify, deliver, retry | concurrent deliveries that end in any order; liveness |
| Request bodies (`server_body.rs`) | pools, per-peer counters, one clock per body | reserve, charge, return, time out | two-step charges of concurrent requests; window arithmetic |
| Bearer tokens (`auth.rs`) | token file, one cache and one buffer of usage times per store | create, revoke, delete, authorize, flush | several stores on one file; time stamps; failing saves |
| Signed reads (`read_auth.rs`, `server_lens.rs`) | nonce cache, one claim per request | verify a header, spend a nonce | times that do not come in order; limits |
| Chain cache (`server.rs`, `dashboard.rs`, `lib.rs`) | open chains, a mutex per key, the registry of chains | open or create once, branch, merge, delete, register | single flight across awaits; two services on one cache; clients that leave |
| Backup (`backup.rs`) | archive, staging directory | create, restore, import | a directory that changes while it is read; failure half way |
| Version lineage (`lineage.rs`) | links from new thoughts to old ones | append with links, ask for the current version | a bounded walk; windows of time; private links |
| Implicit edges (`lib.rs`, `search/implicit_edges.rs`, `search/vector_scan.rs`) | overlay of nearest neighbours, its file, queue of positions, one scan | follow a vector, scan, adopt, save, replay, rebuild | a scan off the lock while vectors and overlays change; a file that trails the chain |
| Queries (`lib.rs`, `search/lexical.rs`) | indexes by value, agent registry and its file, authors' text in the word index, who replaces whom, window of recent texts, a client's cursor | append, edit an agent, query, traverse page by page, close, crash | five structures that follow one chain, each brought up to date at other moments; readers while it grows |
| Ranking, standing context (`search/`, `standing.rs`) | derived structures | rank, select | mostly pure functions |

How they interact. An **append** goes through the server's chain lock into
`MentisDb::append_thought`: the access policy is asked (ChainAccess), the record
is handed to the storage adapter (GroupCommit), the chain in memory and the
registries change, an embedding ticket is issued (EmbedPipeline), whose vector
reaches the sidecar's log later (SidecarWal) and the implicit edges
(EdgeOverlay), the indexes and the agent registry follow (ChainQueries), and an
event goes to the webhooks (WebhookDelivery). **Opening** reads the chain file, replays the policy, checks
the checkpoint and loads the sidecar. Before a chain is opened at all, the
**migration gate** is asked (MigrationManager), whose workers run the engine
(MigrationEngine). The body of every request is metered before (BodyBudget,
BodyMeter). The registries of skills and webhooks are files of their own.

Correctness, per part: the chain file is contiguous, agrees with memory and
keeps what was acknowledged; the sidecar's two files replay to what was written;
every thought's vector is on its way; policy in memory and on disk agree and
hide what is private; a migration never serves half a chain and never loses
records; nobody waits for ever; budgets neither leak nor overflow.

## The modules

Each module names the code's functions in its comments, and `PROJECT.json` maps
every definition to its lines. Definitions headed "Variant" are plausible
mistakes in the definition that follows them: each property is shown to fail
when its variant takes the definition's place.

**GroupCommit** (with **AppendLog**, its abstract specification). The caller and
the writer thread of one chain. `pc` and `op` are the call in progress: the
adapter's mutex is held for the whole call, so one is enough. `wstate` and `job`
are the writer's loop; `queue` the bounded channel; `file`, `tail`, `stable` the
complete records in the file, whether a torn record follows, and how many are on
stable storage. One action per step of either thread, one for each way a file
operation can fail, `Crash`, `PowerFails` and `Open`. AppendLog says what a
chain's storage promises: a log that grows at its end and never loses what was
promised; the refinement maps the file and the records on their way to it to the
abstract log.

**SidecarWal**. Snapshot and log on disk as digests, the records pending in
memory, the flush lock, and the program counters of a compaction, a rebuild and
a loading thread; one action per file operation, faults and a crash in between.

**EmbedPipeline**. The state that the chain's write lock protects is one record,
`vectors`; what is done under one acquisition of the lock is one action, written
as a function of that record. Tickets, the repair and rebuild jobs and the guard
change outside the lock. A vector is reduced to whether a thought has it.

**EdgeOverlay** (with **MCEdges**, its instances). What the write lock protects is
one record, `handle`: the sidecar's thoughts in order, the positions whose vectors
are on their way, the overlay (edges, coverage mark, and as history which thoughts
were added to it, and which twice), `edge_queue`, the running scan with the
snapshot it has, and what is to be saved. What is done under one acquisition of
the lock is one action, written with functions of the record; the scan itself is
an action without the lock. `saved` and `sidecarFile` are what a crash leaves. A
list of neighbours is the set of its members, the second copy of one told from the
first. A scan of a snapshot finds what it will find when it starts, because the
snapshot does not change; the generation counter is left out because a job is
always forgotten together with its overlay. EmbedPipeline's protocol is reduced to
what it lets happen to the sidecar: a vector arrives in order, with those parked
behind it, or all are made again.

**ChainAccess**. One governed chain behind its handle: thoughts with their claimed
signer, the key that really signed and the head they cover; the key registry in
memory and on disk; the policy with its segments, quarantine and lock; the
checkpoint. One action per operation of operator, dashboard and agents, with the
ways its saves can fail, `Stop`, `PowerFails`, `DeleteCheckpoint` (what the
operator may do after inspecting a locked chain) and `Open`, which replays and
verifies. Hashes stand for the history they cover; signatures are whose key it was.

**MigrationEngine**. Content of a file is old, new, grown (appended to since),
partial or none. `pc` is the next step of the command in progress; the journal
in memory and on disk are separate. Failures, kills, clean stops, rollback with
and without force, skip, retry, purge and serving interleave.

**MigrationManager**. Workers and operators as program counters around the queue
mutex and its condition variable; a run of the engine is reduced to taking the
chain lock, journalling its start and one of its outcomes.

**SkillRegistry**. One file and a copy per holder; a request refreshes, lets the
lock go, takes it again, changes the copy in the code's order (early returns
included) and persists through one temporary name.

**WebhookRegistry** and **WebhookDelivery**. The registry by file operations, with
files told apart from names; the delivery with queue, permits, breaker and
retries, and endpoints that answer as they please.

**TokenStore** (with **TokenLedger**, its abstract specification, and **MCTokens**,
its instances). `tokenFile` and `tmp` are the two names under which a store
saves, each with the time stamp of its last write; `cached` and `unwritten` are
the server's `CachedBearerRecords` and `LastUsedState`; a `request` is one call of
one store, followed from one access of the file system to the next, with the
records it loaded. TokenLedger says what a token registry promises: a token is
issued once, revoked or deleted for good, and accepted only while it is live.

**NonceCache**. The clock, the date each proof
bears, the cache's queue and map, and each request from `read_auth_middleware`
(which takes the time) to `check_and_insert` (which is called with that time when
a handler first reads something private). The code bounds neither how long that
takes nor, beyond the test of the window, what a client's clock shows, and the
model does not either; the server's clock is the system's and may be set back
(`ClockIsSetBack`). `shown`, the latest time it has shown, is history.

**Lineage**. A chain of thoughts with links that replace (strong) or contest
older ones, each with a window; who may replace what once the chain is private;
the depth guard of an append; and, as operators, what readers make of it:
invalidation now and at a past moment, the bounded depth-first walk to the live
successor, and the redirection of a ranked page.

**ChainQueries** (with **MCQueries**, its instances). What an open chain answers.
`byAgent`, `byKind` and `byTag` are QueryIndexes, `replacing` is
`invalidating_edges`, `lexical` the author's text each document of the word index
was given, `hashes` what tells that it has changed, `window` the DedupTokenWindow;
`agents` is the registry in memory, `savedAgents` its file, `unsaved` what the
file lacks. `AppendDraft` is what `append_thought_inner` does to all of them, in
its order; `UpsertAgent` and `AddAlias` are the operator's edits; `CloseAndOpen`
and `CrashAndOpen` make everything again from the chain and the file. `Answer` is
`query` and `Page` is `traverse_thoughts`, through the candidates the indexes
choose or by a scan, as the code decides; `reader` is a client between two pages.

**BackupRestore**. Of a data directory, one chain file and its agent registry;
archives taken of them file by file while the source's daemon writes on; a
restore into another directory whose own daemon runs between restores, step by
step, stopped and begun again.

**ChainCache** (with **MCChainCache**, its instances). A request is one call of a
handler, a program counter with the handles and mutexes it has; any other
request may run at its awaits, where the code lets go of the thread. `cache` and
`lockOf` are `MentisDbService::chains` and `open_locks`; a `handle` is one opened
MentisDb with its own copy of the chain and its own file descriptor, alive as
long as the cache or a request refers to it; `store` the chain files and
`registry` the registry of chains, which `persist_chain_registration` reads and
writes under a lock (`saving`) and `deregister_chain` without one. Appends,
reads, `branch_chain`, `merge_chains`, `api_delete_chain`, `api_bootstrap_chain`
and `open_chain_unchecked` are modelled step by step, with file operations that
fail (`Fault`), requests whose client disconnects (`Cancel`: what waits is
dropped with its guards, what runs on the blocking pool runs on) and handles
that save a registration as they are dropped. The file writes of an append are
one step here; GroupCommit has them.

**BodyBudget** and **BodyMeter**. What a request charges and gives back, step by
step, and the clock of one body in ticks.

**MCServices**, **MCManager**, **MCVectors**, **MCHandles** and **MCAppends**
check modules that share no state in one run each: a behaviour follows one of
them (`half`) while the others stay as they were. Names that would clash carry a
prefix (`Hook...`, `Delivery...`, `Skills...`, `Budget...`). Where the parties of
a module are told apart by nothing but a number, its instance takes them in
order (`InOrder` of the signed reads and of the chains to migrate, `FirstIsOne` of
skills and their texts, `FirstComesFirst` of registrations, the first writer of
`LinksMatter`), and a party that changes nothing is left out where no property asks
about it (`LoadsBeforeRebuilds`, `ReadersAlone`, requests on chains nobody else uses
in `CallsMeet`). `TwoEvents`, `OneFailure`, `WindowsMeet`, `ThirdIsOfOne` and `SecondIsOfOne` are
bounds that say which of the rare events, or which dates of proofs, may come together. All of these are conjuncts
of an instance's steps; the modules, and so the proofs, do not have them.

**GroupCommitProofs** (GroupCommit and ChainQueries), **HandlesProofs** (ChainCache and MigrationEngine),
**ManagerProofs** (MigrationManager and Lineage), **TokenStoreProofs**, **AccessProofs**,
**SidecarProofs** (SidecarWal, EmbedPipeline and EdgeOverlay),
**DirectoryProofs** (BackupRestore and SkillRegistry) and **ServerProofs** (the webhooks, the bodies and
NonceCache) hold the theorems and their proofs.

Several modules state a `TypeOK` that no run lists: they hold in the instances of
the runs, but types alone would find little and the runs are spent on the
properties below. Where a module has proofs, its types are proved, alone or as a
part of its invariant.

## The runs

All bounds are CONSTANTS and appear in guards only to cap counters. Constants
that come from the code (capacities, attempts, thresholds) are small enough for
their limits to be reached.

| Run | Module | Asks | Bounds, and why they are enough |
|---|---|---|---|
| `appends` | MCAppends | GroupCommit: contiguous file that agrees with memory; acknowledged and flushed appends kept; every call returns; refines AppendLog. WebhookDelivery: one straggler per pause; every job ends. ChainQueries: what is kept beside the chain is what would be made anew; queries answer what a scan would; pages skip and repeat nothing | 3 appends fill a channel of 2 and a batch of 2 with one left over; one fault and one crash give a failure, its rollback and a reopening. 4 events, 2 permits, a breaker that trips at 2, a queue of 2. Queries: 3 thoughts of 4 drafts at 2 times that may go back: a window of 2 is left behind by an append without a comparison and brought up to date by the next; a name of two agents, an owner learnt late, a private thought, one tag within another; one edit, one failed save, one close or crash; all queries of up to two of 14 filters; pages of one thought, in both directions, with an index and without. Readers do not meet edits of the registry, which tell them nothing (`ReadersAlone`) |
| `entity_filter` | MCQueries | whether an entity type limits every query (it does not) | 2 thoughts, no edits and no restarts |
| `group_commit_flush` | GroupCommit | whether a flush survives power loss (it does not) | as above, commits not synced |
| `vectors` | MCVectors | EmbedPipeline: no thought is lost track of; catching up. EdgeOverlay: edges are those of a comparison of all pairs; what an overlay claims to cover it covers; the queue empties. TokenStore: uses are kept; refines TokenLedger | embedding: 4 thoughts, one of which no provider can embed, one failure, 2 pipelined, repairs of 2: pipeline, repair and drain limits are all exceeded, and a rebuild can panic. Edges: 4 thoughts, of which one more than may be built from scratch and two more than are replayed, lists of 2, scans and chunks of 2, inline below 2, saved every second time; one failed scan, one crash or close, one change of the setting. 5 calls on 3 tokens, two of one alias, with one fault: issue, use, revoke, issue again and use |
| `edges_twice` | MCEdges | whether a pair of thoughts is compared once only (it is not) | 4 thoughts, no fault at all |
| `tokens_revoked` | MCTokens | whether a revocation holds when calls overlap (it does not) | 5 calls |
| `services` | MCServices | ChainAccess: memory is the replay; private stays hidden; verification agrees with append; the operator governs. NonceCache: a proof that was granted stays spent for two windows. SidecarWal: the pair on disk is whole at every moment; a load that settles is complete. SkillRegistry: the file opens and summaries agree; acknowledged is stored; history is immutable. BackupRestore: an archive that verifies is a snapshot, and what was restored is there. BodyBudget, BodyMeter: nothing leaks from pools and counters; a body keeps pace | access: operator and one agent with two key pairs under one id, 3 thoughts, 2 changes, one fault, two openings: a key registered, a mode set, a thought signed, lost and verified again. Nonces: 3 requests, two proofs of one key and one of another, a window of 2 passed twice, a clock that may be set back by 1, quotas of 2; the first proof is good at every time there is, the others too or in the second half only (`WindowsMeet`), so entries expire while proofs are fresh and others are inserted in between. Sidecar: 3 thoughts, one rebuild, one failed write or crash: each thread overlaps with each, except a load with a rebuild, of which LoadIsComplete says nothing. Skills: 2 skills, 3 versions, one fault or restart, one holder, a third save while there is one skill. Archives: 2 archives, 2 restores, one halt, 3 thoughts there and 2 here: identical, extending both ways, diverging and imported twice. Bodies: 2 requests, of one peer or of two or one of none, of up to 3 units over pools of 4 with shares of 3; 10 bytes at an idle time of 2 |
| `restore_registry` | BackupRestore | whether a restored chain's signatures verify (they need not) | 2 archives of 2 thoughts of two keys |
| `handles` | MCHandles | ChainCache: one handle of a chain that only the API used; its file has what was acknowledged; every request ends. MigrationEngine: a live file is whole and complete; appended thoughts kept; every migration ends | 3 requests, two of them appends, the third of any kind, and one failed file operation or disconnected client: an opener that fails, one that waits and one that comes later are the three parties of the race that `open_chain_single_flight` is written for. 4 handles and 4 mutexes, more than 3 requests can have alive where the properties apply. Migration: 2 attempts, so one crash more than the limit; 3 stops and commands |
| `chain_cache_branch` | MCChainCache | whether a chain is always opened once (it is not) | a branch and two other calls on its key |
| `migration_records` | MigrationEngine | whether the records always exist (they do not) | one crash, one fault |
| `manager` | MCManager | MigrationManager: the gate is safe; idle means done; a pending chain is taken up. Lineage: the walk finds a live successor; a page holds no replaced thought. WebhookRegistry: stored is what was acknowledged | 2 chains, 2 workers, one operator; of a command, a failing run and a shutdown any two; every state a daemon may find. Lineage: every chain of 4 thoughts with one link each, of two writers, two windows and two moments, and a depth of 3, which one chain of 4 would exceed. Hooks: 2 requests overlapping at every file operation, one fault or restart |

**Fairness.** GroupCommit: `WF(Caller)` and `WF(WriterWorks)`, both threads run
when they can; faults, crashes and new calls need not come. EmbedPipeline: an
append's task is spawned and runs to its end, the rebuild worker runs what is
queued, and a chain in use is polled (`repair_if_idle`). EdgeOverlay: the scan
thread runs, and what it leaves is taken up by that poll; it is stated as weak
fairness of the steps that change the state of the scan. MigrationEngine: a
running command goes on and a daemon is started again. MigrationManager: worker
threads and operators' requests go on; no command and no shutdown need come.
WebhookDelivery: spawned tasks run, and HTTP requests have a timeout. ChainCache:
the runtime runs some request that can go on, no more: a request has finitely
many steps, so that keeps all of them going. Weak
fairness is enough everywhere; no strong fairness is assumed. In the runs that
follow one module of several, a module's fairness is stated of its own part.

**Deadlock** is checked for GroupCommit alone (`group_commit_flush`). The others may really stop: their bounds run out, or
everything is done.

**Limits that matter.** The skills have one holder: with two the code loses updates
(see below), so the properties are stated for one. StoredIsAcknowledged
is about executions in which no two saves have overlapped. ImplementsLedger and
UsesKept are about calls of token stores that do not overlap (`Serial`), with a
fault between any two steps of one. OverlayIsTrue excepts, for the edges, an overlay to which a
thought was added twice and one of thoughts the chain has lost; for the coverage,
executions with a failed scan or with vectors switched off and on, and chains too
long to be built from scratch. AnswersAreScans and PagesMissNothing except time
windows on a chain whose clock stepped back, and entity types beside an index; what a
client pages through asks for no names, owners or words, which an edit of the
registry may change between two pages (`Steady`). DiskIsWhole
excepts two times: from a compaction that replaced a rebuilt snapshot until the next
rebuild has written its own, and from a log write that failed or was torn by a crash
until an adopted rebuild starts a new log. GrantedOnce says that a proof
stays spent for two windows from the header that spent it, and no more: in the last
second of a proof dated a full window ahead, for a request that comes to its first
private read later than that, and after the clock was set back, it may be granted
again (FreshWorksOnce says what this leaves for a proof). KeepsPace bounds what a body
receives over four idle timeouts, which is weaker than what the code asks of
each window but enough to catch credit that is banked. These conditions are
history variables (`ordered`, `damaged`, `doubtful`, `blanked`,
`lost`), written out in the modules, and each has its entry below. SingleFlightAlone
and AcknowledgedIsStored are about chains that were not deleted, merged away,
branched to or opened by the dashboard (`meddled`), whatever happens to the
chains beside them.

## The proofs

TLAPS proves the following for every value of the constants. None of the
properties is inductive as it stands; each entry says what its invariant has to
add. Every invariant was checked by TLC on an instance before it was proved.

**GroupCommitProofs.** `TypeCorrect` is `Spec => []TypeOK`. `InvCorrect` is the
inductive invariant, and from it follow `FileIsContiguous`, `ChainAgrees`
(`ChainAgreesWithFile`), `AcknowledgedIsKept` (`AckKept`), `GhostIsLast` and
`GroupsAreSingle`. That a record just written is the next one of the chain
depends on where every earlier record between caller and file is (channel,
buffer, file), on the caller's and the writer's program counters agreeing about
who waits for whom, and on the error slot being set before a ghost record (in
the file, not in memory) can be followed by another. The invariant says exactly
that, in named parts, with one lemma per action and part. `FlushedIsKept`
(`FlushKept`) adds where the records of a flush under way are. `LogImplemented`
(`ImplementsAppendLog`) maps every step to a step of AppendLog or a stutter; it
assumes `Durable`, that commits are synced or the power stays on, which is the
condition under which the code promises durability at all.

Of ChainQueries, in the same module: `KeptStaysRemade` (`KeptIsRemade`),
`AnswersStayScans` (`AnswersAreScans`) and `PagesKeepMissingNothing`
(`PagesMissNothing`), for every chain, every set of queries and pages of any size,
with no restriction on when a client reads. The indexes and the registry are
recursive functions of the chain; `CountUp`, induction as a statement about a set of
numbers, says that they are what their steps make them (`IndexIs`, `ReplayedCounts`).
`QueryInv` is then the first property with types, and with three facts it rests on:
the registry counts every author's thoughts, and so knows every author
(`RegistryCounts`); the hashes of the authors' texts are of what the word index has,
because a change of a text is told from the hashes alone (`WordsFollow`); and the
window of recent texts holds texts of the chain at their positions (`WindowFits`), so that a window left behind, even by more than its
length, is right once it is synced (`SyncedIs`). The second follows from the first
state by state: the candidates an index chooses are what its filter asks for
(`CandidatesAre`), and bisection loses nothing of a chain whose times are in order
(`BoundsHold`). Of a client that pages, `PageInv` says that its cursor is the last
thought it was given, that these are in order, and that they are all that was asked
for of those it has been past (`Past`); a page takes it past what is on it and past
nothing else (`ReadKeeps`), and a thought that is appended is ahead of every client
that reads forward and behind none that reads back (`PagesStay`).

**HandlesProofs** has two parts. Of ChainCache, `OneHandlePerChain`
(`SingleFlightAlone`) and `NothingAcknowledgedIsLost` (`AcknowledgedIsStored`), both
from `CacheInvariant`. That no two requests open one chain rests on the mutex, but
not on the mutex alone: an entry of `open_locks` is removed while another request
may already wait on the mutex it named, so the invariant says that the mutex is the
one in the map as long as the chain is not in the cache (`Alone`), and that whoever
is past it holds it (`Guarded`). It adds that a handle of such a chain is either the
one in the cache or that of the request which is opening it (`Sole`), whichever plan
the others follow, which needs, of every step of every plan, the chain it is at and
the chains its plan meddles with (`Aimed`), and the handles it refers to (`Handed`);
and that this handle has the acknowledged thoughts and a descriptor of the file of
that name (`HandleFits`), without which the next write would go to a deleted file or
break the chain of hashes. `NoneAssumption` says that the value for "none" is no
handle, mutex or request, and `PlanAssumption` that a branch and a merge name their
source.

Of MigrationEngine, `EngineInvCorrect`, the invariant: what a run works on
from its detection to its swap (`RunFiles`), what the journal says while it does
(`RunJournal`), that a journal which got as far as its backup keeps a whole one
(`BackupWhole`), and what a rollback may find (`RollingBack`, `Clean`). From it
`EngineTypeCorrect`, `LiveStaysWhole` (`LiveIsWhole`) and `GrowthIsKept`
(`GrowthKept`).

**ManagerProofs.** Of MigrationManager, `GateStaysSafe` (`GateIsSafe`) and `IdleStaysDone`
(`IdleMeansDone`). `GateSound` adds that what is about to be opened is as good as
what is open. `Counted` adds that the count of outstanding runs is the length of
the queue, and one for each worker that has a run and each operator who has counted
a chain and not pushed it yet; these are sets of threads, which must be finite
(`FiniteAssumption`).

Of Lineage, `ReadersAlwaysFindLive` (`ReadersFindLive`): for every chain, depth,
window and audience. The invariant is small: links go to older thoughts (`Older`),
and no chain of strong links is longer than the depth guard allows (`NoneTooLong`).
The rest is about what readers compute from it. While the walk has found nothing
live, the thought it visits next was replaced, is newer than every one it visited,
and ends a chain longer than the visits so far (`OnTheWay`, kept by each visit:
`VisitGetsOn`); after MAX_LINEAGE_DEPTH visits that chain would be longer than the
guard allows, so something live was found (`WalkFinds`). That a page then holds only
live thoughts, none twice, and what it owes every hit, is carried along the hits
(`ShowIs`, `PageIs`). The walk, the page and the lengths are recursive functions:
`Recursion` says that what is defined by steps exists, and `CountUp` is induction as
a statement about a set of numbers, both from `LeastNat`.

**TokenStoreProofs.** `UsesAreKept` (`UsesKept`), `LedgerImplemented`
(`ImplementsLedger`) and `RevocationHoldsAlone`. They assume `Serial`, that no two
calls of token stores overlap; without it the run `tokens_revoked` violates the
last. `TInv` says that the file is whole and has no alias twice (`FileSound`), that
a cache with the file's time stamp has the file's records (`CacheSound`), what a
call is about to save, in terms of the file it will replace (`Working`), and that
no token is listed that was not issued or was erased (`Past`). `NoneAssumption`
says that the value for "none" is no store, no time, no file and no cache.

**ServerProofs** has five parts. Of the webhooks, `AcknowledgedIsOnDisk` (`StoredIsAcknowledged`): while no two
saves have overlapped (`ordered`), the temporary file is the saver's own and holds
the list in memory when it is renamed (`SaveSound`), and both lists have what was
acknowledged (`BothLists`). The invariant is stated of such executions, because
nothing of it holds after an overlap. `PauseHolds` (`PausedAfterOne`): at most one
job waits for its permit, and of a paused webhook none does once one has begun.

**SidecarProofs** is about SidecarWal, EmbedPipeline and EdgeOverlay. `FilesReplayToWhatWasFlushed` (`DiskIsWhole`). Its invariant
says that the log is a run of records up to the last that was written (`LogRuns`),
which starts at the snapshot or before it (`FilesMeet`); where the records in memory
stand after it (`Waiting`); that only a rebuilt snapshot is of a newer generation
(`Generations`, `Rebuilt`); and what a compaction has read of both files, and is
about to put in their place, while the stamp it read is still the snapshot's
(`Folding`, `Swapping`). `SettledLoadsAreComplete` (`LoadIsComplete`)
adds that what was on disk when a load began still is, in the snapshot or in the
log (`FloorIsKept`), that what a compaction is about to take out of the log is in
the snapshot it has made (`FoldedIsKept`), and that the load holds the snapshot that
stands as long as its stamp is current (`Reading`). The
attempt at the first proof found an error of the model: a failed write and a
compaction that raced a rebuild shared one flag, so that a write that failed after
the race was taken for healed. `damaged` is a set of the two since. `NoVectorIsForgotten` (`Accounted`) and
`PipelineTypeCorrect`: the operations of an entry are functions of it, so the proof has
one lemma per operation, which says that what accounts for all thoughts the entry has
been told of still does (`Sound`). Two things are added to make that inductive: that a
repair slot which is free names no thoughts, and that no thought was tried as often as
it may be, and one not told of yet not at all. The second is why an append under the
lock may note a failure without looking whether the attempts are used up.

Of the implicit edges, also in SidecarProofs, `OverlaysStayTrue` (`OverlayIsTrue`), for
every chain, similarity, list length, batch, chunk and limit. Three facts carry it. The
nearest K of a list that was cut to its nearest K and then pushed to are the nearest K
of all (`NearestStep`), so it does not matter that what was pushed out is forgotten.
An overlay that takes a thought after every one numbered lower, compared with those,
still equals the comparison of every pair (`AddedFits`); so the proof must show that
thoughts are taken in order. And they are, because those that are still to come stand
in one line, the items of the scan before the queue (`InLine`, `WorkFits`): each of
them is new to the overlay and numbered above all it has (`Due`), what a scan found in
its chunks together with the delta is what stands before the thought (`JobFits`,
`FoundIsBefore`), and a replay starts where the file's coverage ends. The sidecar is
related to the chain by what they have in common, which is always a common beginning
(`Aligned`), because a crash may leave the sidecar longer than the chain. The coverage
half says that what is in the sidecar and not yet in the overlay is in line; it holds
while no scan has failed, vectors were never disabled and the chain can be built from
scratch (`Spared`), and the invariant carries that condition as a flag that only ever
goes down (`Good`, `WeakerFits`). The invariant (`EdgesInv`) has one lemma per action;
under them one per function of the record, in the order in which the code composes
them. The functions that loop are recursive functions, and what they do is shown of
the least step at which it would fail (`UpFrom`). Thoughts that are equally close to
another all stay in its list in the model, where the code keeps some K of them: of the
code the theorem speaks where similarities differ.

**DirectoryProofs.** `BackupsStayGood` (`BackupsAreGood`): the registry that an
archive under way has hashed or read has no keys the source, or the copy it took
later, lacks (`Taken`); of a restore, which files it has still to write, and that a
chain it wrote is the archive's (`Written`). `BackupAssumption` bounds nothing, it tells the value for "no file" from
files. `AcknowledgedSkillsStay` (`AckedIsStored`) and `HistoryStays`
(`HistoryPreserved`), for one holder of the file (`OneHolder`): the copy in memory
only goes on from the file (`CopyGoesOn`), and but for the skill that is being saved,
and those whose last change was refused, both have what was acknowledged
(`FileKeeps`, `CopyAgrees`). `RegistryStaysSound` (`RegistryIsSound`), for any number
of holders: each version of an entry is a patch of the text before it (`Patched`), so
the patches, applied in order, give every recorded text (`TextIs`, by the least version
for which they would not); copies, files and what a reload has read hold only such
entries, and the summaries follow the copy (`RInv`).

Of request bodies, also in ServerProofs, `MeterInvCorrect`, and from it `BodiesEndInTime` (`EndsInTime`)
and `CreditIsNotBanked` (`RateKept`), together `BodiesKeepPace` (`KeepsPace`): for
every idle timeout, rate, cap and frame pattern. The invariant relates the window,
the mark and the idle deadline; products of rates and times are handled in
arithmetic lemmas. Of signed reads, `ProofWorksOnce` (`GrantedOnce`) and
`FreshProofWorksOnce` (`FreshWorksOnce`): for every number of proofs, keys and
requests, every window, capacity and quota. The invariant (`NonceInv`) keeps, for each
granted proof, as long as the clock has not shown two windows more than the grant's
header (`InTime`), an entry that expires no sooner than that (`Spent`). A call prunes
by the time of its own header, which the clock has shown, and takes what has expired
by then, so the entry stays until the grant is out of time; that the queue is in the
order of expiry is not needed for it. Nothing is assumed of delays, of clients' clocks
or of the server's, which may be set back: `ClockAssumption` gives types. The second
theorem follows because a proof is verified no sooner than a window before its date.

Of the budget of bodies, `BudgetIsConserved` (`BudgetConserved`), for every number of
requests and peers and every pool. The sums are the community module's, over
functions; the lemmas about them (`SumOfUnits`, `SumSplit`, `SumSame`) identify a sum
with the cardinality of the set of its units, and then what the library says of
finite sets says what a sum becomes when one term changes. The invariant adds what a
request holds at each point of its way (`Phases`), and that the large bodies counted
for a peer are those in flight (`BodiesCounted`); from it follows that no counter is
cut off at zero, which `saturating_sub` would do without a trace. `FiniteBodies`
says that the requests in flight are finitely many.

**AccessProofs** is about ChainAccess. The policy is computed from the chain by a
recursive function (`Replays`), so the first lemmas are about it: it satisfies its
equation (`ReplaysLaw`), what holds at first and of every step holds of every prefix
(`ReplaysPlain`), and chains that agree up to a length have the same policies up to
it (`ReplaysPrefix`). They rest on induction in set form, that a non-empty set of
natural numbers has a least element (`LeastNumber`), which follows from the
library's theorem that strict inclusion of finite sets is well-founded; the
library's induction rules themselves are out of the prover's reach.
`PolicyFollowsRecords` (`PolicyIsReplay`) then needs types only. The other three
need invariants that speak of every prefix of the chain, not of the whole one alone:
then what holds of a chain holds of what a power failure leaves of it.
`OperatorIsNeverLockedOut` (`OperatorGoverns`): the operator's entry is among the keys
after every prefix, and in the registry its id names no other key, unless the id is
doubtful (`OperatorKept`). `SecretsAreNeverShown` (`SecretsStayHidden`): a secret
thought is private in the policy of every prefix that has it (`SecretsInside`); that
a later record never makes an earlier position public is a lemma about `PushSegment`
and `KindAt` (`PushKeepsKind`). `VerdictsStayRight` (`VerdictsAreRight`): what append
accepted is still acceptable against the prefix before it (`Accepted`); its signer's
key is still in the registry and its file, unless the identity is doubtful
(`KeysRemembered`, `FileAgrees`); a chain that has the sealed head has the whole
sealed prefix (`SealRooted`, `SealBound`), and then the checkpoint's policy is the
chain's and what it quarantines is excused (`SealTold`).

**Assumptions** are the modules' ASSUMEs (types of constants; capacities and
timeouts positive), which TLC evaluates in the runs, and the three hypotheses named
above (`Durable`, `Serial`, `OneHolder`), each the condition under which the code
makes the promise; what happens without them is among the findings below.

**Model-checked only.** All liveness, because the prover has neither it nor ENABLED:
CallsReturn, VectorsCatchUp, Resumes, PendingRuns, EveryJobEnds, RequestsEnd,
BacklogDrains. Every safety property a passing run checks is stated by a theorem.

## What the models show

Most of what the code promises holds. Where it does not, a run shows it or the
property says what it excepts:

- A flush that finds the buffer empty syncs nothing, so what it covered can be
  lost with the power (`lib.rs:886`; run `group_commit_flush`).
- A rollback of a JSONL chain that stops before its journal is written can lose
  the records for good (`migration/engine.rs:1100`; run `migration_records`).
- An entity type or a source episode is silently ignored by a query that has any
  filter an index serves (`lib.rs:9749`, `lib.rs:9413`; run `entity_filter`). Of
  three thoughts with one text the third supersedes the first again, which was
  superseded already, and two stay current (`lib.rs:6964`): of equals the oldest
  in the window is taken. Time bounds are found by bisection over time stamps
  that may go back (`lib.rs:3418`). The names and owners of an agent are not on
  the chain, so a save of the registry that failed before a crash loses them
  (`lib.rs:13823`).
- When the append writer cannot be opened its buffer is kept, so records whose
  callers got an error are written later (`lib.rs:890`).
- A run that fails after its commit is quarantined as failed with its live file
  already replaced (`engine.rs:927`); a retry serves checkpoints and sidecars
  written before it (`engine.rs:1502`), and plans with the registration it
  finds, which after a committed attempt is no longer the original
  (`engine.rs:909`).
- `MigrationManager::shutdown` may miss a worker about to wait
  (`manager.rs:574`), and a run that ends overwrites an operator's skip
  (`manager.rs:794`).
- A branch that fails removes the mutex another caller waits for, and the chain is
  opened twice (`server.rs:6556`; run `chain_cache_branch`). Of the other chains
  in ChainCache's `meddled`: a branch of the default chain from itself, on a
  daemon that has not opened it, waits for the mutex it holds
  (`server.rs:6585`); the dashboard opens handles without the mutexes
  (`dashboard.rs:1359`); an append that already has its handle is acknowledged
  after the chain was deleted (`dashboard.rs:2311`), and a merge deletes thoughts
  that came after it copied the source (`server.rs:6782`); and
  `deregister_chain` can undo another chain's registration (`lib.rs:14725`).
- A compaction may replace a rebuilt snapshot (`lib.rs:5712`), a load may fail
  where reading again would do (`sidecar.rs:291`), and a full save that stops
  between its two files leaves the old snapshot without its log
  (`sidecar.rs:450`). The sidecar is rebuilt from the chain in each case.
- The embedding pipeline may exceed its limit by a repair batch
  (`lib.rs:7596`); a thought no provider can embed keeps later vectors out
  (`lib.rs:5696`); a panicking rebuild stays pending for ever (`lib.rs:10686`).
- An append that adopts a rebuild of the vectors adds the edges of its thought a
  second time: lists then hold a neighbour twice and lack another
  (`lib.rs:7092`; run `edges_twice`). A thought whose vector is in flight when the
  overlay is loaded counts as covered, and its edges come with its vector; but
  when vectors are switched off while it is, or the scan before it failed, they
  never do (`lib.rs:12154`; `NoEdgesLost` in EdgeOverlay says so, and is no
  property of a run).
- A proof may be granted twice, although `read_auth.rs:523` says that it works once.
  The test of the window accepts a date 60 seconds ahead (`read_auth.rs:514`), and a
  nonce expires 120 seconds after the header that spent it (`read_auth.rs:683`) and
  is dropped in that very second (`read_auth.rs:583`): a proof dated 60 seconds ahead
  and used at once is still fresh 120 seconds later, and is granted again. With a
  window of 2, one dated 2 is granted at 0 and at 4. So is one whose second request
  reaches its first private read after that, which a large body may delay for minutes
  (`server_body.rs`), or after the clock was set back. `WorksOnce` in NonceCache says
  what the comment says; TLC refutes it at once, it is no property of a run, and
  GrantedOnce excepts these cases.
- A revocation or deletion by one token store can be undone or overlooked by
  another's call that overlaps it (`auth.rs:739`, `auth.rs:720`; run
  `tokens_revoked`).
- A backup taken of a directory in use may hold a file with another digest than
  its manifest says, and is refused when it is to be restored (`backup.rs:552`);
  a fast-forward leaves the archive's agent registry behind
  (`backup.rs:1061`; run `restore_registry`); a restore that stopped half way is
  completed with the files of whichever archive comes next (`backup.rs:1206`).
- A thought whose replacement has run out counts as current at past moments too
  (`lib.rs:13611`), although the whitepaper says that a query with `as_of` sees
  the chain as it was then; and a contested thought that is on a page already,
  standing in for an older one, is not preceded by what contests it
  (`lineage.rs:895`).
- Overlapping webhook saves lose registrations or leave a file that cannot be
  parsed (`webhooks.rs:440`, `510`); a registration whose save failed is listed
  (`webhooks.rs:511`).
- An upload by a blank agent leaves a skill without versions, and the file can
  then not be opened (`skills.rs:1472`); a failed persist stays visible
  (`skills.rs:2192`); a revoked skill becomes active again by way of deprecated
  (`skills.rs:1926`); two processes overwrite each other's changes
  (`skills.rs:2192`).
- A key replaced under its id makes a later open quarantine what the old key
  signed (`lib.rs:1630`); a retried registration answers Ok without saving
  (`lib.rs:8232`); another key under the operator's own id can lock the operator
  out (`operator.rs:605`) although `docs/CHAIN_ACCESS.md` says it never can; a
  power failure between a checkpoint and its chain's tail locks the chain
  (`lib.rs:8808`).

`PROJECT.json` lists the hazards, with the properties that cover them.

## Not modelled

- Floating point search and ranking, text processing, rendering, argument
  parsing and the terminal interface: no state that the properties could be
  about, or arithmetic TLC does not have.
- Cryptography, decoding of legacy records, HTTP: modelled by their outcome.
- In ChainAccess: which key may read which private segment, a registry file left
  empty by a power failure, registry contents that revert.
- In ChainCache: the dashboard's own merge and branch, agent and entity-type
  updates, the repair of an idle chain, and a migration's gate (MigrationManager
  has it).
- In ChainQueries: several tags or types of one thought, links that end or are not
  authorized (Lineage has them), the confidence filter, scores.
- In BackupRestore, all files but a chain and its agent registry, and the Ok that a
  restore answers when a staged chain cannot be opened (`backup.rs:1022`); in Lineage,
  links across chains, and more than one link of a thought to the same target, of
  which `LineageIndex::add` keeps one per target and thought (`lineage.rs:558`), so
  that two strong links with different windows never meet; in TokenStore, scopes.
- In SidecarWal, that a rebuild which trails the chain too far is adopted in several
  steps (`SIDECAR_ADOPT_CATCHUP_LIMIT`, `lib.rs:10825`): it is adopted in one.
- In EdgeOverlay: more than one embedding space, equal similarities, the fallback to
  the text provider, and the approximate index of a large rebuild, which is taken
  for exact.
- The data directory lock: planned.

## The plan

Done, in order: GroupCommit and AppendLog, MigrationEngine, MigrationManager,
SidecarWal, EmbedPipeline, WebhookRegistry, WebhookDelivery, SkillRegistry,
BodyBudget, BodyMeter, ChainAccess, ChainCache, TokenStore and TokenLedger,
NonceCache, BackupRestore, Lineage, EdgeOverlay, ChainQueries; and the proofs above.

Next: the standing context; the dashboard's sessions and its own merge and branch; a single-flight specification that
ChainCache implements; MigrationManager over the engine's abstract behaviour.
