----------------------------- MODULE EdgeOverlay -----------------------------
(***************************************************************************)
(* The implicit edges of one chain: for every thought the thoughts whose   *)
(* vectors are nearest to its own.  The overlay that holds them follows    *)
(* the vector sidecar one vector at a time, at once while the sidecar is   *)
(* small and through a scan on a thread of its own when it is not, is      *)
(* saved now and then, and is brought up to date from its file when the    *)
(* chain is opened (lib.rs, search/implicit_edges.rs,                      *)
(* search/vector_scan.rs).                                                 *)
(*                                                                         *)
(* The write lock protects one record, handle, and what is done under one  *)
(* acquisition is one action, written with functions of that record.  How  *)
(* vectors come to the sidecar is EmbedPipeline's: here any block of them  *)
(* may arrive, in the order of the chain.  A thought stands for its        *)
(* identifier, its hash and its vector, and is numbered as it is born.     *)
(***************************************************************************)
EXTENDS Naturals, SequencesExt

CONSTANTS
    Absent,
    MaxBorn,     \* bound: thoughts ever appended
    Closeness,       \* similarity of two thoughts, 0 when below the threshold
    K,               \* auto_edge_k
    InlineLimit,     \* edge_inline_limit
    ScanBatch,       \* EDGE_SCAN_BATCH
    Chunk,           \* SCAN_CHUNK_ENTRIES
    SaveEvery,       \* OVERLAY_PERSIST_INTERVAL
    MaxReplay,       \* MAX_CATCH_UP_THOUGHTS
    MaxFullBuild,    \* AUTO_EDGE_MAX_CHAIN_FOR_FULL_BUILD
    MaxScanFaults,   \* bound: scans that fail
    MaxCloses,       \* bound: crashes and closes
    MaxToggles       \* bound: changes of the setting

Ids == 1 .. MaxBorn

\* The lists of an overlay, overlays (see NewOverlay) and scans.
EdgeLists == {list \in SUBSET (Ids \X Nat) : IsFiniteSet(list)}
Overlays == [edges : [Ids -> EdgeLists], covered : Nat, head : Nat,
             known : SUBSET Ids, twice : SUBSET Ids]
EdgeJobs == [items : Seq(Nat), found : Seq(SUBSET Ids), sealed : Nat, stale : BOOLEAN,
             state : {"running", "done", "failed"}]

ASSUME OverlayAssumption ==
    /\ Absent \notin Overlays /\ Absent \notin EdgeJobs
    /\ Closeness \in [Ids -> [Ids -> Nat]]
    /\ \A i, j \in Ids : Closeness[i][j] = Closeness[j][i]
    /\ {K, ScanBatch, Chunk, SaveEvery} \subseteq Nat \ {0}
    /\ {MaxBorn, InlineLimit, MaxReplay, MaxFullBuild,
        MaxScanFaults, MaxCloses, MaxToggles} \subseteq Nat

VARIABLES
    chain,      \* the thoughts of the chain, on disk
    enabled,    \* the setting: are vectors made of new thoughts?
    handle,     \* the open chain. managed: how its sidecar is kept; sidecar: the thoughts
                \* it holds; waiting: the positions whose vectors are on their way;
                \* rebuild: is one pending; overlay; queue: edge_queue, positions; job: the
                \* scan; unsaved: overlay_unsaved_appends; dirty: the overlay that
                \* pending_derived holds; saved: the overlay's file
    scan,       \* the state of the scan by itself, which its thread shares with the handle
    sidecarFile, \* what the sidecar's snapshot and log hold
    born, scanFaults, closes, toggles  \* counters of the bounds

edgeVars == <<chain, enabled, handle, scan, sidecarFile, born, scanFaults, closes, toggles>>

NoOverlay == Absent
NoJob == Absent

\* known and twice are history: the thoughts added to the overlay, and those added to
\* it when it knew them already.
NewOverlay == [edges |-> [i \in Ids |-> {}], covered |-> 0, head |-> 0,
               known |-> {}, twice |-> {}]

Closed(saved) ==
    [managed |-> "closed", sidecar |-> <<>>, waiting |-> {}, rebuild |-> FALSE,
     overlay |-> NoOverlay, queue |-> <<>>, job |-> NoJob, unsaved |-> 0,
     dirty |-> NoOverlay, saved |-> saved]

\* A chain that has just been created.
EdgeInit ==
    /\ chain = <<>> /\ enabled = TRUE
    /\ handle = [Closed(NewOverlay) EXCEPT !.managed = "auto", !.overlay = NewOverlay]
    /\ scan = "none" /\ sidecarFile = <<>>
    /\ born = 0 /\ scanFaults = 0 /\ closes = 0 /\ toggles = 0

-----------------------------------------------------------------------------
(* ImplicitEdgeOverlay *)

Min2(m, n) == IF m < n THEN m ELSE n
Prefix(s, n) == SubSeq(s, 1, n)
Before(s, p) == {s[q] : q \in 1 .. p - 1}

\* A list is kept as the set of its members: the k-th copy of j is <<j, k>>. Sorted
\* and cut to length, it has the nearest K.
Nearer(i, x, y) == \/ Closeness[i][x[1]] > Closeness[i][y[1]]
                   \/ x[1] = y[1] /\ x[2] < y[2]
Nearest(i, list) ==
    {x \in list : Cardinality({y \in list : Nearer(i, y, x)}) < K}

\* scan_candidates
Candidates(i, thoughts) == {j \in thoughts : j # i /\ Closeness[i][j] > 0}

NearestOf(i, thoughts) == Nearest(i, {<<j, 1>> : j \in thoughts})
Push(list, i) == list \cup {<<i, 1 + Cardinality({x \in list : x[1] = i})>>}

\* apply_candidates
ApplyCandidates(o, i, found) ==
    [o EXCEPT
        !.edges = [j \in Ids |->
            IF j \in found THEN Nearest(j, Push(o.edges[j], i))
            ELSE IF j = i /\ found # {} THEN NearestOf(i, found)
            ELSE o.edges[j]],
        !.known = @ \cup {i},
        !.twice = @ \cup ({i} \cap o.known)]

SetCoverage(o, n, i) == [o EXCEPT !.covered = n, !.head = i]

\* add_thought_among the vectors before position p.
AddThought(o, sidecar, p, i) == ApplyCandidates(o, i, Candidates(i, Before(sidecar, p)))

\* build_pairwise; the index of a larger sidecar is taken to find the same.
BuildFromSidecar(sidecar) ==
    [NewOverlay EXCEPT
        !.edges = [i \in Ids |-> IF i \in ToSet(sidecar)
                                 THEN NearestOf(i, Candidates(i, ToSet(sidecar))) ELSE {}],
        !.known = ToSet(sidecar)]

Head0(c) == IF c = <<>> THEN 0 ELSE Last(c)

\* Does a saved overlay go with the chain, and is what it misses little enough?
\* Variant: the hash of the thought it covers last is not compared.
GoesWithAnyHead(o, c) ==
    o.covered <= Len(c) /\ Len(c) - o.covered <= MaxReplay
GoesWith(o, c) ==
    /\ o.covered <= Len(c) /\ Len(c) - o.covered <= MaxReplay
    /\ o.covered > 0 => c[o.covered] = o.head

\* catch_up_overlay_coverage: replay what the file does not cover. A thought whose
\* vector has not arrived is passed over, and counts as covered.
CatchUpOverlay(o, c, sidecar) ==
    LET n == Len(c)
        upTo[p \in o.covered .. n] ==
            IF p = o.covered THEN o
            ELSE IF c[p] \in ToSet(sidecar) THEN AddThought(upTo[p - 1], sidecar, p, c[p])
            ELSE upTo[p - 1]
    IN  IF ~ GoesWith(o, c) THEN NoOverlay
        ELSE IF o.covered = n THEN o
        ELSE SetCoverage(upTo[n], n, Last(c))

\* load_or_rebuild_implicit_edge_overlay
LoadOverlay(h, c) ==
    LET caught == IF h.saved = NoOverlay THEN NoOverlay
                  ELSE CatchUpOverlay(h.saved, c, h.sidecar)
        built  == IF Len(c) > MaxFullBuild THEN NewOverlay ELSE BuildFromSidecar(h.sidecar)
        loaded == IF caught # NoOverlay THEN caught
                  ELSE SetCoverage(built, Len(c), Head0(c))
    IN  IF h.managed \notin {"auto", "search"} THEN h
        ELSE [h EXCEPT !.overlay = loaded, !.saved = loaded, !.queue = <<>>, !.job = NoJob]

\* note_overlay_updated
NoteUpdated(h) ==
    IF h.unsaved + 1 < SaveEvery THEN [h EXCEPT !.unsaved = @ + 1]
    ELSE [h EXCEPT !.unsaved = 0, !.dirty = h.overlay]

-----------------------------------------------------------------------------
(* The queue and the scan, under the lock *)

\* apply_implicit_edges_for
ApplyInline(h, p) ==
    LET i == h.sidecar[p]
    IN  NoteUpdated([h EXCEPT
            !.overlay = SetCoverage(AddThought(h.overlay, h.sidecar, p, i), p, i)])

\* The sealed chunks of the scan store; the newest vectors are in none.
Sealed(sidecar) == IF sidecar = <<>> THEN 0 ELSE ((Len(sidecar) - 1) \div Chunk) * Chunk

\* start_edge_job. The snapshot is immutable, so what the scan will find in it is known.
StartJob(h) ==
    LET items == IF h.managed = "none" THEN <<>>
                 ELSE Prefix(h.queue, Min2(ScanBatch, Len(h.queue)))
        sealed == Sealed(h.sidecar)
        found  == [k \in DOMAIN items |->
                    Candidates(h.sidecar[items[k]],
                               Before(h.sidecar, Min2(items[k], sealed + 1)))]
    IN  IF h.job # NoJob \/ h.queue = <<>> THEN h
        ELSE IF h.overlay = NoOverlay \/ items = <<>> THEN [h EXCEPT !.queue = <<>>]
        ELSE [h EXCEPT
                !.queue = SubSeq(@, Len(items) + 1, Len(@)),
                !.job = [items |-> items, found |-> found, sealed |-> sealed,
                         stale |-> FALSE, state |-> "running"]]

\* queue_implicit_edges, for the vectors at positions from .. to: nothing overtakes
\* the queue.
QueueEdges(h, from, to) ==
    LET One(acc, p) ==
          IF Len(acc.sidecar) <= InlineLimit /\ acc.queue = <<>> /\ acc.job = NoJob
          THEN ApplyInline(acc, p)
          ELSE [acc EXCEPT !.queue = Append(@, p)]
        upTo[p \in from - 1 .. to] == IF p < from THEN h ELSE One(upTo[p - 1], p)
    IN  IF h.overlay = NoOverlay THEN h ELSE StartJob(upTo[to])

\* abandon_implicit_edges
Abandon(h) == [h EXCEPT !.queue = <<>>, !.job = NoJob, !.overlay = NoOverlay]

\* The vectors before position p that the scan has not seen: what was in no sealed
\* chunk, and what has come since. Variant: the first of them is taken for scanned.
DeltaLate(h, job, p) == {h.sidecar[q] : q \in job.sealed + 2 .. p - 1}
Delta(h, job, p) == {h.sidecar[q] : q \in job.sealed + 1 .. p - 1}

\* What the scan found, completed with the delta, goes into the overlay in order.
ApplyJob(h, job) ==
    LET One(acc, k) ==
          LET p     == job.items[k]
              i     == h.sidecar[p]
              found == job.found[k] \cup Candidates(i, Delta(h, job, p))
          IN  NoteUpdated([acc EXCEPT
                !.overlay = SetCoverage(ApplyCandidates(acc.overlay, i, found), p, i)])
        upTo[k \in 0 .. Len(job.items)] == IF k = 0 THEN h ELSE One(upTo[k - 1], k)
    IN  upTo[Len(job.items)]

\* adopt_finished_edge_job. A job of a replaced overlay is forgotten with it, so the
\* generation never differs; stale: the sidecar was replaced and its store with it.
\* Variant: the next batch waits for the next vector.
AdoptJobOnce(h) ==
    IF h.job = NoJob THEN h ELSE
    CASE h.job.state = "running" -> h
      [] h.job.state = "failed" -> Abandon(h)
      [] h.job.state = "done" /\ h.job.stale ->
           [h EXCEPT !.job = NoJob, !.queue = h.job.items \o @]
      [] h.job.state = "done" /\ ~ h.job.stale -> ApplyJob([h EXCEPT !.job = NoJob], h.job)
AdoptJob(h) ==
    IF h.job = NoJob THEN h ELSE
    CASE h.job.state = "running" -> h
      [] h.job.state = "failed" -> Abandon(h)
      [] h.job.state = "done" /\ h.job.stale ->
           StartJob([h EXCEPT !.job = NoJob, !.queue = h.job.items \o @])
      [] h.job.state = "done" /\ ~ h.job.stale ->
           StartJob(ApplyJob([h EXCEPT !.job = NoJob], h.job))

-----------------------------------------------------------------------------
(* What brings vectors, under the lock *)

\* drain_parked_vectors, when those of the thoughts up to position m have arrived.
Drains(h) == {m \in Len(h.sidecar) .. Len(h.sidecar) + Cardinality(h.waiting) :
                Len(h.sidecar) + 1 .. m \subseteq h.waiting}
DrainEdges(h, c, m) ==
    LET old == Len(h.sidecar)
    IN  IF h.rebuild \/ m = old THEN h
        ELSE QueueEdges([h EXCEPT !.sidecar = Prefix(c, m), !.waiting = @ \ 1 .. m],
                        old + 1, m)

\* fall_back_to_full_repair
RemakeAll(h) == [h EXCEPT !.rebuild = TRUE, !.waiting = {}]

\* manage_vector_sidecar, and adopt_rebuilt_sidecar once it has caught up: a new entry.
Manage(h, c) ==
    LoadOverlay([h EXCEPT !.managed = "auto", !.sidecar = c, !.waiting = {}], c)
AdoptRebuild(h, c) == Manage([h EXCEPT !.rebuild = FALSE], c)

\* poll_vector_backend_upgrades: a finished rebuild, leftover vectors, a finished scan.
PollEdges(h, c, adopt, m) ==
    LET adopted == IF adopt THEN AdoptRebuild(h, c) ELSE h
    IN  AdoptJob(IF m \in Drains(adopted) THEN DrainEdges(adopted, c, m) ELSE adopted)

\* queue_embed_tickets, or sync_managed_vector_sidecars_for_append: with nothing in
\* the pipeline the vector of the new thought extends the sidecar, else it is parked
\* behind the others; when it cannot be made, or does not fit, all are made again.
Embeds(h, c) ==
    LET n == Len(c)
        parked == [h EXCEPT !.waiting = @ \cup {n}]
    IN  IF h.managed # "auto" \/ h.rebuild THEN {h}
        ELSE IF h.waiting # {}
          THEN {parked, RemakeAll(h)} \cup {DrainEdges(parked, c, m) : m \in Drains(parked)}
        ELSE {parked, RemakeAll(h)}
               \cup (IF Len(h.sidecar) = n - 1 THEN {[h EXCEPT !.sidecar = c]} ELSE {})

\* sync_implicit_edge_overlay_for_append
SyncOverlay(h, n) == IF Len(h.sidecar) < n THEN h ELSE QueueEdges(h, n, n)

-----------------------------------------------------------------------------

IsOpen == handle.managed # "closed"

AppendThought ==
    LET i == born + 1
        c == Append(chain, i)
        n == Len(c)
    IN  /\ IsOpen /\ i \in Ids
        /\ chain' = c /\ born' = i
        /\ \E adopt \in {FALSE, handle.rebuild}, m \in 0 .. n - 1 :
              \E h \in Embeds(PollEdges(handle, c, adopt, m), c) :
                  handle' = SyncOverlay(h, n)
        /\ UNCHANGED <<enabled, sidecarFile, scanFaults, closes, toggles>>

\* commit_embeddings: an outcome brings a vector, and those parked behind it, or is the
\* failure that has all of them made again. One that the sidecar has is dropped.
CommitVectors ==
    /\ handle.managed = "auto" /\ ~handle.rebuild /\ handle.waiting # {}
    /\ LET known == [handle EXCEPT !.waiting = @ \ 1 .. Len(handle.sidecar)]
       IN  \/ \E m \in Drains(known) : handle' = DrainEdges(known, chain, m)
           \/ handle' = RemakeAll(handle)
    /\ handle' # handle
    /\ UNCHANGED <<chain, enabled, sidecarFile, born, scanFaults, closes, toggles>>

\* The scan thread, without the lock; EdgeJobGuard reports a panic.
ScanEnds ==
    /\ handle.job # NoJob /\ handle.job.state = "running"
    /\ \/ handle' = [handle EXCEPT !.job.state = "done"] /\ UNCHANGED scanFaults
       \/ /\ scanFaults < MaxScanFaults /\ scanFaults' = scanFaults + 1
          /\ handle' = [handle EXCEPT !.job.state = "failed"]
    /\ UNCHANGED <<chain, enabled, sidecarFile, born, closes, toggles>>

\* repair_if_idle, when there is something to repair: ensure_implicit_edge_overlay, then
\* the poll.
RepairIdle ==
    LET ensured == IF handle.overlay = NoOverlay THEN LoadOverlay(handle, chain)
                   ELSE handle
    IN  /\ \/ handle.rebuild
           \/ handle.job # NoJob /\ handle.job.state # "running"
           \/ handle.managed \in {"auto", "search"} /\ handle.overlay = NoOverlay
        /\ handle' = PollEdges(ensured, chain, handle.rebuild, 0)
        /\ UNCHANGED <<chain, enabled, sidecarFile, born, scanFaults, closes, toggles>>

\* flush_pending_derived: the log of the sidecar first, then the overlay.
FlushDerived ==
    /\ IsOpen
    /\ sidecarFile' = IF handle.managed = "auto" THEN handle.sidecar ELSE sidecarFile
    /\ handle' = IF handle.dirty = NoOverlay THEN handle
                 ELSE [handle EXCEPT !.saved = handle.dirty, !.dirty = NoOverlay]
    /\ <<handle', sidecarFile'>> # <<handle, sidecarFile>>
    /\ UNCHANGED <<chain, enabled, born, scanFaults, closes, toggles>>

\* set_managed_vector_sidecar_enabled
Enable ==
    /\ IsOpen /\ ~enabled /\ toggles < MaxToggles
    /\ enabled' = TRUE /\ toggles' = toggles + 1
    /\ handle' = Manage(handle, chain) /\ sidecarFile' = chain
    /\ UNCHANGED <<chain, born, scanFaults, closes>>
Disable ==
    /\ IsOpen /\ enabled /\ toggles < MaxToggles
    /\ enabled' = FALSE /\ toggles' = toggles + 1
    /\ handle' = [handle EXCEPT
          !.managed = "none", !.sidecar = <<>>, !.waiting = {},
          !.job = IF @ = NoJob THEN NoJob ELSE [@ EXCEPT !.stale = TRUE]]
    /\ UNCHANGED <<chain, sidecarFile, born, scanFaults, closes>>

\* The process dies; a flush may have got any part of the log written, and appends that
\* were not flushed are lost.
CrashEdges ==
    /\ IsOpen /\ closes < MaxCloses /\ closes' = closes + 1
    /\ \/ UNCHANGED sidecarFile
       \/ /\ handle.managed = "auto"
          /\ \E n \in Len(sidecarFile) .. Len(handle.sidecar) :
                sidecarFile' = Prefix(handle.sidecar, n)
    /\ \E n \in {Len(chain), Len(chain) - 1} \cap Nat : chain' = Prefix(chain, n)
    /\ handle' = Closed(handle.saved)
    /\ UNCHANGED <<enabled, born, scanFaults, toggles>>

\* Drop flushes what is pending, then an overlay that has changed since.
CloseChain ==
    /\ IsOpen /\ closes < MaxCloses /\ closes' = closes + 1
    /\ sidecarFile' = IF handle.managed = "auto" THEN handle.sidecar ELSE sidecarFile
    /\ handle' = Closed(IF handle.unsaved > 0 /\ handle.overlay # NoOverlay
                          THEN handle.overlay
                        ELSE IF handle.dirty # NoOverlay THEN handle.dirty
                        ELSE handle.saved)
    /\ UNCHANGED <<chain, enabled, born, scanFaults, toggles>>

\* apply_persisted_managed_vector_sidecars: a fresh sidecar is loaded, another is made
\* again, at once when it is small; when vectors are disabled it serves as it is.
OpenChain ==
    LET h == [handle EXCEPT !.managed = "none"]
    IN  /\ handle.managed = "closed"
        /\ IF enabled
             THEN \/ handle' = Manage(h, chain) /\ sidecarFile' = chain
                  \/ /\ sidecarFile # chain
                     /\ handle' = [h EXCEPT !.rebuild = TRUE] /\ UNCHANGED sidecarFile
             ELSE /\ handle' = LoadOverlay([h EXCEPT !.managed = "search",
                                                     !.sidecar = sidecarFile], chain)
                  /\ UNCHANGED sidecarFile
        /\ UNCHANGED <<chain, enabled, born, scanFaults, closes, toggles>>

EdgeNext ==
    /\ \/ AppendThought \/ CommitVectors \/ ScanEnds \/ RepairIdle \/ FlushDerived
       \/ Enable \/ Disable \/ CrashEdges \/ CloseChain \/ OpenChain
    /\ scan' = IF handle'.job = NoJob THEN "none" ELSE handle'.job.state

\* A scan ends, and then it is adopted or forgotten: the steps of ScanEnds, RepairIdle
\* and whatever else takes a result, told by the scan alone.
ScanMoves ==
    /\ scan # "none"
    /\ \E to \in {"none", "running", "done", "failed"} \ {scan} : scan' = to

\* The scan thread runs, and a chain that is in use is polled.
EdgeFairness == WF_scan(ScanMoves)

EdgeSpec == EdgeInit /\ [][EdgeNext]_edgeVars /\ EdgeFairness

-----------------------------------------------------------------------------
(* Properties *)

EdgesSettled == handle.queue = <<>> /\ handle.job = NoJob

\* The neighbours i has when every thought in added has been compared with those
\* before it.
Reference(i, added) ==
    NearestOf(i, Candidates(i, {j \in ToSet(chain) : (j < i /\ i \in added)
                                                    \/ (i < j /\ j \in added)}))

\* Whatever mixture of inline updates, scans of snapshots that vectors are added to
\* meanwhile, replays and rebuilds an overlay is the result of, it is the one that a
\* comparison of every pair would give: no list misses a neighbour that was scanned
\* in two halves or was pushed out by a farther one, and none names a thought the
\* chain no longer has. (A thought that is added twice does displace others.)
EdgesAreScratch ==
    \A o \in {handle.overlay, handle.saved} \ {NoOverlay} :
        o.twice = {} /\ o.known \subseteq ToSet(chain) =>
            \A i \in ToSet(chain) : o.edges[i] = Reference(i, o.known)

\* As long as no scan fails, vectors are not disabled and the chain can be built from
\* scratch, an overlay that goes with the chain has the edges of all it says it covers,
\* and with nothing queued those of every vector there is: what a crash takes is
\* replayed.
CoverageIsTrue ==
    scanFaults = 0 /\ toggles = 0 /\ born <= MaxFullBuild =>
        /\ \A o \in {handle.overlay, handle.saved} \ {NoOverlay} :
              o.covered \in 1 .. Len(chain) /\ chain[o.covered] = o.head =>
                  ToSet(Prefix(chain, o.covered)) \subseteq o.known
        /\ EdgesSettled /\ handle.overlay # NoOverlay =>
              ToSet(handle.sidecar) \subseteq handle.overlay.known

\* An overlay has the edges it should and those of every thought it should know.
OverlayIsTrue == EdgesAreScratch /\ CoverageIsTrue

\* When the appends stop, the queue empties and no scan is left to adopt.
BacklogDrains == <>[]EdgesSettled

\* README.md: "after a crash it replays the missing tail on open (or rebuilds if the
\* head does not match), so no implicit edges are lost".
NoEdgesLost ==
    handle.overlay # NoOverlay /\ EdgesSettled /\ handle.managed = "auto" =>
        ToSet(handle.sidecar) \subseteq handle.overlay.known

\* search/implicit_edges.rs: missing thoughts are replayed "each against only the
\* thoughts that preceded it, so no pair is counted twice".
NoPairTwice == handle.overlay # NoOverlay => handle.overlay.twice = {}

=============================================================================
