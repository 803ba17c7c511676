------------------------------ MODULE ChainCache ------------------------------
(***************************************************************************)
(* The chains a daemon has open: MentisDbService::chains and open_locks in *)
(* server.rs, which the handlers of the API and of the dashboard share,    *)
(* the registry of chains on disk, and the operations that open, create,   *)
(* branch, merge and delete chains.                                        *)
(*                                                                         *)
(* A request is one call of a handler.  It runs one plan, a step at a      *)
(* time, and other requests run between any two of its steps.  A handle is *)
(* one opened MentisDb behind its Arc: it keeps its own copy of the chain  *)
(* and its own file descriptor, so two handles of one chain do not see     *)
(* each other's thoughts.  A thought is the request that wrote it; its     *)
(* record in the file names the thought it follows, as prev_hash does.     *)
(***************************************************************************)
EXTENDS Naturals, SequencesExt

CONSTANTS
    Keys,       \* chain keys
    Default,    \* MentisDbServiceConfig::default_chain_key
    Existing,   \* the chains in the registry when the daemon starts
    Requests,   \* bound: the calls made
    Plans,      \* what each call may be: [op, key, from]
    HasPin,     \* DashboardState::dashboard_pin.is_some()
    None,
    MaxHandles, \* bound: handles that exist at once
    MaxLocks,   \* bound: per-key mutexes that exist at once
    MaxMishaps  \* bound: failed file operations and clients that disconnect

\* What a request may be: appends, reads, branches and merges are calls of the
\* API, "open", "bootstrap" and "delete" of the dashboard.
Operations == {"append", "read", "branch", "merge", "open", "bootstrap", "delete"}

ASSUME KeyAssumption == Existing \subseteq Keys /\ Default \in Keys
\* What a chain had when the daemon started is named after it.
Thoughts == Keys \cup Requests
Handles == 1..MaxHandles
Locks == 1..MaxLocks
Handle == [key: Keys, chain: Seq(Thoughts), fd: Nat \cup {None}, attached: BOOLEAN,
           owes: BOOLEAN, writer: Requests \cup {None}]
ASSUME NoneAssumption == None \notin Handles \cup Locks \cup Requests \cup Handle
ASSUME PlanAssumption ==
    /\ Plans \in [Requests -> SUBSET [op: Operations, key: Keys, from: Keys \cup {None}]]
    /\ \A r \in Requests : \A p \in Plans[r] :
         p.op \in {"branch", "merge"} => p.from \in Keys
ASSUME PinAssumption == HasPin \in BOOLEAN

VARIABLES
    cache,        \* MentisDbService::chains
    lockOf,       \* MentisDbService::open_locks
    holder,       \* who holds each of those mutexes
    handles,      \* the opened chains
    store,        \* the chain files; `gen` tells a file from one it replaced
    registry,     \* the keys in the registry file
    saving,       \* the registration in progress, under CHAIN_REGISTRY_LOCK
    req,          \* the requests
    acknowledged, \* history: the thoughts of each chain that were acknowledged
    meddled,      \* history: chains deleted, branched to, merged away or opened
                  \* by the dashboard
    mishaps       \* counter of the bound

cacheVars == <<cache, lockOf, holder, handles, store, registry, saving, req,
               acknowledged, meddled, mishaps>>
stored == <<store, registry, acknowledged>>

Op(r) == req[r].plan.op

\* A finished request holds nothing.
Finished == [pc |-> "done", at |-> None, lock |-> None, blk |-> None,
             mine |-> None, aux |-> None, snap |-> {}, batch |-> <<>>,
             known |-> FALSE, gone |-> FALSE]

Old(k) == IF k \in Existing THEN <<k>> ELSE <<>>
Chained(ids) ==
    [i \in DOMAIN ids |-> [id |-> ids[i], prev |-> IF i = 1 THEN None ELSE ids[i - 1]]]

CacheInit ==
    /\ cache = [k \in Keys |-> None]
    /\ lockOf = [k \in Keys |-> None]
    /\ holder = [l \in Locks |-> None]
    /\ handles = [h \in Handles |-> None]
    /\ store = [k \in Keys |-> [exists |-> k \in Existing, gen |-> 0,
                                recs |-> Chained(Old(k))]]
    /\ registry = Existing
    /\ saving = None
    /\ req = [r \in Requests |->
                [f \in DOMAIN Finished \cup {"plan"} |->
                   CASE f = "plan" -> [op |-> None, key |-> None, from |-> None]
                     [] f = "pc"   -> "idle"
                     [] OTHER      -> Finished[f]]]
    /\ acknowledged = [k \in Keys |-> Old(k)]
    /\ meddled = {}
    /\ mishaps = 0

-----------------------------------------------------------------------------
(* Helpers. *)

At(r, pc) == req[r].pc = pc
Step(r, new) ==
    req' = [req EXCEPT ![r] = [f \in DOMAIN @ |-> IF f \in DOMAIN new THEN new[f] ELSE @[f]]]

Ids(recs) == [i \in DOMAIN recs |-> recs[i].id]
\* What open_with_storage accepts: every record follows the one before it.
Readable(recs) == recs = Chained(Ids(recs))

OnDisk(k) == store[k].exists \/ k \in registry

\* An Arc of the handle is alive.
Held(h) == \/ \E k \in Keys : cache[k] = h
           \/ \E r \in Requests : h \in {req[r].mine, req[r].aux}
Free == {h \in Handles : handles[h] = None}
\* A mutex is alive while the map or a request refers to it.
Unused == {l \in Locks : /\ \A k \in Keys : lockOf[k] # l
                         /\ \A r \in Requests : l \notin {req[r].lock, req[r].blk}}
\* Which of the free places is taken makes no difference.
Place(S) == CHOOSE x \in S : TRUE

\* The write lock of the handle can be taken: nobody writes, and no branch
\* holds its read guard on it.
Quiet(h) ==
    /\ handles[h].writer = None
    /\ \A r \in Requests : ~ (Op(r) = "branch" /\ req[r].aux = h)

\* MentisDb::append_thought as far as the file goes.  The writer opens the
\* file at its first write, creating it when it is gone; a descriptor of a
\* file that was deleted meanwhile writes to a file nobody can find.
Written(h, ids) ==
    LET k == handles[h].key
        recs == SubSeq(Chained(handles[h].chain \o ids), Len(handles[h].chain) + 1,
                       Len(handles[h].chain) + Len(ids))
    IN IF handles[h].fd = None \/ (handles[h].fd = store[k].gen /\ store[k].exists)
         THEN [store EXCEPT ![k] =
                 [exists |-> TRUE,
                  gen    |-> IF @.exists THEN @.gen ELSE @.gen + 1,
                  recs   |-> @.recs \o recs]]
         ELSE store
\* The descriptor after the write.
Opened(h) == IF handles[h].fd # None THEN handles[h].fd
             ELSE Written(h, <<>>)[handles[h].key].gen

\* The handle after it appended ids; `owes` is pending_chain_registration_sync.
Extended(h, ids, w) ==
    [handles EXCEPT ![h] = [handles[h] EXCEPT !.chain = @ \o ids, !.fd = Opened(h),
                                              !.owes = handles[h].attached, !.writer = w]]

\* The request has the chain it asked for, and goes on to use it.
Obtained(r, h) ==
    LET p == req[r].plan
    IN Step(r,
         CASE p.op \in {"append", "bootstrap"} ->
                [pc |-> "append", mine |-> h, lock |-> None]
           [] p.op \in {"read", "open"} -> Finished
           [] p.op = "delete" -> [pc |-> "evict", mine |-> None]
           [] p.op = "branch" -> [pc |-> "bfind", mine |-> h, lock |-> None]
           [] p.op = "merge" /\ req[r].at = p.key ->
                [pc |-> "lookup", at |-> p.from, aux |-> h, mine |-> None,
                 lock |-> None]
           [] OTHER -> [pc |-> "copy", mine |-> h, lock |-> None])

\* The request does not get the chain.  Bootstrap creates the chain it did
\* not find; a delete has nothing to protect then and goes on.
NotObtained(r) ==
    Step(r,
      IF req[r].gone THEN Finished ELSE
      CASE Op(r) = "branch" ->
             [pc |-> "brelease", mine |-> None, aux |-> None, lock |-> None]
        [] Op(r) = "bootstrap" /\ req[r].pc \in {"dcache", "devict", "dload"} ->
             [pc |-> "oload", mine |-> None]
        [] Op(r) = "delete" -> [pc |-> "evict", mine |-> None]
        [] OTHER -> Finished)

Unheld(l) == IF l = None THEN holder ELSE [holder EXCEPT ![l] = None]

-----------------------------------------------------------------------------
(* A request of the API: get_chain, get_or_create_chain and                *)
(* open_chain_single_flight.                                               *)

FirstStep(p) ==
    CASE p.op \in {"append", "read", "merge"} -> "lookup"
      [] p.op = "branch" -> "bentry"
      [] p.op = "delete" /\ HasPin -> "evict"
      [] OTHER -> "dlookup"

Start(r) ==
    /\ At(r, "idle")
    /\ \E p \in Plans[r] :
         /\ Step(r, [plan |-> p, pc |-> FirstStep(p), at |-> p.key])
         /\ meddled' = meddled \cup
              (CASE p.op \in {"append", "read"} -> {}
                 [] p.op = "merge" -> {p.from}
                 [] OTHER -> {p.key})
    /\ UNCHANGED <<cache, lockOf, holder, handles, stored, saving, mishaps>>

\* get_or_create_chain serves appends and the target of a merge; get_chain
\* serves the rest, and creates the default chain only.
Lookup(r) ==
    /\ At(r, "lookup")
    /\ LET k == req[r].at
           creates == Op(r) = "append" \/ (Op(r) = "merge" /\ k = req[r].plan.key)
       IN IF cache[k] # None
            THEN Obtained(r, cache[k])
            ELSE Step(r, [pc |-> IF creates \/ k = Default THEN "entry" ELSE "exists"])
    /\ UNCHANGED <<cache, lockOf, holder, handles, stored, saving, meddled, mishaps>>

\* chain_exists_on_disk.
Exists(r) ==
    /\ At(r, "exists")
    /\ IF OnDisk(req[r].at) THEN Step(r, [pc |-> "entry"]) ELSE NotObtained(r)
    /\ UNCHANGED <<cache, lockOf, holder, handles, stored, saving, meddled, mishaps>>

\* Take the mutex of the key from open_locks, or put a new one there.
Entry(r) ==
    /\ \/ At(r, "entry") \/ At(r, "bentry")
    /\ LET k == req[r].at
           l == IF lockOf[k] # None THEN lockOf[k] ELSE Place(Unused)
       IN /\ lockOf[k] # None \/ Unused # {}
          /\ lockOf' = [lockOf EXCEPT ![k] = l]
          /\ Step(r, IF At(r, "entry") THEN [pc |-> "acquire", lock |-> l]
                                       ELSE [pc |-> "bacquire", blk |-> l])
    /\ UNCHANGED <<cache, holder, handles, stored, saving, meddled, mishaps>>

Acquire(r) ==
    /\ \/ At(r, "acquire") /\ holder[req[r].lock] = None
          /\ holder' = [holder EXCEPT ![req[r].lock] = r]
          /\ Step(r, [pc |-> "check"])
       \/ At(r, "bacquire") /\ holder[req[r].blk] = None
          /\ holder' = [holder EXCEPT ![req[r].blk] = r]
          /\ Step(r, [pc |-> "bcheck"])
    /\ UNCHANGED <<cache, lockOf, handles, stored, saving, meddled, mishaps>>

\* With the mutex: somebody may have opened the chain in the meantime.
Check(r) ==
    /\ At(r, "check")
    /\ IF cache[req[r].at] # None
         THEN /\ Obtained(r, cache[req[r].at])
              /\ holder' = Unheld(req[r].lock)
         ELSE /\ Step(r, [pc |-> "oload"])
              /\ UNCHANGED holder
    /\ UNCHANGED <<cache, lockOf, handles, stored, saving, meddled, mishaps>>

\* Variant: a failed open keeps the guard of the mutex.
OpenFailsHolding(r) ==
    /\ NotObtained(r)
    /\ UNCHANGED <<cache, lockOf, holder, handles, stored, meddled>>

\* Variant: a failed open removes the entry of open_locks.
OpenFailsForgetting(r) ==
    /\ NotObtained(r)
    /\ holder' = Unheld(req[r].lock)
    /\ lockOf' = [lockOf EXCEPT ![req[r].at] = None]
    /\ UNCHANGED <<cache, handles, stored, meddled>>

\* The open fails: the guard goes, the entry of open_locks stays.
LoadFails(r) ==
    /\ NotObtained(r)
    /\ holder' = Unheld(req[r].lock)
    /\ UNCHANGED <<cache, lockOf, handles, stored, meddled>>

NewHandle(k, h) ==
    handles' = [handles EXCEPT ![h] =
        [key |-> k, chain |-> Ids(store[k].recs), fd |-> None, attached |-> TRUE,
         owes |-> FALSE, writer |-> None]]

\* open_with_key_and_storage_kind: open_with_storage reads and verifies the
\* file, on the blocking pool.
OpenLoad(r) ==
    /\ At(r, "oload")
    /\ IF Readable(store[req[r].at].recs)
         THEN /\ Free # {}
              /\ NewHandle(req[r].at, Place(Free))
              /\ Step(r, [pc |-> "oreg", mine |-> Place(Free)])
              /\ UNCHANGED <<cache, lockOf, holder, stored, meddled>>
         ELSE LoadFails(r)
    /\ UNCHANGED <<saving, mishaps>>

\* persist_chain_registration, called by an open, after an append, by the
\* last user of a handle: read the registry under its lock, then write it.
SaveBegin(by, k) ==
    /\ saving = None
    /\ saving' = [by |-> by, key |-> k, snap |-> registry]

SaveEnd ==
    /\ registry' = saving.snap \cup {saving.key}
    /\ saving' = None

OpenRegister(r) ==
    /\ At(r, "oreg")
    /\ SaveBegin(r, req[r].at)
    /\ Step(r, [pc |-> "osave"])
    /\ UNCHANGED <<cache, lockOf, holder, handles, stored, meddled, mishaps>>

\* The chain is open.  Nobody waits for it when the request is gone.
OpenSave(r) ==
    /\ At(r, "osave")
    /\ SaveEnd
    /\ Step(r, CASE Op(r) = "branch" /\ req[r].at = req[r].plan.key ->
                      [pc |-> "genesis"]
                 [] Op(r) = "bootstrap" -> [pc |-> "dpublish"]
                 [] OTHER -> IF req[r].gone THEN Finished ELSE [pc |-> "publish"])
    /\ UNCHANGED <<cache, lockOf, holder, handles, store, acknowledged, meddled, mishaps>>

\* Variant: the entry of open_locks goes before the chain is in the map.
PublishLate(r) ==
    /\ At(r, "publish")
    /\ lockOf' = [lockOf EXCEPT ![req[r].at] = None]
    /\ Step(r, [pc |-> "forget"])
    /\ UNCHANGED <<cache, holder, handles, stored, saving, meddled, mishaps>>

Publish(r) ==
    /\ At(r, "publish")
    /\ cache' = [cache EXCEPT ![req[r].at] = req[r].mine]
    /\ Step(r, [pc |-> "forget"])
    /\ UNCHANGED <<lockOf, holder, handles, stored, saving, meddled, mishaps>>

\* The entry goes from open_locks, and the guard with the return.
Forget(r) ==
    /\ At(r, "forget")
    /\ lockOf' = [lockOf EXCEPT ![req[r].at] = None]
    /\ holder' = Unheld(req[r].lock)
    /\ Obtained(r, req[r].mine)
    /\ UNCHANGED <<cache, handles, stored, saving, meddled, mishaps>>

-----------------------------------------------------------------------------
(* Appending to the chain, under the write lock of its handle. *)

AfterWrite(r) ==
    IF req[r].gone THEN Finished ELSE
    CASE Op(r) = "branch" -> [pc |-> "bpublish"]
      [] Op(r) = "merge" -> [pc |-> "evict", aux |-> None, mine |-> None]
      [] OTHER -> Finished

\* The append itself, and whether it goes on to write the registration: it
\* does for the first thought of the chain and for that of a new agent.
Write(r, h, ids) ==
    /\ store' = Written(h, ids)
    /\ acknowledged' = [acknowledged EXCEPT ![handles[h].key] = @ \o ids]
    /\ \E now \in BOOLEAN :
         /\ IF handles[h].attached THEN handles[h].chain = <<>> => now ELSE ~ now
         /\ handles' = Extended(h, ids, IF now THEN r ELSE None)
         /\ Step(r, IF now THEN [pc |-> "areg"] ELSE AfterWrite(r))

\* append_thought_detached; bootstrap appends to an empty chain only.
AppendThought(r) ==
    /\ At(r, "append") /\ Quiet(req[r].mine)
    /\ IF Op(r) = "bootstrap" /\ handles[req[r].mine].chain # <<>>
         THEN Step(r, Finished) /\ UNCHANGED <<store, acknowledged, handles>>
         ELSE Write(r, req[r].mine, <<r>>)
    /\ UNCHANGED <<cache, lockOf, holder, registry, saving, meddled, mishaps>>

AppendRegister(r) ==
    /\ At(r, "areg")
    /\ \E h \in Handles :
         handles[h] # None /\ handles[h].writer = r /\ SaveBegin(r, handles[h].key)
    /\ Step(r, [pc |-> "asave"])
    /\ UNCHANGED <<cache, lockOf, holder, handles, stored, meddled, mishaps>>

AppendSave(r) ==
    /\ At(r, "asave")
    /\ SaveEnd
    /\ handles' = [h \in Handles |->
         IF handles[h] # None /\ handles[h].writer = r
           THEN [handles[h] EXCEPT !.writer = None, !.owes = FALSE] ELSE handles[h]]
    /\ Step(r, AfterWrite(r))
    /\ UNCHANGED <<cache, lockOf, holder, store, acknowledged, meddled, mishaps>>

-----------------------------------------------------------------------------
(* branch_chain, which holds the mutex of the new key throughout. *)

BranchCheck(r) ==
    /\ At(r, "bcheck")
    /\ LET k == req[r].plan.key
       IN IF cache[k] # None \/ OnDisk(k)
            THEN NotObtained(r)
            ELSE Step(r, [pc |-> "lookup", at |-> req[r].plan.from])
    /\ UNCHANGED <<cache, lockOf, holder, handles, stored, saving, meddled, mishaps>>

\* The source has the thought to branch at, and stays read-locked while
\* branch_into runs; or it does not have it.
BranchFind(r) ==
    /\ At(r, "bfind") /\ handles[req[r].mine].writer = None
    /\ \/ NotObtained(r)
       \/ /\ handles[req[r].mine].chain # <<>>
          /\ Step(r, [pc |-> "oload", at |-> req[r].plan.key,
                      aux |-> req[r].mine, mine |-> None])
    /\ UNCHANGED <<cache, lockOf, holder, handles, stored, saving, meddled, mishaps>>

\* branch_into with the branch open: it must be empty.
Genesis(r) ==
    /\ At(r, "genesis")
    /\ IF handles[req[r].mine].chain # <<>>
         THEN NotObtained(r) /\ UNCHANGED <<store, acknowledged, handles>>
         ELSE Write(r, req[r].mine, <<r>>)
    /\ UNCHANGED <<cache, lockOf, holder, registry, saving, meddled, mishaps>>

BranchPublish(r) ==
    /\ At(r, "bpublish")
    /\ cache' = [cache EXCEPT ![req[r].plan.key] = req[r].mine]
    /\ Step(r, [pc |-> "brelease", mine |-> None, aux |-> None])
    /\ UNCHANGED <<lockOf, holder, handles, stored, saving, meddled, mishaps>>

\* Whatever came of it: drop the guard, then remove the entry of the key.
BranchRelease(r) ==
    /\ At(r, "brelease")
    /\ holder' = Unheld(req[r].blk)
    /\ Step(r, [pc |-> "bforget", blk |-> None])
    /\ UNCHANGED <<cache, lockOf, handles, stored, saving, meddled, mishaps>>

BranchForget(r) ==
    /\ At(r, "bforget")
    /\ lockOf' = [lockOf EXCEPT ![req[r].plan.key] = None]
    /\ Step(r, Finished)
    /\ UNCHANGED <<cache, holder, handles, stored, saving, meddled, mishaps>>

-----------------------------------------------------------------------------
(* merge_chains: copy the source to the target, then delete the source.    *)

MergeCopy(r) ==
    /\ At(r, "copy") /\ handles[req[r].mine].writer = None
    /\ Step(r, [pc |-> "paste", batch |-> handles[req[r].mine].chain])
    /\ UNCHANGED <<cache, lockOf, holder, handles, stored, saving, meddled, mishaps>>

MergePaste(r) ==
    /\ At(r, "paste") /\ Quiet(req[r].aux)
    /\ IF req[r].batch = <<>>
         THEN Step(r, AfterWrite(r)) /\ UNCHANGED <<store, acknowledged, handles>>
         ELSE Write(r, req[r].aux, req[r].batch)
    /\ UNCHANGED <<cache, lockOf, holder, registry, saving, meddled, mishaps>>

-----------------------------------------------------------------------------
(* Deleting a chain: the end of a merge and api_delete_chain. *)

Evict(r) ==
    /\ At(r, "evict")
    /\ LET k == req[r].at
       IN /\ cache' = [cache EXCEPT ![k] = None]
          /\ Step(r, IF cache[k] # None THEN [pc |-> "detach", mine |-> cache[k]]
                                        ELSE [pc |-> "dregload"])
    /\ UNCHANGED <<lockOf, holder, handles, stored, saving, meddled, mishaps>>

\* detach_persistence, under the write lock of the evicted handle.
Detach(r) ==
    /\ At(r, "detach") /\ Quiet(req[r].mine)
    /\ handles' = [handles EXCEPT ![req[r].mine].attached = FALSE,
                                ![req[r].mine].owes = FALSE]
    /\ Step(r, [pc |-> "dregload", mine |-> None])
    /\ UNCHANGED <<cache, lockOf, holder, stored, saving, meddled, mishaps>>

\* deregister_chain reads the registry, writes it without the chain and
\* removes the file.  It does not take CHAIN_REGISTRY_LOCK.
DeregisterLoad(r) ==
    /\ At(r, "dregload")
    /\ Step(r, IF req[r].at \in registry THEN [pc |-> "dregsave", snap |-> registry]
                                         ELSE Finished)
    /\ UNCHANGED <<cache, lockOf, holder, handles, stored, saving, meddled, mishaps>>

DeregisterSave(r) ==
    /\ At(r, "dregsave")
    /\ registry' = req[r].snap \ {req[r].at}
    /\ Step(r, [pc |-> "unlink", snap |-> {}])
    /\ UNCHANGED <<cache, lockOf, holder, handles, store, acknowledged, saving, meddled,
                   mishaps>>

Unlink(r) ==
    /\ At(r, "unlink")
    /\ store' = [store EXCEPT ![req[r].at].exists = FALSE, ![req[r].at].recs = <<>>]
    /\ acknowledged' = [acknowledged EXCEPT ![req[r].at] = <<>>]
    /\ Step(r, Finished)
    /\ UNCHANGED <<cache, lockOf, holder, handles, registry, saving, meddled, mishaps>>

-----------------------------------------------------------------------------
(* A request of the dashboard: open_chain_unchecked and its callers, which *)
(* use the same map of open chains and none of the mutexes.                *)

DashLookup(r) ==
    /\ At(r, "dlookup")
    /\ Step(r, [pc |-> "dcache", known |-> req[r].at \in registry])
    /\ UNCHANGED <<cache, lockOf, holder, handles, stored, saving, meddled, mishaps>>

DashCache(r) ==
    /\ At(r, "dcache")
    /\ LET h == cache[req[r].at]
       IN IF h # None THEN Step(r, [pc |-> "devict", mine |-> h])
          ELSE IF req[r].known THEN Step(r, [pc |-> "dload"]) ELSE NotObtained(r)
    /\ UNCHANGED <<cache, lockOf, holder, handles, stored, saving, meddled, mishaps>>

\* evict_deleted_cached_chain, then the test whether the file is ahead of the
\* handle, which counts as no while somebody writes.
DashEvict(r) ==
    /\ At(r, "devict")
    /\ LET k == req[r].at
           h == req[r].mine
           ahead == /\ handles[h].writer = None
                    /\ store[k].exists
                    /\ Len(store[k].recs) > Len(handles[h].chain)
       IN IF k \notin registry
            THEN cache' = [cache EXCEPT ![k] = None] /\ NotObtained(r)
            ELSE /\ IF ahead /\ req[r].known THEN Step(r, [pc |-> "dload"])
                                             ELSE Obtained(r, h)
                 /\ UNCHANGED cache
    /\ UNCHANGED <<lockOf, holder, handles, stored, saving, meddled, mishaps>>

\* Open the file; a handle that was behind serves on when that fails.
DashLoad(r) ==
    /\ At(r, "dload")
    /\ LET k == req[r].at
       IN IF Readable(store[k].recs)
            THEN /\ Free # {}
                 /\ NewHandle(k, Place(Free))
                 /\ Step(r, [pc |-> "dpublish", mine |-> Place(Free)])
            ELSE /\ IF req[r].mine # None THEN Obtained(r, req[r].mine)
                                          ELSE NotObtained(r)
                 /\ UNCHANGED handles
    /\ UNCHANGED <<cache, lockOf, holder, stored, saving, meddled, mishaps>>

DashPublish(r) ==
    /\ At(r, "dpublish")
    /\ cache' = [cache EXCEPT ![req[r].at] = req[r].mine]
    /\ Obtained(r, req[r].mine)
    /\ UNCHANGED <<lockOf, holder, handles, stored, saving, meddled, mishaps>>

-----------------------------------------------------------------------------
(* The last Arc of a handle goes, a file operation fails, a client leaves. *)

\* Drop for MentisDb writes the registration the handle still owes.
DropHandle(h) ==
    /\ handles[h] # None /\ ~ Held(h)
    /\ \A r \in Requests : handles[h].writer # r
    /\ IF handles[h].owes
         THEN /\ SaveBegin(None, handles[h].key)
              /\ handles' = [handles EXCEPT ![h].owes = FALSE]
         ELSE /\ handles' = [handles EXCEPT ![h] = None]
              /\ UNCHANGED saving
    /\ UNCHANGED <<cache, lockOf, holder, stored, req, meddled, mishaps>>

DropSave ==
    /\ saving # None /\ saving.by = None
    /\ SaveEnd
    /\ UNCHANGED <<cache, lockOf, holder, handles, store, acknowledged, req, meddled, mishaps>>

\* The merge stops at an append that fails: what it copied stays, and so does
\* the source.
MergeStops(r) ==
    /\ At(r, "paste") /\ Quiet(req[r].aux)
    /\ Step(r, Finished)
    /\ \E n \in 0 .. Len(req[r].batch) - 1 :
         LET h == req[r].aux
             copied == SubSeq(req[r].batch, 1, n)
         IN IF n = 0
              THEN UNCHANGED <<store, acknowledged, handles>>
              ELSE /\ store' = Written(h, copied)
                   /\ acknowledged' = [acknowledged EXCEPT ![handles[h].key] = @ \o copied]
                   /\ handles' = Extended(h, copied, None)
    /\ UNCHANGED <<cache, lockOf, holder, registry, saving, meddled>>

\* A file cannot be read or written; an append that fails is not in the chain.
Fault(r) ==
    /\ mishaps < MaxMishaps /\ mishaps' = mishaps + 1
    /\ \/ At(r, "oload") /\ LoadFails(r) /\ UNCHANGED saving
       \/ At(r, "osave") /\ LoadFails(r) /\ saving' = None
       \/ MergeStops(r)
       \/ /\ At(r, "append") /\ Quiet(req[r].mine)
          /\ Step(r, Finished)
          /\ UNCHANGED <<cache, lockOf, holder, handles, stored, saving, meddled>>

\* The client disconnects and the future of its request is dropped where it
\* waits, with the guards it holds.  What runs on the blocking pool runs on.
Cancel(r) ==
    /\ mishaps < MaxMishaps /\ mishaps' = mishaps + 1
    /\ \/ /\ \/ req[r].pc \in {"acquire", "bacquire", "bfind", "copy", "paste", "detach"}
             \/ At(r, "append") /\ Op(r) = "bootstrap"
          /\ Step(r, Finished)
       \/ /\ \/ req[r].pc \in {"oload", "oreg", "osave"} /\ Op(r) # "bootstrap"
             \/ req[r].pc \in {"genesis", "areg", "asave"} /\ Op(r) = "branch"
          /\ ~ req[r].gone
          /\ Step(r, [gone |-> TRUE, lock |-> None, blk |-> None])
    /\ holder' = [l \in Locks |-> IF holder[l] = r THEN None ELSE holder[l]]
    /\ UNCHANGED <<cache, lockOf, handles, stored, saving, meddled>>

\* What the daemon does for a request once it has begun.
Progress(r) ==
    \/ Lookup(r) \/ Exists(r) \/ Entry(r) \/ Acquire(r) \/ Check(r)
    \/ OpenLoad(r) \/ OpenRegister(r) \/ OpenSave(r) \/ Publish(r) \/ Forget(r)
    \/ AppendThought(r) \/ AppendRegister(r) \/ AppendSave(r)
    \/ BranchCheck(r) \/ BranchFind(r) \/ Genesis(r) \/ BranchPublish(r)
    \/ BranchRelease(r) \/ BranchForget(r)
    \/ MergeCopy(r) \/ MergePaste(r)
    \/ Evict(r) \/ Detach(r) \/ DeregisterLoad(r) \/ DeregisterSave(r) \/ Unlink(r)
    \/ DashLookup(r) \/ DashCache(r) \/ DashEvict(r) \/ DashLoad(r) \/ DashPublish(r)

Drops == DropSave \/ \E h \in Handles : DropHandle(h)

CacheNext ==
    \/ \E r \in Requests : Start(r) \/ Progress(r) \/ Fault(r) \/ Cancel(r)
    \/ Drops

\* The daemon goes on while something can; nothing makes a client call, leave
\* or a disk fail.  No request runs forever, so that much keeps each going.
CacheFairness == WF_cacheVars(Drops \/ \E r \in Requests : Progress(r))

CacheSpec == CacheInit /\ [][CacheNext]_cacheVars /\ CacheFairness

-----------------------------------------------------------------------------
(* Properties. *)

\* A handle somebody can still append through.
Live(h) == /\ handles[h] # None /\ handles[h].attached
           /\ \/ \E k \in Keys : cache[k] = h
              \/ \E r \in Requests : ~ req[r].gone /\ h \in {req[r].mine, req[r].aux}

OneHandleOf(k) ==
    \A g, h \in Handles :
        Live(g) /\ Live(h) /\ handles[g].key = k /\ handles[h].key = k => g = h

\* server.rs:4075, "Open `chain_key` on the blocking pool, exactly once per
\* key": the API's own requests never have two handles of one chain, and so
\* two views of it and two writers of its file.
SingleFlight == \A k \in Keys : OneHandleOf(k)

\* The same of a chain that only saw appends, reads, merges into it and
\* branches from it, whatever is deleted, merged away, branched to or opened
\* by the dashboard next to it.
SingleFlightAlone == \A k \in Keys \ meddled : OneHandleOf(k)

\* The file of such a chain holds what was acknowledged, in order, as one
\* chain of hashes.
AcknowledgedIsStored ==
    \A k \in Keys \ meddled : store[k].recs = Chained(acknowledged[k])

\* The handlers never wait on one another for good, through the mutexes of
\* open_locks, the registry lock and the guards of the handles: again and
\* again every request that began is over.
RequestsEnd == []<>(\A r \in Requests : At(r, "idle") \/ At(r, "done"))

=============================================================================
