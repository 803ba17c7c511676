----------------------------- MODULE HandlesProofs -----------------------------
(***************************************************************************)
(* Proofs about ChainCache, for every set of chains, of requests and of    *)
(* plans for them, however many handles, mutexes and mishaps there are,    *)
(* and about MigrationEngine, for every number of attempts, crashes,       *)
(* faults and operator commands.                                           *)
(*                                                                         *)
(* The inductive invariant of ChainCache says of every request what it     *)
(* refers to at the step it is at (Aimed, Handed), which mutex it holds    *)
(* (Guarded), and, of a chain nobody meddled with, that whoever opens it   *)
(* is alone (Alone), that the only handle of it is in the map or in the    *)
(* hands of that request (Sole), and that this handle has what was         *)
(* acknowledged and writes to the file of that name (HandleFits).          *)
(***************************************************************************)
EXTENDS ChainCache, MigrationEngine, TLAPS, SequenceTheorems

(* What a request is about, from the step it is at. *)

Slot == Handles \cup {None}
Mutex == Locks \cup {None}

\* Before it starts and when it is over a request refers to nothing.
Over == {"idle", "done"}
\* The steps of a call of the API that asks for a chain.
Asking == {"lookup", "exists", "entry", "acquire", "check", "publish", "forget"}
\* The steps with the mutex of the key.
Opening == {"check", "oload", "oreg", "osave", "publish", "forget"}
\* The steps that a chain must be meddled with to be at.
Meddling == {"dlookup", "dcache", "devict", "dload", "dpublish", "evict", "detach",
             "dregload", "dregsave", "unlink", "bentry", "bacquire", "bcheck"}
\* The steps at which the chain of `at` is in the request's hands.
Owning == {"oreg", "osave", "publish", "forget", "detach", "devict", "dpublish", "append"}
\* The steps of a branch that write to the new chain.
Branching == {"genesis", "areg", "asave", "bpublish"}
\* The steps that a request whose client left goes through.
Leaving == {"oload", "oreg", "osave", "genesis", "areg", "asave"}
\* The steps with an opened chain that is not in the map yet.
Fresh == {"oreg", "osave", "publish"}

CacheTyped ==
    /\ cache \in [Keys -> Slot]
    /\ lockOf \in [Keys -> Mutex]
    /\ holder \in [Locks -> Requests \cup {None}]
    /\ DOMAIN handles = Handles
    /\ DOMAIN store = Keys
    /\ DOMAIN req = Requests
    /\ acknowledged \in [Keys -> Seq(Thoughts)]

Record == [id: Thoughts, prev: Thoughts \cup {None}]
File == [exists: BOOLEAN, gen: Nat, recs: Seq(Record)]

HandleTyped(h) == handles[h] \in Handle \cup {None}
StoreTyped(k) == store[k] \in File

RequestTyped(r) ==
    /\ DOMAIN req[r] = {"plan", "pc", "at", "lock", "blk", "mine", "aux", "snap", "batch",
                        "known", "gone"}
    /\ req[r].lock \in Mutex /\ req[r].blk \in Mutex
    /\ req[r].mine \in Slot /\ req[r].aux \in Slot
    /\ req[r].batch \in Seq(Thoughts)
    /\ req[r].gone \in BOOLEAN

\* Which chain a request is at, what its plan meddles with.
Aimed(r) ==
    LET q == req[r]
    IN /\ q.pc \in Over => q.mine = None /\ q.aux = None /\ q.lock = None /\ q.blk = None
                           /\ ~ q.gone
       /\ q.pc # "idle" => q.plan \in Plans[r]
       /\ q.pc \notin Over => q.at \in Keys
       /\ q.pc \in Meddling => q.at \in meddled
       /\ q.pc \notin Over /\ q.plan.op \in {"branch", "open", "bootstrap", "delete"} =>
            q.plan.key \in meddled
       /\ q.pc \notin Over /\ q.plan.op = "merge" => q.plan.from \in meddled
       /\ q.pc \notin Over => q.at \in {q.plan.key, q.plan.from}
       /\ q.pc \notin Over /\ q.plan.op \in {"open", "bootstrap", "delete"} => q.at = q.plan.key
       /\ q.pc \in {"bentry", "bacquire", "bcheck", "genesis", "bpublish", "brelease", "bforget"} =>
            q.plan.op = "branch"
       /\ q.pc \in {"bentry", "bacquire", "bcheck"} => q.at = q.plan.key
       /\ q.pc \in {"copy", "paste"} =>
            q.plan.op = "merge" /\ q.aux # None /\ q.at \in meddled
       /\ q.pc \in {"areg", "asave"} /\ q.plan.op = "merge" => q.at \in meddled
       /\ q.pc \in Asking => q.plan.op \in {"append", "read", "merge", "branch"}
       /\ q.pc \in Asking \cup Opening /\ q.plan.op = "merge" /\ q.at # q.plan.key =>
            q.aux # None
       /\ q.pc \in {"oload", "oreg", "osave"} => q.plan.op \notin {"open", "delete"}
       /\ q.pc \in {"areg", "asave"} => q.plan.op \in {"append", "bootstrap", "branch", "merge"}
       /\ q.pc = "bfind" => q.plan.op = "branch" /\ q.lock = None
       /\ q.pc \notin Over /\ q.plan.op \in {"open", "bootstrap", "delete"} =>
            q.lock = None /\ q.blk = None /\ q.aux = None
       /\ q.pc \in {"dlookup", "dcache"} => q.mine = None
       /\ q.pc \in {"evict", "detach", "dregload"} => q.plan.op \in {"delete", "merge"}
       /\ q.pc \in {"dlookup", "dcache", "devict", "dload", "dpublish"} =>
            q.plan.op \in {"open", "bootstrap", "delete"}
       /\ q.pc = "append" => q.plan.op \in {"append", "bootstrap"}
       /\ q.gone => q.pc \in Leaving /\ q.plan.op # "bootstrap"
       /\ q.gone /\ q.pc \in {"genesis", "areg", "asave"} => q.plan.op = "branch"

\* A request past the mutex holds it.
Guarded(r) ==
    LET q == req[r]
    IN /\ q.pc \in {"acquire"} => q.lock # None
       /\ q.pc = "bacquire" => q.blk # None
       /\ q.pc \in Opening /\ q.lock # None => holder[q.lock] = r /\ q.lock # q.blk
       /\ q.blk # None /\ q.pc # "bacquire" => holder[q.blk] = r

\* The handles a request refers to exist, and are of the chain it is at.
Handed(r) ==
    LET q == req[r]
    IN /\ q.mine # None => handles[q.mine] # None
       /\ q.aux # None => handles[q.aux] # None
       /\ q.pc \in Owning => q.mine # None
       /\ q.pc \in Owning \cup {"dload"} /\ q.mine # None => handles[q.mine].key = q.at
       /\ q.pc \in Branching /\ q.plan.op = "branch" =>
            q.mine # None /\ handles[q.mine].key = q.plan.key
       /\ q.pc \in {"bfind", "copy"} => q.mine # None

\* A chain nobody meddled with is opened by one request at a time.
Alone(r) ==
    LET q == req[r]
    IN q.at \notin meddled /\ ~ q.gone /\ q.pc \notin Over =>
       /\ q.pc \in Opening \cup {"acquire"} =>
            /\ q.lock # None
            /\ cache[q.at] = None => lockOf[q.at] = q.lock
       /\ q.pc \in {"oload"} \cup Fresh => cache[q.at] = None
       /\ q.pc = "forget" => cache[q.at] = q.mine

HandleFits(h, k) ==
    /\ handles[h].chain = acknowledged[k]
    /\ handles[h].fd = None \/ (handles[h].fd = store[k].gen /\ store[k].exists)

\* The only handle of such a chain is the one in the map, or that of the
\* request that is opening it, and it has the thoughts of the file.
Sole(r) ==
    LET q == req[r]
    IN ~ q.gone =>
       /\ \A h \in Handles :
            h \in {q.mine, q.aux} /\ handles[h].key \notin meddled =>
              \/ h = cache[handles[h].key]
              \/ q.pc \in Fresh /\ q.at = handles[h].key /\ q.mine = h
       /\ q.pc \in Fresh /\ q.at \notin meddled => HandleFits(q.mine, q.at)

Cached(k) ==
    cache[k] # None =>
        /\ handles[cache[k]] # None /\ handles[cache[k]].key = k
        /\ k \notin meddled => HandleFits(cache[k], k)

Sound(k) == k \notin meddled => store[k].recs = Chained(acknowledged[k])

CacheInv ==
    /\ CacheTyped /\ meddled \subseteq Keys
    /\ \A h \in Handles : HandleTyped(h)
    /\ \A k \in Keys : StoreTyped(k) /\ Cached(k) /\ Sound(k)
    /\ \A r \in Requests :
         RequestTyped(r) /\ Aimed(r) /\ Guarded(r) /\ Handed(r) /\ Alone(r) /\ Sole(r)

-----------------------------------------------------------------------------
(* Chains of records. *)

\* The record of the i-th thought.
Link(ids, i) == [id |-> ids[i], prev |-> IF i = 1 THEN None ELSE ids[i - 1]]

LEMMA ChainedType ==
    ASSUME NEW ids \in Seq(Thoughts)
    PROVE  /\ Chained(ids) \in Seq(Record) /\ Len(Chained(ids)) = Len(ids)
           /\ \A i \in 1..Len(ids) : Chained(ids)[i] = Link(ids, i)
<1> DEFINE e(i) == Link(ids, i)
<1>1. DOMAIN ids = 1..Len(ids) /\ Len(ids) \in Nat
  OBVIOUS
<1>2. \A i \in 1..Len(ids) : e(i) \in Record
  BY <1>1 DEF Record, Link
<1>3. Chained(ids) = [i \in 1..Len(ids) |-> e(i)]
  BY <1>1 DEF Chained, Link
<1> HIDE DEF e
<1>4. [i \in 1..Len(ids) |-> e(i)] \in Seq(Record) /\ Len([i \in 1..Len(ids) |-> e(i)]) = Len(ids)
  BY <1>1, <1>2
<1>5. QED
  BY <1>3, <1>4 DEF e

LEMMA IdsType ==
    ASSUME NEW recs \in Seq(Record)
    PROVE  /\ Ids(recs) \in Seq(Thoughts) /\ Len(Ids(recs)) = Len(recs)
           /\ \A i \in 1..Len(recs) : Ids(recs)[i] = recs[i].id
<1> DEFINE e(i) == recs[i].id
<1>1. DOMAIN recs = 1..Len(recs) /\ Len(recs) \in Nat
  OBVIOUS
<1>2. \A i \in 1..Len(recs) : e(i) \in Thoughts
  <2>1. \A x \in Record : x.id \in Thoughts
    BY DEF Record
  <2>2. \A i \in 1..Len(recs) : recs[i] \in Record
    BY ElementOfSeq
  <2>3. QED
    BY <2>1, <2>2
<1>3. Ids(recs) = [i \in 1..Len(recs) |-> e(i)]
  BY <1>1 DEF Ids
<1> HIDE DEF e
<1>4. [i \in 1..Len(recs) |-> e(i)] \in Seq(Thoughts) /\ Len([i \in 1..Len(recs) |-> e(i)]) = Len(recs)
  BY <1>1, <1>2
<1>5. QED
  BY <1>3, <1>4 DEF e

LEMMA IdsOfChained ==
    ASSUME NEW ids \in Seq(Thoughts)
    PROVE  Ids(Chained(ids)) = ids
<1>1. /\ Chained(ids) \in Seq(Record) /\ Len(Chained(ids)) = Len(ids)
      /\ \A i \in 1..Len(ids) : Chained(ids)[i] = Link(ids, i)
  BY ChainedType
<1>2. /\ Ids(Chained(ids)) \in Seq(Thoughts) /\ Len(Ids(Chained(ids))) = Len(ids)
      /\ \A i \in 1..Len(ids) : Ids(Chained(ids))[i] = Chained(ids)[i].id
  BY <1>1, IdsType
<1>3. \A i \in 1..Len(ids) : Link(ids, i).id = ids[i]
  BY DEF Link
<1>4. \A i \in 1..Len(ids) : Ids(Chained(ids))[i] = ids[i]
  BY <1>1, <1>2, <1>3
<1>5. QED
  BY <1>2, <1>4, SeqEqual

\* What an append adds to the file continues it.
Added(c, ids) == SubSeq(Chained(c \o ids), Len(c) + 1, Len(c) + Len(ids))

LEMMA ChainedGrows ==
    ASSUME NEW c \in Seq(Thoughts), NEW ids \in Seq(Thoughts)
    PROVE  Added(c, ids) \in Seq(Record) /\ Chained(c) \o Added(c, ids) = Chained(c \o ids)
<1> DEFINE all == Chained(c \o ids)
           n == Len(c)
           m == Len(ids)
           added == Added(c, ids)
           sum == Chained(c) \o added
<1>1. /\ c \o ids \in Seq(Thoughts) /\ Len(c \o ids) = n + m /\ n \in Nat /\ m \in Nat
      /\ \A i \in 1..n : (c \o ids)[i] = c[i]
  BY ConcatProperties
<1>2. /\ all \in Seq(Record) /\ Len(all) = n + m
      /\ \A i \in 1 .. (n + m) : all[i] = Link(c \o ids, i)
  BY <1>1, ChainedType
<1>3. /\ added \in Seq(Record) /\ Len(added) = m
      /\ \A i \in 1..m : added[i] = all[n + i]
  <2> HIDE DEF all
  <2>1. \A i \in 1 .. (n + m) : all[i] \in Record
    BY <1>1, <1>2
  <2>2. /\ SubSeq(all, n + 1, n + m) \in Seq(Record)
        /\ Len(SubSeq(all, n + 1, n + m)) = IF n + 1 <= n + m THEN (n + m) - (n + 1) + 1 ELSE 0
        /\ \A i \in 1 .. (n + m) - (n + 1) + 1 : SubSeq(all, n + 1, n + m)[i] = all[n + 1 + i - 1]
    BY <1>1, <1>2, <2>1, SubSeqProperties
  <2>3. QED
    BY <1>1, <2>2 DEF Added, all
<1>4. /\ Chained(c) \in Seq(Record) /\ Len(Chained(c)) = n
      /\ \A i \in 1..n : Chained(c)[i] = Link(c, i)
  BY ChainedType
<1>5. \A i \in 1..n : Chained(c)[i] = all[i]
  <2>1. \A i \in 1..n : Link(c, i) = Link(c \o ids, i)
    BY <1>1 DEF Link
  <2>2. \A i \in 1..n : i \in 1 .. (n + m)
    BY <1>1
  <2>3. QED
    BY <1>2, <1>4, <2>1, <2>2
<1> HIDE DEF all, added
<1>6. /\ sum \in Seq(Record) /\ Len(sum) = n + m
      /\ \A i \in 1 .. (n + m) : sum[i] = IF i <= n THEN Chained(c)[i] ELSE added[i - n]
  <2>1. ASSUME NEW f \in Seq(Record), NEW g \in Seq(Record)
        PROVE  /\ f \o g \in Seq(Record) /\ Len(f \o g) = Len(f) + Len(g)
               /\ \A i \in 1 .. Len(f) + Len(g) :
                    (f \o g)[i] = IF i <= Len(f) THEN f[i] ELSE g[i - Len(f)]
    BY ConcatProperties
  <2>2. /\ sum \in Seq(Record) /\ Len(sum) = Len(Chained(c)) + Len(added)
        /\ \A i \in 1 .. Len(Chained(c)) + Len(added) :
             sum[i] = IF i <= Len(Chained(c)) THEN Chained(c)[i] ELSE added[i - Len(Chained(c))]
    BY <1>3, <1>4, <2>1
  <2>3. QED
    BY <1>1, <1>3, <1>4, <2>2
<1> HIDE DEF sum
<1>7. \A i \in 1 .. (n + m) : sum[i] = all[i]
  <2>1. SUFFICES ASSUME NEW i \in 1 .. (n + m) PROVE sum[i] = all[i]
    OBVIOUS
  <2>2. CASE i <= n
    BY <1>1, <1>5, <1>6, <2>2
  <2>3. CASE ~ (i <= n)
    <3>1. i - n \in 1..m /\ n + (i - n) = i
      BY <1>1, <2>3
    <3>2. QED
      BY <1>3, <1>6, <2>3, <3>1
  <2>4. QED
    BY <2>2, <2>3
<1>8. sum = all
  BY <1>2, <1>6, <1>7, SeqEqual
<1>9. QED
  BY <1>3, <1>8 DEF sum, all, added

-----------------------------------------------------------------------------
LEMMA Apart ==
    None \notin Handles /\ None \notin Locks /\ None \notin Requests /\ None \notin Handle
BY NoneAssumption

\* The parts of the invariant that are about one request.
AboutRequest(r) ==
    RequestTyped(r) /\ Aimed(r) /\ Guarded(r) /\ Handed(r) /\ Alone(r) /\ Sole(r)
AboutKey(k) == StoreTyped(k) /\ Cached(k) /\ Sound(k)

\* Steps of one request.
Other(r) == Requests \ {r}
ByOne(r) == DOMAIN req' = Requests /\ \A s \in Other(r) : req'[s] = req[s]

\* The handle h is still there.
Stays(h) == handles'[h] # None /\ handles'[h].key = handles[h].key

Refers(s, h) == h \in {req[s].mine, req[s].aux}

LEMMA AsideAimed ==
    ASSUME NEW s \in Requests, RequestTyped(s), Aimed(s), req'[s] = req[s],
           meddled \subseteq meddled'
    PROVE  RequestTyped(s)' /\ Aimed(s)'
<1>1. RequestTyped(s)'
  BY DEF RequestTyped
<1>2. Aimed(s)'
  BY DEF Aimed
<1>3. QED
  BY <1>1, <1>2

LEMMA AsideGuarded ==
    ASSUME NEW s \in Requests, RequestTyped(s), Guarded(s), req'[s] = req[s],
           \A l \in Locks : holder[l] = s => holder'[l] = s
    PROVE  Guarded(s)'
BY DEF Guarded, RequestTyped, Mutex

LEMMA AsideHanded ==
    ASSUME NEW s \in Requests, RequestTyped(s), Handed(s), req'[s] = req[s],
           \A h \in Handles : Refers(s, h) /\ handles[h] # None => Stays(h)
    PROVE  Handed(s)'
BY DEF Handed, RequestTyped, Slot, Stays, Refers

LEMMA AsideAlone ==
    ASSUME NEW s \in Requests, Alone(s), Aimed(s), Handed(s), req'[s] = req[s],
           meddled \subseteq meddled',
           \A k \in Keys \ meddled' :
              /\ cache[k] # None => cache'[k] = cache[k]
              /\ cache'[k] = None => lockOf[k] = None \/ lockOf'[k] = lockOf[k]
              /\ cache[k] = None /\ cache'[k] # None =>
                   ~ (req[s].at = k /\ ~ req[s].gone /\ req[s].pc \in {"oload"} \cup Fresh)
    PROVE  Alone(s)'
BY DEF Alone, Aimed, Handed, Owning, Opening, Fresh, Over

LEMMA AsideSole ==
    ASSUME NEW s \in Requests, RequestTyped(s), Aimed(s), Handed(s), Sole(s), req'[s] = req[s],
           meddled \subseteq meddled',
           \A h \in Handles : Refers(s, h) /\ handles[h] # None => Stays(h) /\ handles[h].key \in Keys,
           \A k \in Keys \ meddled' : cache[k] # None => cache'[k] = cache[k],
           \A k \in Keys \ meddled', h \in Handles :
              HandleFits(h, k) /\ Refers(s, h) /\ handles[h].key = k /\ req[s].at = k
                /\ ~ req[s].gone /\ req[s].pc \in Fresh => HandleFits(h, k)'
    PROVE  Sole(s)'
<1> USE Apart
<1> DEFINE q == req[s]
<1> SUFFICES ASSUME ~ q.gone
             PROVE  /\ \A h \in Handles :
                         h \in {q.mine, q.aux} /\ handles'[h].key \notin meddled' =>
                           \/ h = cache'[handles'[h].key]
                           \/ q.pc \in Fresh /\ q.at = handles'[h].key /\ q.mine = h
                    /\ q.pc \in Fresh /\ q.at \notin meddled' => HandleFits(q.mine, q.at)'
  BY DEF Sole, HandleFits
<1>1. ASSUME NEW h \in Handles, h \in {q.mine, q.aux}, handles'[h].key \notin meddled'
      PROVE  \/ h = cache'[handles'[h].key]
             \/ q.pc \in Fresh /\ q.at = handles'[h].key /\ q.mine = h
  <2>1. handles[h] # None /\ Refers(s, h)
    BY <1>1 DEF Handed, Refers
  <2>2. handles'[h].key = handles[h].key /\ handles[h].key \in Keys
    BY <2>1 DEF Stays
  <2>3. QED
    BY <1>1, <2>2 DEF Sole
<1>2. ASSUME q.pc \in Fresh, q.at \notin meddled'
      PROVE  HandleFits(q.mine, q.at)'
  <2>1. /\ q.mine \in Handles /\ Refers(s, q.mine) /\ q.at \in Keys
        /\ handles[q.mine].key = q.at
    BY <1>2 DEF Handed, Refers, RequestTyped, Slot, Aimed, Fresh, Owning, Over
  <2>2. HandleFits(q.mine, q.at)
    BY <1>2 DEF Sole
  <2>3. QED
    BY <1>2, <2>1, <2>2
<1>3. QED
  BY <1>1, <1>2

\* The mutex of a branch is still held for it.
KeepsBranch(r) == req[r].blk # None => holder'[req[r].blk] = r

\* A request that is over is in order.
LEMMA EndStep ==
    ASSUME NEW r \in Requests, DOMAIN req = Requests, RequestTyped(r), Aimed(r),
           req[r].pc # "idle", Step(r, Finished)
    PROVE  ByOne(r) /\ AboutRequest(r)'
<1> USE Apart
<1>1. /\ ByOne(r) /\ DOMAIN req'[r] = DOMAIN req[r]
      /\ req'[r].plan = req[r].plan /\ req'[r].pc = "done" /\ ~ req'[r].gone
      /\ req'[r].lock = None /\ req'[r].blk = None /\ req'[r].mine = None /\ req'[r].aux = None
      /\ req'[r].batch = <<>> /\ req'[r].gone \in BOOLEAN
  BY DEF Step, Finished, ByOne, Other, RequestTyped
<1>2. RequestTyped(r)'
  BY <1>1 DEF RequestTyped, Slot, Mutex
<1>3. Aimed(r)'
  BY <1>1 DEF Aimed, Over, Meddling, Asking, Opening
<1>4. Guarded(r)' /\ Handed(r)' /\ Alone(r)' /\ Sole(r)'
  BY <1>1 DEF Guarded, Handed, Alone, Sole, Opening, Owning, Branching, Over, Fresh
<1>5. QED
  BY <1>1, <1>2, <1>3, <1>4 DEF AboutRequest

\* A request that does not get its chain refers to no handle.
LEMMA NotObtainedStep ==
    ASSUME NEW r \in Requests, DOMAIN req = Requests, RequestTyped(r), Aimed(r),
           req[r].pc \in Asking \cup Opening \cup {"bcheck", "bfind", "genesis", "dcache", "devict",
                                                 "dload"},
           req[r].plan.op \in {"append", "read"} => req[r].pc \in Asking \cup Opening,
           KeepsBranch(r), NotObtained(r), meddled' = meddled
    PROVE  ByOne(r) /\ AboutRequest(r)'
<1> USE Apart
<1> DEFINE q == req[r]
<1>1. CASE q.gone
  BY <1>1, EndStep DEF NotObtained, Aimed, Asking, Opening
<1>2. CASE ~ q.gone /\ q.plan.op = "branch"
  <2>1. /\ ByOne(r) /\ DOMAIN req'[r] = DOMAIN q /\ req'[r].plan = q.plan
        /\ req'[r].pc = "brelease" /\ req'[r].at = q.at /\ req'[r].lock = None
        /\ req'[r].blk = q.blk /\ req'[r].mine = None /\ req'[r].aux = None
        /\ req'[r].batch = q.batch /\ req'[r].gone = q.gone
    BY <1>2 DEF Step, NotObtained, ByOne, Other, RequestTyped, Op
  <2>2. RequestTyped(r)'
    BY <2>1 DEF RequestTyped, Slot, Mutex
  <2>3. Aimed(r)'
    BY <1>2, <2>1 DEF Aimed, Over, Meddling, Asking, Opening
  <2>4. Guarded(r)' /\ Handed(r)' /\ Alone(r)' /\ Sole(r)'
    BY <2>1 DEF Guarded, Handed, Alone, Sole, Opening, Owning, Branching, Over, Fresh, KeepsBranch
  <2>5. QED
    BY <2>1, <2>2, <2>3, <2>4 DEF AboutRequest
<1>3. CASE ~ q.gone /\ q.plan.op = "bootstrap" /\ q.pc \in {"dcache", "devict", "dload"}
  <2>1. /\ ByOne(r) /\ DOMAIN req'[r] = DOMAIN q /\ req'[r].plan = q.plan
        /\ req'[r].pc = "oload" /\ req'[r].at = q.at /\ req'[r].lock = q.lock
        /\ req'[r].blk = q.blk /\ req'[r].mine = None /\ req'[r].aux = q.aux
        /\ req'[r].batch = q.batch /\ req'[r].gone = q.gone
    BY <1>3 DEF Step, NotObtained, ByOne, Other, RequestTyped, Op
  <2>2. RequestTyped(r)'
    BY <2>1 DEF RequestTyped, Slot, Mutex
  <2>3. Aimed(r)'
    BY <1>3, <2>1 DEF Aimed, Over, Meddling, Asking, Opening
  <2>4. q.lock = None /\ q.blk = None /\ q.aux = None /\ q.at \in meddled
    BY <1>3 DEF Aimed, Over, Meddling
  <2>5. Guarded(r)' /\ Handed(r)' /\ Alone(r)' /\ Sole(r)'
    BY <2>1, <2>4 DEF Guarded, Handed, Alone, Sole, Opening, Owning, Branching, Over, Fresh
  <2>6. QED
    BY <2>1, <2>2, <2>3, <2>5 DEF AboutRequest
<1>4. CASE ~ q.gone /\ q.plan.op = "delete"
  <2>1. /\ ByOne(r) /\ DOMAIN req'[r] = DOMAIN q /\ req'[r].plan = q.plan
        /\ req'[r].pc = "evict" /\ req'[r].at = q.at /\ req'[r].lock = q.lock
        /\ req'[r].blk = q.blk /\ req'[r].mine = None /\ req'[r].aux = q.aux
        /\ req'[r].batch = q.batch /\ req'[r].gone = q.gone
    BY <1>4 DEF Step, NotObtained, ByOne, Other, RequestTyped, Op
  <2>2. RequestTyped(r)'
    BY <2>1 DEF RequestTyped, Slot, Mutex
  <2>4. q.lock = None /\ q.blk = None /\ q.aux = None /\ q.at \in meddled
    BY <1>4 DEF Aimed, Over, Asking, Opening
  <2>3. Aimed(r)'
    BY <1>4, <2>1, <2>4 DEF Aimed, Over, Meddling, Asking, Opening
  <2>5. Guarded(r)' /\ Handed(r)' /\ Alone(r)' /\ Sole(r)'
    BY <2>1, <2>4 DEF Guarded, Handed, Alone, Sole, Opening, Owning, Branching, Over, Fresh
  <2>6. QED
    BY <2>1, <2>2, <2>3, <2>5 DEF AboutRequest
<1>5. CASE /\ ~ q.gone /\ q.plan.op \notin {"branch", "delete"}
           /\ ~ (q.plan.op = "bootstrap" /\ q.pc \in {"dcache", "devict", "dload"})
  <2>1. Step(r, Finished)
    BY <1>5 DEF NotObtained, Op
  <2>2. QED
    BY <2>1, EndStep DEF Asking, Opening
<1>6. QED
  BY <1>1, <1>2, <1>3, <1>4, <1>5

\* A request that gets its chain has the only handle of it, unless somebody
\* meddled.
LEMMA ObtainedStep ==
    ASSUME NEW r \in Requests, DOMAIN req = Requests, RequestTyped(r), Aimed(r),
           req[r].pc \in {"lookup", "check", "forget", "devict", "dload", "dpublish"},
           KeepsBranch(r), meddled' = meddled,
           NEW h \in Handles, Obtained(r, h),
           handles'[h] # None, handles'[h].key = req[r].at,
           req[r].at \notin meddled => cache'[req[r].at] = h,
           req[r].aux # None =>
              /\ handles'[req[r].aux] # None
              /\ handles'[req[r].aux].key \notin meddled =>
                   req[r].aux = cache'[handles'[req[r].aux].key]
    PROVE  ByOne(r) /\ AboutRequest(r)'
<1> USE Apart
<1> DEFINE q == req[r]
           op == req[r].plan.op
<1>a. ~ q.gone /\ q.plan \in Plans[r] /\ op \in Operations /\ q.at \in Keys
  BY PlanAssumption DEF Aimed, Leaving, Over
<1>1. CASE op \in {"append", "bootstrap"}
  <2>1. /\ ByOne(r) /\ DOMAIN req'[r] = DOMAIN q /\ req'[r].plan = q.plan
        /\ req'[r].pc = "append" /\ req'[r].at = q.at /\ req'[r].lock = None
        /\ req'[r].blk = q.blk /\ req'[r].mine = h /\ req'[r].aux = q.aux
        /\ req'[r].batch = q.batch /\ req'[r].gone = q.gone
    BY <1>1 DEF Step, Obtained, ByOne, Other, RequestTyped
  <2>2. RequestTyped(r)'
    BY <2>1 DEF RequestTyped, Slot, Mutex
  <2>3. Aimed(r)'
    BY <1>1, <1>a, <2>1 DEF Aimed, Over, Meddling, Asking, Opening
  <2>4. Guarded(r)' /\ Alone(r)'
    BY <2>1 DEF Guarded, Alone, Opening, Over, Fresh, KeepsBranch
  <2>5. Handed(r)'
    BY <2>1, <1>1 DEF Handed, Owning, Branching
  <2>6. Sole(r)'
    BY <2>1 DEF Sole, Fresh
  <2>7. QED
    BY <2>1, <2>2, <2>3, <2>4, <2>5, <2>6 DEF AboutRequest
<1>2. CASE op \in {"read", "open"}
  <2>1. Step(r, Finished)
    BY <1>2 DEF Obtained
  <2>2. QED
    BY <2>1, EndStep
<1>3. CASE op = "delete"
  <2>1. /\ ByOne(r) /\ DOMAIN req'[r] = DOMAIN q /\ req'[r].plan = q.plan
        /\ req'[r].pc = "evict" /\ req'[r].at = q.at /\ req'[r].lock = q.lock
        /\ req'[r].blk = q.blk /\ req'[r].mine = None /\ req'[r].aux = q.aux
        /\ req'[r].batch = q.batch /\ req'[r].gone = q.gone
    BY <1>3 DEF Step, Obtained, ByOne, Other, RequestTyped
  <2>2. RequestTyped(r)'
    BY <2>1 DEF RequestTyped, Slot, Mutex
  <2>3. q.lock = None /\ q.blk = None /\ q.aux = None /\ q.at \in meddled
    BY <1>3 DEF Aimed, Over, Asking
  <2>4. Aimed(r)'
    BY <1>3, <1>a, <2>1, <2>3 DEF Aimed, Over, Meddling, Asking, Opening
  <2>5. Guarded(r)' /\ Handed(r)' /\ Alone(r)' /\ Sole(r)'
    BY <2>1, <2>3 DEF Guarded, Handed, Alone, Sole, Opening, Owning, Branching, Over, Fresh
  <2>6. QED
    BY <2>1, <2>2, <2>4, <2>5 DEF AboutRequest
<1>4. CASE op = "branch"
  <2>1. /\ ByOne(r) /\ DOMAIN req'[r] = DOMAIN q /\ req'[r].plan = q.plan
        /\ req'[r].pc = "bfind" /\ req'[r].at = q.at /\ req'[r].lock = None
        /\ req'[r].blk = q.blk /\ req'[r].mine = h /\ req'[r].aux = q.aux
        /\ req'[r].batch = q.batch /\ req'[r].gone = q.gone
    BY <1>4 DEF Step, Obtained, ByOne, Other, RequestTyped
  <2>2. RequestTyped(r)'
    BY <2>1 DEF RequestTyped, Slot, Mutex
  <2>3. Aimed(r)'
    BY <1>4, <1>a, <2>1 DEF Aimed, Over, Meddling, Asking, Opening
  <2>4. Guarded(r)' /\ Alone(r)'
    BY <2>1 DEF Guarded, Alone, Opening, Over, Fresh, KeepsBranch
  <2>5. Handed(r)'
    BY <2>1 DEF Handed, Owning, Branching
  <2>6. Sole(r)'
    BY <2>1 DEF Sole, Fresh
  <2>7. QED
    BY <2>1, <2>2, <2>3, <2>4, <2>5, <2>6 DEF AboutRequest
<1>5. CASE op = "merge" /\ q.at = q.plan.key
  <2>1. /\ ByOne(r) /\ DOMAIN req'[r] = DOMAIN q /\ req'[r].plan = q.plan
        /\ req'[r].pc = "lookup" /\ req'[r].at = q.plan.from /\ req'[r].lock = None
        /\ req'[r].blk = q.blk /\ req'[r].mine = None /\ req'[r].aux = h
        /\ req'[r].batch = q.batch /\ req'[r].gone = q.gone
    BY <1>5 DEF Step, Obtained, ByOne, Other, RequestTyped
  <2>2. RequestTyped(r)'
    BY <2>1 DEF RequestTyped, Slot, Mutex
  <2>3. q.plan.from \in Keys
    BY <1>a, <1>5, PlanAssumption
  <2>4. Aimed(r)'
    BY <1>5, <1>a, <2>1, <2>3 DEF Aimed, Over, Meddling, Asking, Opening
  <2>5. Guarded(r)' /\ Alone(r)'
    BY <2>1 DEF Guarded, Alone, Opening, Over, Fresh, KeepsBranch
  <2>6. Handed(r)' /\ Sole(r)'
    BY <2>1 DEF Handed, Sole, Owning, Branching, Fresh
  <2>7. QED
    BY <2>1, <2>2, <2>4, <2>5, <2>6 DEF AboutRequest
<1>6. CASE op = "merge" /\ q.at # q.plan.key
  <2>1. /\ ByOne(r) /\ DOMAIN req'[r] = DOMAIN q /\ req'[r].plan = q.plan
        /\ req'[r].pc = "copy" /\ req'[r].at = q.at /\ req'[r].lock = None
        /\ req'[r].blk = q.blk /\ req'[r].mine = h /\ req'[r].aux = q.aux
        /\ req'[r].batch = q.batch /\ req'[r].gone = q.gone
    BY <1>6 DEF Step, Obtained, ByOne, Other, RequestTyped
  <2>2. RequestTyped(r)'
    BY <2>1 DEF RequestTyped, Slot, Mutex
  <2>3. q.at \in meddled /\ q.aux # None
    BY <1>6 DEF Aimed, Over, Asking, Opening
  <2>4. Aimed(r)'
    BY <1>6, <1>a, <2>1, <2>3 DEF Aimed, Over, Meddling, Asking, Opening
  <2>5. Guarded(r)' /\ Alone(r)'
    BY <2>1 DEF Guarded, Alone, Opening, Over, Fresh, KeepsBranch
  <2>6. Handed(r)'
    BY <2>1 DEF Handed, Owning, Branching
  <2>7. Sole(r)'
    BY <2>1, <2>3 DEF Sole, Fresh
  <2>8. QED
    BY <2>1, <2>2, <2>4, <2>5, <2>6, <2>7 DEF AboutRequest
<1>7. QED
  BY <1>a, <1>1, <1>2, <1>3, <1>4, <1>5, <1>6 DEF Operations

shared == <<cache, lockOf, holder, handles, store, acknowledged>>

\* The chain k is being opened by s.
Opens(s, k) ==
    req[s].at = k /\ ~ req[s].gone /\ req[s].pc \in {"oload"} \cup Fresh

\* A request is in order when it keeps its mutexes and its handles, and the map
\* changes for no chain it opens.
LEMMA AsideStep ==
    ASSUME CacheInv, NEW s \in Requests, req'[s] = req[s], meddled \subseteq meddled',
           \A l \in Locks : holder[l] = s => holder'[l] = s,
           \A h \in Handles : Refers(s, h) /\ handles[h] # None => Stays(h),
           \A k \in Keys \ meddled' :
              /\ cache[k] # None => cache'[k] = cache[k]
              /\ cache'[k] = None => lockOf[k] = None \/ lockOf'[k] = lockOf[k],
           \A k \in Keys \ meddled' :
              Opens(s, k) =>
                /\ cache[k] = None => cache'[k] = None
                /\ \A h \in Handles :
                     HandleFits(h, k) /\ Refers(s, h) /\ handles[h].key = k => HandleFits(h, k)'
    PROVE  AboutRequest(s)'
<1>1. RequestTyped(s) /\ Aimed(s) /\ Guarded(s) /\ Handed(s) /\ Alone(s) /\ Sole(s)
  BY DEF CacheInv
<1>2. RequestTyped(s)' /\ Aimed(s)'
  BY <1>1, AsideAimed
<1>3. Guarded(s)'
  BY <1>1, AsideGuarded
<1>4. Handed(s)'
  BY <1>1, AsideHanded
<1>5. Alone(s)'
  BY <1>1, AsideAlone DEF Opens
<1>6. \A h \in Handles :
        Refers(s, h) /\ handles[h] # None => Stays(h) /\ handles[h].key \in Keys
  BY DEF CacheInv, HandleTyped, Handle
<1>7. \A k \in Keys \ meddled', h \in Handles :
            HandleFits(h, k) /\ Refers(s, h) /\ handles[h].key = k /\ req[s].at = k
              /\ ~ req[s].gone /\ req[s].pc \in Fresh => HandleFits(h, k)'
  BY DEF Opens
<1>8. Sole(s)'
  BY <1>1, <1>6, <1>7, AsideSole
<1>9. QED
  BY <1>2, <1>3, <1>4, <1>5, <1>8 DEF AboutRequest

\* A step of one request leaves the others in order when it keeps their
\* mutexes and their handles, and changes the map for no chain they open.
LEMMA FrameStep ==
    ASSUME CacheInv, NEW r \in Requests, ByOne(r) /\ AboutRequest(r)',
           meddled \subseteq meddled', meddled' \subseteq Keys, CacheTyped',
           \A h \in Handles : HandleTyped(h)',
           \A k \in Keys : AboutKey(k)',
           \A s \in Other(r) : \A l \in Locks : holder[l] = s => holder'[l] = s,
           \A s \in Other(r) : \A h \in Handles :
              Refers(s, h) /\ handles[h] # None => Stays(h),
           \A k \in Keys \ meddled' :
              /\ cache[k] # None => cache'[k] = cache[k]
              /\ cache'[k] = None => lockOf[k] = None \/ lockOf'[k] = lockOf[k],
           \A s \in Other(r) : \A k \in Keys \ meddled' :
              Opens(s, k) =>
                /\ cache[k] = None => cache'[k] = None
                /\ \A h \in Handles :
                     HandleFits(h, k) /\ Refers(s, h) /\ handles[h].key = k => HandleFits(h, k)'
    PROVE  CacheInv'
<1>1. \A s \in Other(r) : AboutRequest(s)'
  <2>1. \A s \in Other(r) : s \in Requests /\ req'[s] = req[s]
    BY DEF ByOne, Other
  <2>2. QED
    BY <2>1, AsideStep
<1>2. QED
  BY <1>1 DEF CacheInv, AboutKey, AboutRequest, Other

\* A step that leaves the handles and the files alone.
LEMMA MapStep ==
    ASSUME CacheInv, NEW r \in Requests, ByOne(r) /\ AboutRequest(r)',
           meddled \subseteq meddled', meddled' \subseteq Keys,
           UNCHANGED <<handles, store, acknowledged>>,
           cache' \in [Keys -> Slot], lockOf' \in [Keys -> Mutex],
           holder' \in [Locks -> Requests \cup {None}],
           \A k \in Keys : Cached(k)',
           \A s \in Other(r) : \A l \in Locks : holder[l] = s => holder'[l] = s,
           \A k \in Keys \ meddled' :
              /\ cache[k] # None => cache'[k] = cache[k]
              /\ cache'[k] = None => lockOf[k] = None \/ lockOf'[k] = lockOf[k],
           \A s \in Other(r) : \A k \in Keys \ meddled' :
              Opens(s, k) /\ cache[k] = None => cache'[k] = None
    PROVE  CacheInv'
<1>1. CacheTyped'
  BY DEF CacheInv, CacheTyped, ByOne
<1>2. \A h \in Handles : HandleTyped(h)'
  BY DEF CacheInv, HandleTyped, Handle
<1>3. \A k \in Keys : AboutKey(k)'
  BY DEF CacheInv, AboutKey, StoreTyped, Sound
<1>4. \A h \in Handles : handles[h] # None => Stays(h)
  BY DEF Stays
<1>5. \A h \in Handles, k \in Keys : HandleFits(h, k) => HandleFits(h, k)'
  BY DEF HandleFits
<1>6. QED
  BY <1>1, <1>2, <1>3, <1>4, <1>5, FrameStep

\* A step that leaves all that the requests share alone.
LEMMA PrivateStep ==
    ASSUME CacheInv, NEW r \in Requests, ByOne(r) /\ AboutRequest(r)', UNCHANGED shared,
           meddled \subseteq meddled', meddled' \subseteq Keys
    PROVE  CacheInv'
<1>1. \A k \in Keys : Cached(k)'
  BY DEF CacheInv, Cached, HandleFits, shared
<1>2. cache' \in [Keys -> Slot] /\ lockOf' \in [Keys -> Mutex]
      /\ holder' \in [Locks -> Requests \cup {None}]
  BY DEF CacheInv, CacheTyped, shared
<1>3. UNCHANGED <<handles, store, acknowledged>> /\ cache' = cache /\ lockOf' = lockOf
      /\ holder' = holder
  BY DEF shared
<1>4. QED
  BY <1>1, <1>2, <1>3, MapStep

\* Only the step a request is at changes.
Moves(r, p) ==
    /\ ByOne(r) /\ DOMAIN req'[r] = DOMAIN req[r] /\ req'[r].pc = p
    /\ req'[r].plan = req[r].plan /\ req'[r].at = req[r].at
    /\ req'[r].lock = req[r].lock /\ req'[r].blk = req[r].blk
    /\ req'[r].mine = req[r].mine /\ req'[r].aux = req[r].aux
    /\ req'[r].batch = req[r].batch /\ req'[r].gone = req[r].gone

LEMMA MoveFields ==
    ASSUME NEW r \in Requests, DOMAIN req = Requests, RequestTyped(r), NEW p,
           Step(r, [pc |-> p])
    PROVE  Moves(r, p) /\ RequestTyped(r)'
<1>1. Moves(r, p)
  BY DEF Step, Moves, ByOne, Other, RequestTyped
<1>2. QED
  BY <1>1 DEF Moves, RequestTyped

LEMMA OwnFacts ==
    ASSUME CacheInv, NEW r \in Requests
    PROVE  /\ DOMAIN req = Requests
           /\ RequestTyped(r) /\ Aimed(r) /\ Guarded(r) /\ Handed(r) /\ Alone(r) /\ Sole(r)
BY DEF CacheInv, CacheTyped

LEMMA StartStep ==
    ASSUME CacheInv, NEW r \in Requests, Start(r)
    PROVE  CacheInv'
<1> USE Apart
<1>1. PICK p \in Plans[r] : 
         /\ Step(r, [plan |-> p, pc |-> FirstStep(p), at |-> p.key])
         /\ meddled' = meddled \cup
              (CASE p.op \in {"append", "read"} -> {}
                 [] p.op = "merge" -> {p.from}
                 [] OTHER -> {p.key})
  BY DEF Start
<1>2. /\ RequestTyped(r) /\ Aimed(r) /\ DOMAIN req = Requests /\ req[r].pc = "idle"
      /\ UNCHANGED shared
  BY OwnFacts DEF Start, At, shared, stored
<1>3. /\ p.op \in Operations /\ p.key \in Keys
      /\ p.op \in {"branch", "merge"} => p.from \in Keys
  BY PlanAssumption
<1>4. /\ ByOne(r) /\ DOMAIN req'[r] = DOMAIN req[r] /\ req'[r].plan = p
      /\ req'[r].pc = FirstStep(p) /\ req'[r].at = p.key /\ req'[r].lock = None
      /\ req'[r].blk = None /\ req'[r].mine = None /\ req'[r].aux = None
      /\ req'[r].batch = req[r].batch /\ ~ req'[r].gone /\ req'[r].gone \in BOOLEAN
  BY <1>1, <1>2 DEF Step, ByOne, Other, RequestTyped, Aimed, Over
<1>5. meddled \subseteq meddled' /\ meddled' \subseteq Keys
  BY <1>1, <1>3 DEF CacheInv, Operations
<1>6. RequestTyped(r)'
  BY <1>2, <1>4 DEF RequestTyped, Slot, Mutex
<1>7. \/ p.op \in {"append", "read", "merge"} /\ FirstStep(p) = "lookup"
      \/ p.op = "branch" /\ FirstStep(p) = "bentry"
      \/ p.op = "delete" /\ FirstStep(p) = "evict"
      \/ p.op \in {"open", "bootstrap", "delete"} /\ FirstStep(p) = "dlookup"
  BY <1>3, PinAssumption DEF FirstStep, Operations
<1>8. /\ p.op \in {"branch", "open", "bootstrap", "delete"} => p.key \in meddled'
      /\ p.op = "merge" => p.from \in meddled'
  BY <1>1, <1>3 DEF Operations
<1>9. Aimed(r)'
  BY <1>3, <1>4, <1>7, <1>8 DEF Aimed, Over, Meddling, Asking, Opening
<1>10. Guarded(r)' /\ Handed(r)' /\ Alone(r)' /\ Sole(r)'
  BY <1>4, <1>7 DEF Guarded, Handed, Alone, Sole, Opening, Owning, Branching, Over, Fresh
<1>11. QED
  BY <1>2, <1>4, <1>5, <1>6, <1>9, <1>10, PrivateStep DEF AboutRequest

LEMMA LookupStep ==
    ASSUME CacheInv, NEW r \in Requests, Lookup(r)
    PROVE  CacheInv'
<1> USE Apart
<1> DEFINE q == req[r]
<1>1. /\ DOMAIN req = Requests /\ UNCHANGED shared /\ meddled' = meddled
      /\ RequestTyped(r) /\ Aimed(r) /\ Guarded(r) /\ Handed(r) /\ Alone(r) /\ Sole(r)
      /\ q.pc = "lookup" /\ q.at \in Keys /\ meddled \subseteq Keys
  BY OwnFacts DEF Lookup, At, shared, stored, Aimed, Over, CacheInv
<1>2. KeepsBranch(r)
  BY <1>1 DEF KeepsBranch, Guarded, shared
<1>3. CASE cache[q.at] # None
  <2>1. cache[q.at] \in Handles /\ Obtained(r, cache[q.at])
    BY <1>1, <1>3 DEF Lookup, CacheInv, CacheTyped, Slot
  <2>2. handles[cache[q.at]] # None /\ handles[cache[q.at]].key = q.at
    BY <1>1, <1>3 DEF CacheInv, Cached
  <2>3. q.aux # None =>
           /\ handles[q.aux] # None
           /\ handles[q.aux].key \notin meddled => q.aux = cache[handles[q.aux].key]
    BY <1>1 DEF Handed, Sole, RequestTyped, Slot, Fresh, Aimed, Leaving
  <2>4. ByOne(r) /\ AboutRequest(r)'
    BY <1>1, <1>2, <2>1, <2>2, <2>3, ObtainedStep DEF shared
  <2>5. QED
    BY <1>1, <2>4, PrivateStep
<1>4. CASE cache[q.at] = None
  <2>1. PICK p \in {"entry", "exists"} : Step(r, [pc |-> p])
    BY <1>4 DEF Lookup
  <2>2. Moves(r, p) /\ RequestTyped(r)'
    BY <1>1, <2>1, MoveFields
  <2>3. Aimed(r)'
    BY <1>1, <2>1, <2>2 DEF Aimed, Moves, Over, Meddling, Asking, Opening, Leaving
  <2>4. Guarded(r)' /\ Handed(r)' /\ Alone(r)' /\ Sole(r)'
    BY <1>1, <2>1, <2>2 DEF Guarded, Handed, Alone, Sole, Moves, Opening, Owning, Branching, Over,
                            Fresh, shared
  <2>5. QED
    BY <1>1, <2>2, <2>3, <2>4, PrivateStep DEF AboutRequest, Moves
<1>5. QED
  BY <1>3, <1>4

LEMMA AskStep ==
    ASSUME CacheInv, NEW r \in Requests, Exists(r) \/ BranchCheck(r)
    PROVE  CacheInv'
<1> USE Apart
<1> DEFINE q == req[r]
<1>1. /\ DOMAIN req = Requests /\ UNCHANGED shared /\ meddled' = meddled
      /\ RequestTyped(r) /\ Aimed(r) /\ Guarded(r) /\ Handed(r) /\ Alone(r) /\ Sole(r)
      /\ q.pc \in {"exists", "bcheck"} /\ meddled \subseteq Keys
  BY OwnFacts DEF Exists, BranchCheck, At, shared, stored, CacheInv
<1>2. KeepsBranch(r)
  BY <1>1 DEF KeepsBranch, Guarded, shared
<1>3. CASE NotObtained(r)
  <2>1. ByOne(r) /\ AboutRequest(r)'
    BY <1>1, <1>2, <1>3, NotObtainedStep DEF Asking, Aimed
  <2>2. QED
    BY <1>1, <2>1, PrivateStep
<1>4. CASE q.pc = "exists" /\ Step(r, [pc |-> "entry"])
  <2>1. Moves(r, "entry") /\ RequestTyped(r)'
    BY <1>1, <1>4, MoveFields
  <2>2. Aimed(r)'
    BY <1>1, <1>4, <2>1 DEF Aimed, Moves, Over, Meddling, Asking, Opening, Leaving
  <2>3. Guarded(r)' /\ Handed(r)' /\ Alone(r)' /\ Sole(r)'
    BY <1>1, <1>4, <2>1 DEF Guarded, Handed, Alone, Sole, Moves, Opening, Owning, Branching,
                            Over, Fresh, shared
  <2>4. QED
    BY <1>1, <2>1, <2>2, <2>3, PrivateStep DEF AboutRequest, Moves
<1>5. CASE q.pc = "bcheck" /\ Step(r, [pc |-> "lookup", at |-> q.plan.from])
  <2>1. /\ ByOne(r) /\ DOMAIN req'[r] = DOMAIN q /\ req'[r].plan = q.plan
        /\ req'[r].pc = "lookup" /\ req'[r].at = q.plan.from /\ req'[r].lock = q.lock
        /\ req'[r].blk = q.blk /\ req'[r].mine = q.mine /\ req'[r].aux = q.aux
        /\ req'[r].batch = q.batch /\ req'[r].gone = q.gone
    BY <1>1, <1>5 DEF Step, ByOne, Other, RequestTyped
  <2>2. q.plan \in Plans[r] /\ q.plan.op = "branch" /\ q.plan.from \in Keys
    BY <1>1, <1>5, PlanAssumption DEF Aimed
  <2>3. RequestTyped(r)'
    BY <1>1, <2>1 DEF RequestTyped
  <2>4. Aimed(r)'
    BY <1>1, <1>5, <2>1, <2>2 DEF Aimed, Over, Meddling, Asking, Opening, Leaving
  <2>5. Guarded(r)' /\ Handed(r)' /\ Alone(r)' /\ Sole(r)'
    BY <1>1, <1>5, <2>1 DEF Guarded, Handed, Alone, Sole, Opening, Owning, Branching, Over,
                            Fresh, shared
  <2>6. QED
    BY <1>1, <2>1, <2>3, <2>4, <2>5, PrivateStep DEF AboutRequest
<1>6. QED
  BY <1>3, <1>4, <1>5 DEF Exists, BranchCheck, At

LEMMA FindStep ==
    ASSUME CacheInv, NEW r \in Requests, BranchFind(r) \/ MergeCopy(r)
    PROVE  CacheInv'
<1> USE Apart
<1> DEFINE q == req[r]
<1>1. /\ DOMAIN req = Requests /\ UNCHANGED shared /\ meddled' = meddled
      /\ RequestTyped(r) /\ Aimed(r) /\ Guarded(r) /\ Handed(r) /\ Alone(r) /\ Sole(r)
      /\ q.pc \in {"bfind", "copy"} /\ meddled \subseteq Keys
  BY OwnFacts DEF BranchFind, MergeCopy, At, shared, stored, CacheInv
<1>2. KeepsBranch(r)
  BY <1>1 DEF KeepsBranch, Guarded, shared
<1>3. CASE q.pc = "bfind" /\ NotObtained(r)
  <2>1. ByOne(r) /\ AboutRequest(r)'
    BY <1>1, <1>2, <1>3, NotObtainedStep DEF Asking, Aimed
  <2>2. QED
    BY <1>1, <2>1, PrivateStep
<1>4. CASE q.pc = "bfind" /\ Step(r, [pc |-> "oload", at |-> q.plan.key, aux |-> q.mine,
                                      mine |-> None])
  <2>1. /\ ByOne(r) /\ DOMAIN req'[r] = DOMAIN q /\ req'[r].plan = q.plan
        /\ req'[r].pc = "oload" /\ req'[r].at = q.plan.key /\ req'[r].lock = q.lock
        /\ req'[r].blk = q.blk /\ req'[r].mine = None /\ req'[r].aux = q.mine
        /\ req'[r].batch = q.batch /\ req'[r].gone = q.gone
    BY <1>1, <1>4 DEF Step, ByOne, Other, RequestTyped
  <2>2. q.plan \in Plans[r] /\ q.plan.key \in meddled /\ q.plan.op = "branch" /\ q.lock = None
    BY <1>1, <1>4 DEF Aimed, Over
  <2>3. RequestTyped(r)'
    BY <1>1, <2>1 DEF RequestTyped, Slot
  <2>4. Aimed(r)'
    BY <1>1, <1>4, <2>1, <2>2 DEF Aimed, Over, Meddling, Asking, Opening, Leaving
  <2>5. Guarded(r)' /\ Handed(r)' /\ Alone(r)'
    BY <1>1, <1>4, <2>1, <2>2 DEF Guarded, Handed, Alone, Opening, Owning, Branching, Over,
                            Fresh, shared
  <2>6. Sole(r)'
    BY <1>1, <1>4, <2>1 DEF Sole, Fresh, shared
  <2>7. QED
    BY <1>1, <2>1, <2>3, <2>4, <2>5, <2>6, PrivateStep DEF AboutRequest
<1>5. CASE q.pc = "copy" /\ Step(r, [pc |-> "paste", batch |-> handles[q.mine].chain])
  <2>1. /\ ByOne(r) /\ DOMAIN req'[r] = DOMAIN q /\ req'[r].plan = q.plan
        /\ req'[r].pc = "paste" /\ req'[r].at = q.at /\ req'[r].lock = q.lock
        /\ req'[r].blk = q.blk /\ req'[r].mine = q.mine /\ req'[r].aux = q.aux
        /\ req'[r].batch = handles[q.mine].chain /\ req'[r].gone = q.gone
    BY <1>1, <1>5 DEF Step, ByOne, Other, RequestTyped
  <2>2. handles[q.mine].chain \in Seq(Thoughts)
    BY <1>1, <1>5 DEF Handed, RequestTyped, Slot, CacheInv, HandleTyped, Handle
  <2>3. RequestTyped(r)'
    BY <1>1, <2>1, <2>2 DEF RequestTyped
  <2>4. Aimed(r)'
    BY <1>1, <1>5, <2>1 DEF Aimed, Over, Meddling, Asking, Opening, Leaving
  <2>5. Guarded(r)' /\ Handed(r)' /\ Alone(r)'
    BY <1>1, <1>5, <2>1, <2>2 DEF Guarded, Handed, Alone, Opening, Owning, Branching, Over,
                            Fresh, shared
  <2>6. Sole(r)'
    BY <1>1, <1>5, <2>1 DEF Sole, Fresh, shared
  <2>7. QED
    BY <1>1, <2>1, <2>3, <2>4, <2>5, <2>6, PrivateStep DEF AboutRequest
<1>6. QED
  BY <1>3, <1>4, <1>5 DEF BranchFind, MergeCopy, At

LEMMA DashLookStep ==
    ASSUME CacheInv, NEW r \in Requests, DashLookup(r) \/ DashCache(r)
    PROVE  CacheInv'
<1> USE Apart
<1> DEFINE q == req[r]
<1>1. /\ DOMAIN req = Requests /\ UNCHANGED shared /\ meddled' = meddled
      /\ RequestTyped(r) /\ Aimed(r) /\ Guarded(r) /\ Handed(r) /\ Alone(r) /\ Sole(r)
      /\ q.pc \in {"dlookup", "dcache"} /\ meddled \subseteq Keys
      /\ q.at \in meddled /\ q.aux = None /\ q.plan.op \in {"open", "bootstrap", "delete"}
  BY OwnFacts DEF DashLookup, DashCache, At, shared, stored, CacheInv, Aimed, Meddling, Over
<1>2. KeepsBranch(r)
  BY <1>1 DEF KeepsBranch, Guarded, shared
<1>3. CASE NotObtained(r) /\ q.pc = "dcache"
  <2>1. ByOne(r) /\ AboutRequest(r)'
    BY <1>1, <1>2, <1>3, NotObtainedStep
  <2>2. QED
    BY <1>1, <2>1, PrivateStep
<1>4. CASE DashLookup(r)
  <2>1. /\ ByOne(r) /\ DOMAIN req'[r] = DOMAIN q /\ req'[r].plan = q.plan
        /\ req'[r].pc = "dcache" /\ req'[r].at = q.at /\ req'[r].lock = q.lock
        /\ req'[r].blk = q.blk /\ req'[r].mine = q.mine /\ req'[r].aux = q.aux
        /\ req'[r].batch = q.batch /\ req'[r].gone = q.gone
    BY <1>1, <1>4 DEF DashLookup, Step, ByOne, Other, RequestTyped
  <2>2. RequestTyped(r)'
    BY <1>1, <2>1 DEF RequestTyped
  <2>3. Aimed(r)'
    BY <1>1, <2>1 DEF Aimed, Over, Meddling, Asking, Opening, Leaving
  <2>4. Guarded(r)' /\ Handed(r)' /\ Alone(r)' /\ Sole(r)'
    BY <1>1, <2>1 DEF Guarded, Handed, Alone, Sole, Opening, Owning, Branching, Over, Fresh, shared
  <2>5. QED
    BY <1>1, <2>1, <2>2, <2>3, <2>4, PrivateStep DEF AboutRequest
<1>5. CASE q.pc = "dcache" /\ cache[q.at] # None
           /\ Step(r, [pc |-> "devict", mine |-> cache[q.at]])
  <2>1. /\ ByOne(r) /\ DOMAIN req'[r] = DOMAIN q /\ req'[r].plan = q.plan
        /\ req'[r].pc = "devict" /\ req'[r].at = q.at /\ req'[r].lock = q.lock
        /\ req'[r].blk = q.blk /\ req'[r].mine = cache[q.at] /\ req'[r].aux = q.aux
        /\ req'[r].batch = q.batch /\ req'[r].gone = q.gone
    BY <1>1, <1>5 DEF Step, ByOne, Other, RequestTyped
  <2>2. /\ cache[q.at] \in Handles
        /\ handles[cache[q.at]] # None /\ handles[cache[q.at]].key = q.at
    BY <1>1, <1>5 DEF CacheInv, CacheTyped, Cached, Slot
  <2>3. RequestTyped(r)'
    BY <1>1, <2>1, <2>2 DEF RequestTyped, Slot
  <2>4. Aimed(r)'
    BY <1>1, <1>5, <2>1 DEF Aimed, Over, Meddling, Asking, Opening, Leaving
  <2>5. Guarded(r)' /\ Handed(r)' /\ Alone(r)' /\ Sole(r)'
    BY <1>1, <2>1, <2>2 DEF Guarded, Handed, Alone, Sole, Opening, Owning, Branching, Over, Fresh,
                           shared
  <2>6. QED
    BY <1>1, <2>1, <2>3, <2>4, <2>5, PrivateStep DEF AboutRequest
<1>6. CASE q.pc = "dcache" /\ cache[q.at] = None /\ Step(r, [pc |-> "dload"])
  <2>1. Moves(r, "dload") /\ RequestTyped(r)'
    BY <1>1, <1>6, MoveFields
  <2>2. Aimed(r)'
    BY <1>1, <1>6, <2>1 DEF Aimed, Moves, Over, Meddling, Asking, Opening, Leaving
  <2>3. Guarded(r)' /\ Handed(r)' /\ Alone(r)' /\ Sole(r)'
    BY <1>1, <1>6, <2>1 DEF Aimed, Guarded, Handed, Alone, Sole, Moves, Opening, Owning, Branching,
                            Over, Fresh, shared
  <2>4. QED
    BY <1>1, <2>1, <2>2, <2>3, PrivateStep DEF AboutRequest, Moves
<1>7. QED
  BY <1>3, <1>4, <1>5, <1>6 DEF DashCache, At

\* The steps that read or write the registry, or begin to.
LEMMA RegisterStep ==
    ASSUME CacheInv, NEW r \in Requests,
           \/ OpenRegister(r) \/ OpenSave(r) \/ AppendRegister(r)
           \/ DeregisterLoad(r) \/ DeregisterSave(r)
    PROVE  CacheInv'
<1> USE Apart
<1> DEFINE q == req[r]
<1>1. /\ DOMAIN req = Requests /\ UNCHANGED shared /\ meddled' = meddled
      /\ RequestTyped(r) /\ Aimed(r) /\ Guarded(r) /\ Handed(r) /\ Alone(r) /\ Sole(r)
      /\ q.pc \in {"oreg", "osave", "areg", "dregload", "dregsave"} /\ meddled \subseteq Keys
  BY OwnFacts DEF OpenRegister, OpenSave, AppendRegister, DeregisterLoad, DeregisterSave, At,
                  shared, stored, CacheInv
<1>2. CASE Step(r, Finished)
  <2>1. ByOne(r) /\ AboutRequest(r)'
    BY <1>1, <1>2, EndStep
  <2>2. QED
    BY <1>1, <2>1, PrivateStep
<1>3. CASE DeregisterLoad(r) /\ Step(r, [pc |-> "dregsave", snap |-> registry])
  <2>1. /\ ByOne(r) /\ DOMAIN req'[r] = DOMAIN q /\ req'[r].plan = q.plan
        /\ req'[r].pc = "dregsave" /\ req'[r].at = q.at /\ req'[r].lock = q.lock
        /\ req'[r].blk = q.blk /\ req'[r].mine = q.mine /\ req'[r].aux = q.aux
        /\ req'[r].batch = q.batch /\ req'[r].gone = q.gone
    BY <1>1, <1>3 DEF Step, ByOne, Other, RequestTyped
  <2>2. q.pc = "dregload"
    BY <1>3 DEF DeregisterLoad, At
  <2>3. RequestTyped(r)'
    BY <1>1, <2>1 DEF RequestTyped
  <2>4. Aimed(r)'
    BY <1>1, <2>1, <2>2 DEF Aimed, Over, Meddling, Asking, Opening, Leaving
  <2>5. Guarded(r)' /\ Handed(r)' /\ Alone(r)' /\ Sole(r)'
    BY <1>1, <2>1, <2>2 DEF Guarded, Handed, Alone, Sole, Opening, Owning, Branching, Over, Fresh,
                            shared
  <2>6. QED
    BY <1>1, <2>1, <2>3, <2>4, <2>5, PrivateStep DEF AboutRequest
<1>4. CASE DeregisterSave(r)
  <2>1. /\ ByOne(r) /\ DOMAIN req'[r] = DOMAIN q /\ req'[r].plan = q.plan
        /\ req'[r].pc = "unlink" /\ req'[r].at = q.at /\ req'[r].lock = q.lock
        /\ req'[r].blk = q.blk /\ req'[r].mine = q.mine /\ req'[r].aux = q.aux
        /\ req'[r].batch = q.batch /\ req'[r].gone = q.gone
    BY <1>1, <1>4 DEF DeregisterSave, Step, ByOne, Other, RequestTyped
  <2>2. q.pc = "dregsave"
    BY <1>4 DEF DeregisterSave, At
  <2>3. RequestTyped(r)'
    BY <1>1, <2>1 DEF RequestTyped
  <2>4. Aimed(r)'
    BY <1>1, <2>1, <2>2 DEF Aimed, Over, Meddling, Asking, Opening, Leaving
  <2>5. Guarded(r)' /\ Handed(r)' /\ Alone(r)' /\ Sole(r)'
    BY <1>1, <2>1, <2>2 DEF Guarded, Handed, Alone, Sole, Opening, Owning, Branching, Over, Fresh,
                            shared
  <2>6. QED
    BY <1>1, <2>1, <2>3, <2>4, <2>5, PrivateStep DEF AboutRequest
<1>5. ASSUME NEW p, Step(r, [pc |-> p]),
             \/ q.pc = "oreg" /\ p = "osave"
             \/ q.pc = "areg" /\ p = "asave"
             \/ q.pc = "osave" /\ p = "genesis" /\ q.plan.op = "branch" /\ q.at = q.plan.key
             \/ q.pc = "osave" /\ p = "dpublish" /\ q.plan.op = "bootstrap"
             \/ q.pc = "osave" /\ p = "publish" /\ q.plan.op # "bootstrap" /\ ~ q.gone
      PROVE  CacheInv'
  <2>1. Moves(r, p) /\ RequestTyped(r)'
    BY <1>1, <1>5, MoveFields
  <2>2. q.plan.op \in Operations
    BY <1>1, <1>5, PlanAssumption DEF Aimed
  <2>3. Aimed(r)'
    BY <1>1, <1>5, <2>1, <2>2 DEF Aimed, Moves, Over, Meddling, Asking, Opening, Leaving,
                                  Operations
  <2>4. Guarded(r)' /\ Handed(r)' /\ Alone(r)'
    BY <1>1, <1>5, <2>1 DEF Aimed, Guarded, Handed, Alone, Moves, Opening, Owning,
                            Branching, Over, Fresh, shared
  <2>5. Sole(r)'
    <3>1. \A h, k : HandleFits(h, k)' = HandleFits(h, k)
      BY <1>1 DEF HandleFits, shared
    <3>2. q.plan.op \in {"branch", "bootstrap"} => q.plan.key \in meddled /\ (q.plan.op = "bootstrap" => q.at = q.plan.key)
      BY <1>1 DEF Aimed, Over
    <3>3. QED
      BY <1>1, <1>5, <2>1, <3>1, <3>2 DEF Sole, Moves, Fresh, shared
  <2>6. QED
    BY <1>1, <2>1, <2>3, <2>4, <2>5, PrivateStep DEF AboutRequest, Moves
<1>6. CASE OpenRegister(r)
  BY <1>5, <1>6 DEF OpenRegister, At
<1>7. CASE AppendRegister(r)
  BY <1>5, <1>7 DEF AppendRegister, At
<1>8. CASE OpenSave(r)
  <2>1. q.pc = "osave" /\ Op(r) = q.plan.op
    BY <1>8 DEF OpenSave, At, Op
  <2>2. CASE q.plan.op = "branch" /\ q.at = q.plan.key
    <3>1. Step(r, [pc |-> "genesis"])
      BY <1>8, <2>1, <2>2 DEF OpenSave
    <3>2. QED
      BY <1>5, <2>1, <2>2, <3>1
  <2>3. CASE q.plan.op = "bootstrap"
    <3>1. Step(r, [pc |-> "dpublish"])
      BY <1>8, <2>1, <2>3 DEF OpenSave
    <3>2. QED
      BY <1>5, <2>1, <2>3, <3>1
  <2>4. CASE ~ (q.plan.op = "branch" /\ q.at = q.plan.key) /\ q.plan.op # "bootstrap"
    <3>1. IF q.gone THEN Step(r, Finished) ELSE Step(r, [pc |-> "publish"])
      BY <1>8, <2>1, <2>4 DEF OpenSave
    <3>2. QED
      BY <1>1, <1>2, <1>5, <2>1, <2>4, <3>1 DEF RequestTyped
  <2>5. QED
    BY <2>2, <2>3, <2>4
<1>9. QED
  BY <1>2, <1>3, <1>4, <1>6, <1>7, <1>8 DEF DeregisterLoad

\* Two requests never open one chain, unless somebody meddled.
LEMMA OneOpens ==
    ASSUME CacheInv, NEW r \in Requests, NEW s \in Other(r), NEW k \in Keys \ meddled,
           req[r].at = k, ~ req[r].gone, req[r].pc \in {"check", "oload"} \cup Fresh,
           Opens(s, k)
    PROVE  cache[k] # None /\ req[r].pc = "check"
<1> USE Apart
<1>1. /\ s \in Requests /\ s # r
      /\ Alone(r) /\ Guarded(r) /\ Alone(s) /\ Guarded(s)
  BY DEF CacheInv, Other
<1>2. cache[k] = None /\ lockOf[k] = req[s].lock /\ req[s].lock # None
      /\ holder[req[s].lock] = s
  BY <1>1 DEF Opens, Alone, Guarded, Opening, Fresh, Over
<1>3. lockOf[k] = req[r].lock /\ holder[req[r].lock] = r
  BY <1>1, <1>2 DEF Alone, Guarded, Opening, Fresh, Over
<1>4. QED
  BY <1>1, <1>2, <1>3

LEMMA EntryStep ==
    ASSUME CacheInv, NEW r \in Requests, Entry(r)
    PROVE  CacheInv'
<1> USE Apart
<1> DEFINE q == req[r]
           l == IF lockOf[q.at] # None THEN lockOf[q.at] ELSE Place(Unused)
<1>1. /\ DOMAIN req = Requests /\ UNCHANGED <<cache, holder, handles, store, acknowledged>>
      /\ meddled' = meddled
      /\ RequestTyped(r) /\ Aimed(r) /\ Guarded(r) /\ Handed(r) /\ Alone(r) /\ Sole(r)
      /\ q.pc \in {"entry", "bentry"} /\ meddled \subseteq Keys /\ q.at \in Keys
  BY OwnFacts DEF Entry, At, shared, stored, CacheInv, Aimed, Over
<1>2. l \in Locks
  <2>1. lockOf[q.at] # None \/ Unused # {}
    BY DEF Entry
  <2>2. Unused # {} => Place(Unused) \in Unused
    BY DEF Place
  <2>3. Unused \subseteq Locks
    BY DEF Unused
  <2>4. QED
    BY <1>1, <2>1, <2>2, <2>3 DEF CacheInv, CacheTyped, Mutex
<1>3. /\ lockOf' = [lockOf EXCEPT ![q.at] = l]
      /\ Step(r, IF q.pc = "entry" THEN [pc |-> "acquire", lock |-> l]
                                   ELSE [pc |-> "bacquire", blk |-> l])
  BY DEF Entry, At
<1> HIDE DEF l
<1>4. /\ lockOf' \in [Keys -> Mutex] /\ lockOf'[q.at] = l
      /\ \A k \in Keys : lockOf[k] = None \/ lockOf'[k] = lockOf[k]
  <2>1. lockOf[q.at] # None => l = lockOf[q.at]
    BY DEF l
  <2>2. lockOf \in [Keys -> Mutex]
    BY DEF CacheInv, CacheTyped
  <2>3. QED
    BY <1>1, <1>2, <1>3, <2>1, <2>2 DEF Mutex
<1>5. ASSUME q.pc = "entry"
      PROVE  ByOne(r) /\ AboutRequest(r)'
  <2>1. /\ ByOne(r) /\ DOMAIN req'[r] = DOMAIN q /\ req'[r].plan = q.plan
        /\ req'[r].pc = "acquire" /\ req'[r].at = q.at /\ req'[r].lock = l
        /\ req'[r].blk = q.blk /\ req'[r].mine = q.mine /\ req'[r].aux = q.aux
        /\ req'[r].batch = q.batch /\ req'[r].gone = q.gone
    BY <1>1, <1>3, <1>5 DEF Step, ByOne, Other, RequestTyped
  <2>2. RequestTyped(r)'
    BY <1>1, <1>2, <2>1 DEF RequestTyped, Mutex
  <2>3. Aimed(r)'
    BY <1>1, <1>5, <2>1 DEF Aimed, Over, Meddling, Asking, Opening, Leaving
  <2>4. Guarded(r)' /\ Handed(r)' /\ Alone(r)' /\ Sole(r)'
    BY <1>1, <1>2, <1>4, <1>5, <2>1 DEF Guarded, Handed, Alone, Sole, Opening, Owning, Branching,
                                        Over, Fresh
  <2>5. QED
    BY <2>1, <2>2, <2>3, <2>4 DEF AboutRequest
<1>6. ASSUME q.pc = "bentry"
      PROVE  ByOne(r) /\ AboutRequest(r)'
  <2>1. /\ ByOne(r) /\ DOMAIN req'[r] = DOMAIN q /\ req'[r].plan = q.plan
        /\ req'[r].pc = "bacquire" /\ req'[r].at = q.at /\ req'[r].lock = q.lock
        /\ req'[r].blk = l /\ req'[r].mine = q.mine /\ req'[r].aux = q.aux
        /\ req'[r].batch = q.batch /\ req'[r].gone = q.gone
    BY <1>1, <1>3, <1>6 DEF Step, ByOne, Other, RequestTyped
  <2>2. RequestTyped(r)'
    BY <1>1, <1>2, <2>1 DEF RequestTyped, Mutex
  <2>3. Aimed(r)'
    BY <1>1, <1>6, <2>1 DEF Aimed, Over, Meddling, Asking, Opening, Leaving
  <2>4. Guarded(r)' /\ Handed(r)' /\ Alone(r)' /\ Sole(r)'
    BY <1>1, <1>2, <1>4, <1>6, <2>1 DEF Guarded, Handed, Alone, Sole, Opening, Owning, Branching,
                                        Over, Fresh
  <2>5. QED
    BY <2>1, <2>2, <2>3, <2>4 DEF AboutRequest
<1>7. ByOne(r) /\ AboutRequest(r)'
  BY <1>1, <1>5, <1>6
<1>8. \A k \in Keys : Cached(k)'
  BY <1>1 DEF CacheInv, Cached, HandleFits
<1>9. cache' \in [Keys -> Slot] /\ holder' \in [Locks -> Requests \cup {None}]
  BY <1>1 DEF CacheInv, CacheTyped
<1>10. QED
  BY <1>1, <1>4, <1>7, <1>8, <1>9, MapStep

LEMMA AcquireStep ==
    ASSUME CacheInv, NEW r \in Requests, Acquire(r)
    PROVE  CacheInv'
<1> USE Apart
<1> DEFINE q == req[r]
<1>1. /\ DOMAIN req = Requests /\ UNCHANGED <<cache, lockOf, handles, store, acknowledged>>
      /\ meddled' = meddled
      /\ RequestTyped(r) /\ Aimed(r) /\ Guarded(r) /\ Handed(r) /\ Alone(r) /\ Sole(r)
      /\ q.pc \in {"acquire", "bacquire"} /\ meddled \subseteq Keys
  BY OwnFacts DEF Acquire, At, shared, stored, CacheInv
<1>2. PICK l \in Locks, p \in {"check", "bcheck"} :
        /\ holder[l] = None /\ holder' = [holder EXCEPT ![l] = r] /\ Step(r, [pc |-> p])
        /\ \/ q.pc = "acquire" /\ p = "check" /\ l = q.lock
           \/ q.pc = "bacquire" /\ p = "bcheck" /\ l = q.blk
  <2>1. CASE q.pc = "acquire"
    <3>1. q.lock \in Locks
      BY <1>1, <2>1 DEF RequestTyped, Mutex, Guarded
    <3>2. QED
      BY <2>1, <3>1 DEF Acquire, At
  <2>2. CASE q.pc = "bacquire"
    <3>1. q.blk \in Locks
      BY <1>1, <2>2 DEF RequestTyped, Mutex, Guarded
    <3>2. QED
      BY <2>2, <3>1 DEF Acquire, At
  <2>3. QED
    BY <1>1, <2>1, <2>2
<1>3. /\ holder' \in [Locks -> Requests \cup {None}] /\ holder'[l] = r
      /\ \A s \in Requests : \A m \in Locks : holder[m] = s => holder'[m] = s
  BY <1>2 DEF CacheInv, CacheTyped
<1>4. Moves(r, p) /\ RequestTyped(r)'
  BY <1>1, <1>2, MoveFields
<1>5. Aimed(r)'
  BY <1>1, <1>2, <1>4 DEF Aimed, Moves, Over, Meddling, Asking, Opening, Leaving
<1>6. Guarded(r)'
  BY <1>1, <1>2, <1>3, <1>4 DEF Guarded, Moves, Opening, RequestTyped, Mutex
<1>7. Handed(r)' /\ Alone(r)' /\ Sole(r)'
  BY <1>1, <1>2, <1>4 DEF Handed, Alone, Sole, Moves, Opening, Owning, Branching, Over, Fresh
<1>8. \A k \in Keys : Cached(k)'
  BY <1>1 DEF CacheInv, Cached, HandleFits
<1>9. cache' \in [Keys -> Slot] /\ lockOf' \in [Keys -> Mutex]
  BY <1>1 DEF CacheInv, CacheTyped
<1>10. QED
  BY <1>1, <1>3, <1>4, <1>5, <1>6, <1>7, <1>8, <1>9, MapStep DEF AboutRequest, Moves, Other

\* A mutex that a request gives back is nobody else's.
LEMMA UnheldStep ==
    ASSUME CacheInv, NEW r \in Requests, NEW l \in Mutex, l # None => holder[l] = r,
           holder' = Unheld(l)
    PROVE  /\ holder' \in [Locks -> Requests \cup {None}]
           /\ \A s \in Other(r) : \A m \in Locks : holder[m] = s => holder'[m] = s
           /\ \A m \in Locks : m # l => holder'[m] = holder[m]
<1> USE Apart
<1>1. holder \in [Locks -> Requests \cup {None}]
  BY DEF CacheInv, CacheTyped
<1>2. CASE l = None
  BY <1>1, <1>2 DEF Unheld
<1>3. CASE l # None
  <2>1. l \in Locks /\ holder[l] = r
    BY <1>1, <1>3 DEF Mutex
  <2>2. holder' = [holder EXCEPT ![l] = None]
    BY <1>3 DEF Unheld
  <2>3. QED
    BY <1>1, <1>3, <2>1, <2>2 DEF Other
<1>4. QED
  BY <1>2, <1>3

\* A request that opens a chain gives its mutex back, and keeps that of a branch.
LEMMA ReleaseStep ==
    ASSUME CacheInv, NEW r \in Requests, req[r].pc \in Opening, holder' = Unheld(req[r].lock)
    PROVE  /\ holder' \in [Locks -> Requests \cup {None}]
           /\ \A s \in Other(r) : \A m \in Locks : holder[m] = s => holder'[m] = s
           /\ KeepsBranch(r)
<1>1. /\ req[r].lock \in Mutex /\ req[r].blk \in Mutex
      /\ req[r].lock # None => holder[req[r].lock] = r /\ req[r].lock # req[r].blk
      /\ req[r].blk # None => holder[req[r].blk] = r
  BY DEF CacheInv, RequestTyped, Guarded, Opening
<1>2. QED
  BY <1>1, UnheldStep DEF KeepsBranch, Mutex

LEMMA CheckStep ==
    ASSUME CacheInv, NEW r \in Requests, Check(r)
    PROVE  CacheInv'
<1> USE Apart
<1> DEFINE q == req[r]
<1>1. /\ DOMAIN req = Requests /\ UNCHANGED <<cache, lockOf, handles, store, acknowledged>>
      /\ meddled' = meddled
      /\ RequestTyped(r) /\ Aimed(r) /\ Guarded(r) /\ Handed(r) /\ Alone(r) /\ Sole(r)
      /\ q.pc = "check" /\ meddled \subseteq Keys /\ q.at \in Keys
  BY OwnFacts DEF Check, At, shared, stored, CacheInv, Aimed, Over
<1>2. CASE cache[q.at] # None
  <2>1. /\ cache[q.at] \in Handles /\ Obtained(r, cache[q.at]) /\ holder' = Unheld(q.lock)
        /\ handles[cache[q.at]] # None /\ handles[cache[q.at]].key = q.at
    BY <1>1, <1>2 DEF Check, CacheInv, CacheTyped, Slot, Cached
  <2>2. /\ holder' \in [Locks -> Requests \cup {None}]
        /\ \A s \in Other(r) : \A m \in Locks : holder[m] = s => holder'[m] = s
        /\ KeepsBranch(r)
    BY <1>1, <2>1, ReleaseStep DEF Opening
  <2>3. q.aux # None =>
           /\ handles[q.aux] # None
           /\ handles[q.aux].key \notin meddled => q.aux = cache[handles[q.aux].key]
    BY <1>1 DEF Handed, Sole, RequestTyped, Slot, Fresh, Aimed, Leaving
  <2>4. ByOne(r) /\ AboutRequest(r)'
    BY <1>1, <2>1, <2>2, <2>3, ObtainedStep
  <2>5. \A k \in Keys : Cached(k)'
    BY <1>1 DEF CacheInv, Cached, HandleFits
  <2>6. cache' \in [Keys -> Slot] /\ lockOf' \in [Keys -> Mutex]
    BY <1>1 DEF CacheInv, CacheTyped
  <2>7. QED
    BY <1>1, <2>2, <2>4, <2>5, <2>6, MapStep
<1>3. CASE cache[q.at] = None
  <2>1. Step(r, [pc |-> "oload"]) /\ UNCHANGED shared
    BY <1>1, <1>3 DEF Check, shared
  <2>2. Moves(r, "oload") /\ RequestTyped(r)'
    BY <1>1, <2>1, MoveFields
  <2>3. Aimed(r)'
    BY <1>1, <2>2 DEF Aimed, Moves, Over, Meddling, Asking, Opening, Leaving
  <2>4. Guarded(r)' /\ Handed(r)' /\ Alone(r)' /\ Sole(r)'
    BY <1>1, <1>3, <2>1, <2>2 DEF Guarded, Handed, Alone, Sole, Moves, Opening, Owning, Branching,
                                  Over, Fresh, shared
  <2>5. QED
    BY <1>1, <2>1, <2>2, <2>3, <2>4, PrivateStep DEF AboutRequest, Moves
<1>4. QED
  BY <1>2, <1>3

LEMMA PublishStep ==
    ASSUME CacheInv, NEW r \in Requests, Publish(r)
    PROVE  CacheInv'
<1> USE Apart
<1> DEFINE q == req[r]
<1>1. /\ DOMAIN req = Requests /\ UNCHANGED <<lockOf, holder, handles, store, acknowledged>>
      /\ meddled' = meddled
      /\ RequestTyped(r) /\ Aimed(r) /\ Guarded(r) /\ Handed(r) /\ Alone(r) /\ Sole(r)
      /\ q.pc = "publish" /\ meddled \subseteq Keys /\ q.at \in Keys
      /\ Step(r, [pc |-> "forget"]) /\ cache' = [cache EXCEPT ![q.at] = q.mine]
  BY OwnFacts DEF Publish, At, shared, stored, CacheInv, Aimed, Over
<1>2. /\ q.mine \in Handles /\ handles[q.mine] # None /\ handles[q.mine].key = q.at
      /\ ~ q.gone
  BY <1>1 DEF Handed, Owning, RequestTyped, Slot, Aimed, Leaving
<1>3. cache \in [Keys -> Slot] /\ cache' \in [Keys -> Slot] /\ cache'[q.at] = q.mine
      /\ \A k \in Keys : k # q.at => cache'[k] = cache[k]
  BY <1>1, <1>2 DEF CacheInv, CacheTyped, Slot
<1>4. q.at \notin meddled => cache[q.at] = None /\ HandleFits(q.mine, q.at)
  BY <1>1, <1>2 DEF Alone, Fresh, Over, Sole
<1>5. Moves(r, "forget") /\ RequestTyped(r)'
  BY <1>1, MoveFields
<1>6. Aimed(r)'
  BY <1>1, <1>5 DEF Aimed, Moves, Over, Meddling, Asking, Opening, Leaving
<1>7. Guarded(r)' /\ Handed(r)'
  BY <1>1, <1>5 DEF Guarded, Handed, Moves, Opening, Owning, Branching
<1>8. Alone(r)'
  BY <1>1, <1>2, <1>3, <1>5 DEF Alone, Moves, Opening, Fresh, Over
<1>9. Sole(r)'
  <2>1. \A h \in Handles : handles[h] # None => handles[h].key \in Keys
    BY DEF CacheInv, HandleTyped, Handle
  <2>2. \A h \in {q.mine, q.aux} : h \in Handles => handles[h] # None
    BY <1>1 DEF Handed
  <2>3. QED
    BY <1>1, <1>2, <1>3, <1>4, <1>5, <2>1, <2>2 DEF Sole, Moves, Fresh
<1>10. \A k \in Keys : Cached(k)'
  BY <1>1, <1>2, <1>3, <1>4 DEF CacheInv, Cached, HandleFits
<1>11. \A s \in Other(r) : \A k \in Keys \ meddled :
         Opens(s, k) /\ cache[k] = None => cache'[k] = None
  BY <1>1, <1>2, <1>3, OneOpens DEF Fresh
<1>12. lockOf' \in [Keys -> Mutex] /\ holder' \in [Locks -> Requests \cup {None}]
  BY <1>1 DEF CacheInv, CacheTyped
<1>13. \A k \in Keys \ meddled : cache[k] # None => cache'[k] = cache[k]
  BY <1>3, <1>4
<1>14. QED
  BY <1>1, <1>3, <1>5, <1>6, <1>7, <1>8, <1>9, <1>10, <1>11, <1>12, <1>13, MapStep
     DEF AboutRequest, Moves

LEMMA ForgetStep ==
    ASSUME CacheInv, NEW r \in Requests, Forget(r)
    PROVE  CacheInv'
<1> USE Apart
<1> DEFINE q == req[r]
<1>1. /\ DOMAIN req = Requests /\ UNCHANGED <<cache, handles, store, acknowledged>>
      /\ meddled' = meddled
      /\ RequestTyped(r) /\ Aimed(r) /\ Guarded(r) /\ Handed(r) /\ Alone(r) /\ Sole(r)
      /\ q.pc = "forget" /\ meddled \subseteq Keys /\ q.at \in Keys
      /\ lockOf' = [lockOf EXCEPT ![q.at] = None] /\ holder' = Unheld(q.lock)
      /\ Obtained(r, q.mine)
  BY OwnFacts DEF Forget, At, shared, stored, CacheInv, Aimed, Over
<1>2. /\ q.mine \in Handles /\ handles[q.mine] # None /\ handles[q.mine].key = q.at
      /\ ~ q.gone
  BY <1>1 DEF Handed, Owning, RequestTyped, Slot, Aimed, Leaving
<1>3. q.at \notin meddled => cache[q.at] = q.mine
  BY <1>1, <1>2 DEF Alone, Over
<1>4. /\ holder' \in [Locks -> Requests \cup {None}]
      /\ \A s \in Other(r) : \A m \in Locks : holder[m] = s => holder'[m] = s
      /\ KeepsBranch(r)
  BY <1>1, ReleaseStep DEF Opening
<1>5. q.aux # None =>
         /\ handles[q.aux] # None
         /\ handles[q.aux].key \notin meddled => q.aux = cache[handles[q.aux].key]
  BY <1>1, <1>2 DEF Handed, Sole, RequestTyped, Slot, Fresh
<1>6. ByOne(r) /\ AboutRequest(r)'
  BY <1>1, <1>2, <1>3, <1>4, <1>5, ObtainedStep
<1>7. \A k \in Keys : Cached(k)'
  BY <1>1 DEF CacheInv, Cached, HandleFits
<1>8. /\ cache' \in [Keys -> Slot] /\ lockOf' \in [Keys -> Mutex]
      /\ \A k \in Keys : k # q.at => lockOf'[k] = lockOf[k]
  BY <1>1 DEF CacheInv, CacheTyped, Mutex
<1>9. QED
  BY <1>1, <1>2, <1>3, <1>4, <1>6, <1>7, <1>8, MapStep

\* What a branch does when it has its chain, or does not.
LEMMA BranchEndStep ==
    ASSUME CacheInv, NEW r \in Requests, BranchPublish(r) \/ BranchRelease(r) \/ BranchForget(r)
    PROVE  CacheInv'
<1> USE Apart
<1> DEFINE q == req[r]
<1>1. /\ DOMAIN req = Requests /\ UNCHANGED <<handles, store, acknowledged>>
      /\ meddled' = meddled
      /\ RequestTyped(r) /\ Aimed(r) /\ Guarded(r) /\ Handed(r) /\ Alone(r) /\ Sole(r)
      /\ q.pc \in {"bpublish", "brelease", "bforget"} /\ meddled \subseteq Keys
  BY OwnFacts DEF BranchPublish, BranchRelease, BranchForget, At, shared, stored, CacheInv
<1>2. q.plan.op = "branch" /\ q.plan.key \in meddled /\ q.plan.key \in Keys
  BY <1>1 DEF Aimed, Over
<1>3. CASE BranchPublish(r)
  <2>1. /\ UNCHANGED <<lockOf, holder>> /\ cache' = [cache EXCEPT ![q.plan.key] = q.mine]
        /\ Step(r, [pc |-> "brelease", mine |-> None, aux |-> None]) /\ q.pc = "bpublish"
    BY <1>3 DEF BranchPublish, At
  <2>2. /\ ByOne(r) /\ DOMAIN req'[r] = DOMAIN q /\ req'[r].plan = q.plan
        /\ req'[r].pc = "brelease" /\ req'[r].at = q.at /\ req'[r].lock = q.lock
        /\ req'[r].blk = q.blk /\ req'[r].mine = None /\ req'[r].aux = None
        /\ req'[r].batch = q.batch /\ req'[r].gone = q.gone
    BY <1>1, <2>1 DEF Step, ByOne, Other, RequestTyped
  <2>3. /\ q.mine \in Handles /\ handles[q.mine] # None /\ handles[q.mine].key = q.plan.key
    BY <1>1, <1>2, <2>1 DEF Handed, Branching, RequestTyped, Slot
  <2>4. /\ cache' \in [Keys -> Slot] /\ cache'[q.plan.key] = q.mine
        /\ \A k \in Keys : k # q.plan.key => cache'[k] = cache[k]
    BY <1>2, <2>1, <2>3 DEF CacheInv, CacheTyped, Slot
  <2>5. RequestTyped(r)'
    BY <1>1, <2>2 DEF RequestTyped, Slot
  <2>6. Aimed(r)'
    BY <1>1, <2>1, <2>2 DEF Aimed, Over, Meddling, Asking, Opening, Leaving
  <2>7. Guarded(r)' /\ Handed(r)' /\ Alone(r)' /\ Sole(r)'
    BY <1>1, <2>1, <2>2 DEF Guarded, Handed, Alone, Sole, Opening, Owning, Branching, Over, Fresh
  <2>8. \A k \in Keys : Cached(k)'
    BY <1>1, <1>2, <2>3, <2>4 DEF CacheInv, Cached, HandleFits
  <2>9. lockOf' \in [Keys -> Mutex] /\ holder' \in [Locks -> Requests \cup {None}]
    BY <2>1 DEF CacheInv, CacheTyped
  <2>10. QED
    BY <1>1, <1>2, <2>1, <2>2, <2>4, <2>5, <2>6, <2>7, <2>8, <2>9, MapStep DEF AboutRequest
<1>4. CASE BranchRelease(r)
  <2>1. /\ UNCHANGED <<cache, lockOf>> /\ holder' = Unheld(q.blk)
        /\ Step(r, [pc |-> "bforget", blk |-> None]) /\ q.pc = "brelease"
    BY <1>4 DEF BranchRelease, At
  <2>2. /\ ByOne(r) /\ DOMAIN req'[r] = DOMAIN q /\ req'[r].plan = q.plan
        /\ req'[r].pc = "bforget" /\ req'[r].at = q.at /\ req'[r].lock = q.lock
        /\ req'[r].blk = None /\ req'[r].mine = q.mine /\ req'[r].aux = q.aux
        /\ req'[r].batch = q.batch /\ req'[r].gone = q.gone
    BY <1>1, <2>1 DEF Step, ByOne, Other, RequestTyped
  <2>3. /\ holder' \in [Locks -> Requests \cup {None}]
        /\ \A s \in Other(r) : \A m \in Locks : holder[m] = s => holder'[m] = s
    BY <1>1, <2>1, UnheldStep DEF Guarded, RequestTyped
  <2>4. RequestTyped(r)'
    BY <1>1, <2>2 DEF RequestTyped, Mutex
  <2>5. Aimed(r)'
    BY <1>1, <2>1, <2>2 DEF Aimed, Over, Meddling, Asking, Opening, Leaving
  <2>6. Guarded(r)' /\ Handed(r)' /\ Alone(r)' /\ Sole(r)'
    BY <1>1, <2>1, <2>2 DEF Guarded, Handed, Alone, Sole, Opening, Owning, Branching, Over, Fresh
  <2>7. \A k \in Keys : Cached(k)'
    BY <1>1, <2>1 DEF CacheInv, Cached, HandleFits
  <2>8. lockOf' \in [Keys -> Mutex] /\ cache' \in [Keys -> Slot]
    BY <2>1 DEF CacheInv, CacheTyped
  <2>9. QED
    BY <1>1, <2>1, <2>2, <2>3, <2>4, <2>5, <2>6, <2>7, <2>8, MapStep DEF AboutRequest
<1>5. CASE BranchForget(r)
  <2>1. /\ UNCHANGED <<cache, holder>> /\ lockOf' = [lockOf EXCEPT ![q.plan.key] = None]
        /\ Step(r, Finished)
    BY <1>5 DEF BranchForget, At
  <2>2. ByOne(r) /\ AboutRequest(r)'
    BY <1>1, <2>1, EndStep
  <2>3. /\ lockOf' \in [Keys -> Mutex]
        /\ \A k \in Keys : k # q.plan.key => lockOf'[k] = lockOf[k]
    BY <1>2, <2>1 DEF CacheInv, CacheTyped, Mutex
  <2>4. \A k \in Keys : Cached(k)'
    BY <1>1, <2>1 DEF CacheInv, Cached, HandleFits
  <2>5. cache' \in [Keys -> Slot] /\ holder' \in [Locks -> Requests \cup {None}]
    BY <2>1 DEF CacheInv, CacheTyped
  <2>6. QED
    BY <1>1, <1>2, <2>1, <2>2, <2>3, <2>4, <2>5, MapStep
<1>6. QED
  BY <1>3, <1>4, <1>5

\* The map may change in any way for a chain that was meddled with.
LEMMA MeddledStep ==
    ASSUME CacheInv, NEW r \in Requests, NEW k \in meddled, NEW h \in Slot,
           h # None => handles[h] # None /\ handles[h].key = k,
           cache' = [cache EXCEPT ![k] = h], meddled' = meddled,
           UNCHANGED <<lockOf, holder, handles, store, acknowledged>>
    PROVE  /\ cache'[k] = h /\ \A j \in Keys : j # k => cache'[j] = cache[j]
           /\ ByOne(r) /\ AboutRequest(r)' => CacheInv'
<1>1. k \in Keys /\ meddled \subseteq Keys
  BY DEF CacheInv
<1>2. /\ cache' \in [Keys -> Slot] /\ cache'[k] = h
      /\ \A j \in Keys : j # k => cache'[j] = cache[j]
  BY <1>1 DEF CacheInv, CacheTyped
<1>3. \A j \in Keys : Cached(j)'
  BY <1>1, <1>2 DEF CacheInv, Cached, HandleFits
<1>4. lockOf' \in [Keys -> Mutex] /\ holder' \in [Locks -> Requests \cup {None}]
  BY DEF CacheInv, CacheTyped
<1>5. ASSUME ByOne(r) /\ AboutRequest(r)'
      PROVE  CacheInv'
  BY <1>1, <1>2, <1>3, <1>4, <1>5, MapStep
<1>6. QED
  BY <1>2, <1>5

LEMMA EvictStep ==
    ASSUME CacheInv, NEW r \in Requests, Evict(r)
    PROVE  CacheInv'
<1> USE Apart
<1> DEFINE q == req[r]
<1>1. /\ DOMAIN req = Requests /\ UNCHANGED <<lockOf, holder, handles, store, acknowledged>>
      /\ meddled' = meddled
      /\ RequestTyped(r) /\ Aimed(r) /\ Guarded(r) /\ Handed(r) /\ Alone(r) /\ Sole(r)
      /\ q.pc = "evict" /\ q.at \in meddled /\ q.at \in Keys
      /\ cache' = [cache EXCEPT ![q.at] = None]
      /\ Step(r, IF cache[q.at] # None THEN [pc |-> "detach", mine |-> cache[q.at]]
                                       ELSE [pc |-> "dregload"])
  BY OwnFacts DEF Evict, At, shared, stored, CacheInv, Aimed, Over, Meddling
<1>2. /\ cache'[q.at] = None /\ \A j \in Keys : j # q.at => cache'[j] = cache[j]
      /\ ByOne(r) /\ AboutRequest(r)' => CacheInv'
  BY <1>1, MeddledStep DEF Slot
<1>3. \A h \in Handles : handles[h] # None => handles[h].key \in Keys
  BY DEF CacheInv, HandleTyped, Handle
<1>4. CASE cache[q.at] # None
  <2>1. /\ ByOne(r) /\ DOMAIN req'[r] = DOMAIN q /\ req'[r].plan = q.plan
        /\ req'[r].pc = "detach" /\ req'[r].at = q.at /\ req'[r].lock = q.lock
        /\ req'[r].blk = q.blk /\ req'[r].mine = cache[q.at] /\ req'[r].aux = q.aux
        /\ req'[r].batch = q.batch /\ req'[r].gone = q.gone
    BY <1>1, <1>4 DEF Step, ByOne, Other, RequestTyped
  <2>2. /\ cache[q.at] \in Handles
        /\ handles[cache[q.at]] # None /\ handles[cache[q.at]].key = q.at
    BY <1>1, <1>4 DEF CacheInv, CacheTyped, Cached, Slot
  <2>3. RequestTyped(r)'
    BY <1>1, <2>1, <2>2 DEF RequestTyped, Slot
  <2>4. Aimed(r)'
    BY <1>1, <2>1 DEF Aimed, Over, Meddling, Asking, Opening, Leaving
  <2>5. Guarded(r)' /\ Handed(r)' /\ Alone(r)'
    BY <1>1, <2>1, <2>2 DEF Guarded, Handed, Alone, Opening, Owning, Branching, Over, Fresh
  <2>6. Sole(r)'
    BY <1>1, <1>2, <1>3, <2>1, <2>2 DEF Sole, Fresh, Handed
  <2>7. QED
    BY <1>2, <2>1, <2>3, <2>4, <2>5, <2>6 DEF AboutRequest
<1>5. CASE cache[q.at] = None
  <2>1. Step(r, [pc |-> "dregload"])
    BY <1>1, <1>5
  <2>2. Moves(r, "dregload") /\ RequestTyped(r)'
    BY <1>1, <2>1, MoveFields
  <2>3. Aimed(r)'
    BY <1>1, <2>2 DEF Aimed, Moves, Over, Meddling, Asking, Opening, Leaving
  <2>4. Guarded(r)' /\ Handed(r)' /\ Alone(r)'
    BY <1>1, <2>2 DEF Guarded, Handed, Alone, Moves, Opening, Owning, Branching, Over, Fresh
  <2>5. Sole(r)'
    BY <1>1, <1>2, <1>3, <2>2 DEF Sole, Fresh, Handed, Moves
  <2>6. QED
    BY <1>2, <2>2, <2>3, <2>4, <2>5 DEF AboutRequest, Moves
<1>6. QED
  BY <1>4, <1>5

LEMMA DashMapStep ==
    ASSUME CacheInv, NEW r \in Requests, DashEvict(r) \/ DashPublish(r)
    PROVE  CacheInv'
<1> USE Apart
<1> DEFINE q == req[r]
<1>1. /\ DOMAIN req = Requests /\ UNCHANGED <<lockOf, holder, handles, store, acknowledged>>
      /\ meddled' = meddled
      /\ RequestTyped(r) /\ Aimed(r) /\ Guarded(r) /\ Handed(r) /\ Alone(r) /\ Sole(r)
      /\ q.pc \in {"devict", "dpublish"} /\ q.at \in meddled /\ meddled \subseteq Keys
      /\ q.aux = None /\ q.blk = None
      /\ q.plan.op \in {"open", "bootstrap", "delete"}
  BY OwnFacts DEF DashEvict, DashPublish, At, shared, stored, CacheInv, Aimed, Over, Meddling
<1>2. q.mine \in Handles /\ handles[q.mine] # None /\ handles[q.mine].key = q.at
  BY <1>1 DEF Handed, Owning, RequestTyped, Slot
<1>3. KeepsBranch(r)
  BY <1>1 DEF KeepsBranch
<1>4. Obtained(r, q.mine) => ByOne(r) /\ AboutRequest(r)'
  BY <1>1, <1>2, <1>3, ObtainedStep
<1>5. CASE DashPublish(r)
  <2>1. Obtained(r, q.mine) /\ cache' = [cache EXCEPT ![q.at] = q.mine]
    BY <1>5 DEF DashPublish
  <2>2. q.mine \in Slot
    BY <1>2 DEF Slot
  <2>3. QED
    BY <1>1, <1>2, <1>4, <2>1, <2>2, MeddledStep
<1>6. CASE q.pc = "devict" /\ cache' = [cache EXCEPT ![q.at] = None] /\ NotObtained(r)
  <2>1. ByOne(r) /\ AboutRequest(r)'
    BY <1>1, <1>3, <1>6, NotObtainedStep
  <2>2. QED
    BY <1>1, <1>6, <2>1, MeddledStep DEF Slot
<1>7. CASE q.pc = "devict" /\ cache' = cache /\ Obtained(r, q.mine)
  BY <1>1, <1>4, <1>7, PrivateStep DEF shared
<1>8. CASE q.pc = "devict" /\ cache' = cache /\ Step(r, [pc |-> "dload"])
  <2>1. Moves(r, "dload") /\ RequestTyped(r)'
    BY <1>1, <1>8, MoveFields
  <2>2. Aimed(r)'
    BY <1>1, <1>8, <2>1 DEF Aimed, Moves, Over, Meddling, Asking, Opening, Leaving
  <2>3. Guarded(r)' /\ Handed(r)' /\ Alone(r)' /\ Sole(r)'
    BY <1>1, <1>2, <1>8, <2>1 DEF Guarded, Handed, Alone, Sole, Moves, Opening, Owning, Branching,
                            Over, Fresh
  <2>4. QED
    BY <1>1, <1>8, <2>1, <2>2, <2>3, PrivateStep DEF AboutRequest, Moves, shared
<1>9. QED
  <2>1. CASE DashEvict(r)
    <3>1. q.pc = "devict"
      BY <2>1 DEF DashEvict, At
    <3>2. \/ cache' = [cache EXCEPT ![q.at] = None] /\ NotObtained(r)
          \/ (Step(r, [pc |-> "dload"]) \/ Obtained(r, q.mine)) /\ cache' = cache
      BY <2>1 DEF DashEvict
    <3>3. QED
      BY <1>6, <1>7, <1>8, <3>1, <3>2
  <2>2. QED
    BY <1>5, <2>1

\* A step that leaves the map and the mutexes alone.
LEMMA DiskStep ==
    ASSUME CacheInv, NEW r \in Requests, ByOne(r) /\ AboutRequest(r)',
           UNCHANGED <<cache, lockOf, holder, meddled>>,
           DOMAIN handles' = Handles, DOMAIN store' = Keys,
           acknowledged' \in [Keys -> Seq(Thoughts)],
           \A h \in Handles : HandleTyped(h)',
           \A k \in Keys : AboutKey(k)',
           \A h \in Handles : handles[h] # None => Stays(h),
           \A s \in Other(r) : \A k \in Keys \ meddled, h \in Handles :
              Opens(s, k) /\ HandleFits(h, k) /\ Refers(s, h) /\ handles[h].key = k =>
                HandleFits(h, k)'
    PROVE  CacheInv'
<1>1. CacheTyped'
  BY DEF CacheInv, CacheTyped, ByOne
<1>2. meddled' \subseteq Keys
  BY DEF CacheInv
<1>3. QED
  BY <1>1, <1>2, FrameStep

\* A chain that is opened fits its file.
LEMMA NewHandleStep ==
    ASSUME CacheInv, NEW k \in Keys, NEW h \in Handles, handles[h] = None, NewHandle(k, h),
           UNCHANGED <<cache, store, acknowledged, meddled>>
    PROVE  /\ DOMAIN handles' = Handles /\ handles'[h] # None /\ handles'[h].key = k
           /\ \A g \in Handles : HandleTyped(g)'
           /\ \A g \in Handles : handles[g] # None => handles'[g] = handles[g] /\ g # h
           /\ k \notin meddled => HandleFits(h, k)'
           /\ \A j \in Keys : AboutKey(j)'
<1> USE Apart
<1>1. store[k] \in File /\ DOMAIN handles = Handles
      /\ \A g \in Handles : handles[g] \in Handle \cup {None}
  BY DEF CacheInv, StoreTyped, HandleTyped, CacheTyped
<1>2. Ids(store[k].recs) \in Seq(Thoughts)
  BY <1>1, IdsType DEF File
<1> DEFINE new == [key |-> k, chain |-> Ids(store[k].recs), fd |-> None, attached |-> TRUE,
                   owes |-> FALSE, writer |-> None]
<1>3. new \in Handle /\ new.key = k /\ new.chain = Ids(store[k].recs) /\ new.fd = None
  BY <1>2 DEF Handle
<1>4. handles' = [handles EXCEPT ![h] = new]
  BY DEF NewHandle
<1> HIDE DEF new
<1>5. /\ DOMAIN handles' = Handles /\ handles'[h] = new
      /\ \A g \in Handles : g # h => handles'[g] = handles[g]
  BY <1>1, <1>4
<1>6. \A g \in Handles : HandleTyped(g)'
  BY <1>1, <1>3, <1>5 DEF HandleTyped
<1>7. k \notin meddled => HandleFits(h, k)'
  <2>1. SUFFICES ASSUME k \notin meddled PROVE HandleFits(h, k)'
    OBVIOUS
  <2>2. store[k].recs = Chained(acknowledged[k]) /\ acknowledged[k] \in Seq(Thoughts)
    BY <2>1 DEF CacheInv, Sound, CacheTyped
  <2>3. Ids(store[k].recs) = acknowledged[k]
    BY <2>2, IdsOfChained
  <2>4. QED
    BY <1>3, <1>5, <2>3 DEF HandleFits
<1>8. \A j \in Keys : AboutKey(j)'
  <2>1. \A j \in Keys : cache[j] # None => cache[j] \in Handles /\ cache[j] # h
    BY DEF CacheInv, CacheTyped, Slot, Cached
  <2>2. QED
    BY <1>5, <2>1 DEF CacheInv, AboutKey, StoreTyped, Cached, Sound, HandleFits
<1>9. QED
  BY <1>3, <1>5, <1>6, <1>7, <1>8

LEMMA OpenStep ==
    ASSUME CacheInv, NEW r \in Requests, NEW h \in Handles, handles[h] = None,
           \/ req[r].pc = "oload" /\ Step(r, [pc |-> "oreg", mine |-> h])
           \/ req[r].pc = "dload" /\ Step(r, [pc |-> "dpublish", mine |-> h]),
           NewHandle(req[r].at, h),
           UNCHANGED <<cache, lockOf, holder, store, acknowledged, meddled>>
    PROVE  CacheInv'
<1> USE Apart
<1> DEFINE q == req[r]
<1>1. /\ DOMAIN req = Requests /\ meddled \subseteq Keys
      /\ RequestTyped(r) /\ Aimed(r) /\ Guarded(r) /\ Handed(r) /\ Alone(r) /\ Sole(r)
      /\ q.pc \in {"oload", "dload"} /\ q.at \in Keys
  BY OwnFacts DEF CacheInv, Aimed, Over
<1>a. PICK k \in Keys : k = q.at
  BY <1>1
<1>2. /\ DOMAIN handles' = Handles /\ handles'[h] # None /\ handles'[h].key = k
      /\ \A g \in Handles : HandleTyped(g)'
      /\ \A g \in Handles : handles[g] # None => handles'[g] = handles[g] /\ g # h
      /\ k \notin meddled => HandleFits(h, k)'
      /\ \A j \in Keys : AboutKey(j)'
  <2>1. NewHandle(k, h) /\ UNCHANGED <<cache, store, acknowledged, meddled>>
    BY <1>a
  <2>2. QED
    BY <2>1, NewHandleStep
<1>3. PICK p \in {"oreg", "dpublish"} :
        /\ \/ q.pc = "oload" /\ p = "oreg"
           \/ q.pc = "dload" /\ p = "dpublish"
        /\ Step(r, [pc |-> p, mine |-> h])
  <2>1. CASE q.pc = "oload" /\ Step(r, [pc |-> "oreg", mine |-> h])
    BY <2>1
  <2>2. CASE q.pc = "dload" /\ Step(r, [pc |-> "dpublish", mine |-> h])
    BY <2>2
  <2>3. QED
    BY <2>1, <2>2
<1>4. /\ ByOne(r) /\ DOMAIN req'[r] = DOMAIN q /\ req'[r].plan = q.plan
      /\ req'[r].pc = p /\ req'[r].at = q.at /\ req'[r].lock = q.lock
      /\ req'[r].blk = q.blk /\ req'[r].mine = h /\ req'[r].aux = q.aux
      /\ req'[r].batch = q.batch /\ req'[r].gone = q.gone
  BY <1>1, <1>3 DEF Step, ByOne, Other, RequestTyped
<1>5. RequestTyped(r)'
  BY <1>1, <1>4 DEF RequestTyped, Slot
<1>6. Aimed(r)'
  BY <1>1, <1>3, <1>4 DEF Aimed, Over, Meddling, Asking, Opening, Leaving
<1>7. Guarded(r)' /\ Alone(r)'
  BY <1>1, <1>3, <1>4 DEF Guarded, Alone, Opening, Over, Fresh
<1>8. q.aux # None => q.aux \in Handles /\ handles[q.aux] # None
  BY <1>1 DEF Handed, RequestTyped, Slot
<1>9. Handed(r)'
  BY <1>1, <1>a, <1>2, <1>3, <1>4, <1>8 DEF Handed, Owning, Branching
<1>10. Sole(r)'
  <2>1. SUFFICES ASSUME ~ q.gone
                 PROVE  /\ \A g \in Handles :
                             g \in {h, q.aux} /\ handles'[g].key \notin meddled =>
                               \/ g = cache[handles'[g].key]
                               \/ p \in Fresh /\ k = handles'[g].key /\ h = g
                        /\ p \in Fresh /\ k \notin meddled => HandleFits(h, k)'
    BY <1>a, <1>4 DEF Sole, HandleFits
  <2>2. q.aux # None /\ handles[q.aux].key \notin meddled => q.aux = cache[handles[q.aux].key]
    BY <1>1, <1>8, <2>1 DEF Sole, Fresh
  <2>3. p = "dpublish" => k \in meddled
    BY <1>1, <1>a, <1>3 DEF Aimed, Meddling
  <2>4. QED
    BY <1>2, <1>3, <1>8, <2>2, <2>3 DEF Fresh
<1>11. \A s \in Other(r) : \A j \in Keys \ meddled, g \in Handles :
          Opens(s, j) /\ HandleFits(g, j) /\ Refers(s, g) => HandleFits(g, j)'
  <2>1. \A s \in Other(r), g \in Handles : Refers(s, g) => handles[g] # None
    BY DEF CacheInv, Handed, Refers, Other
  <2>2. QED
    BY <1>2, <2>1 DEF HandleFits
<1>12. acknowledged' \in [Keys -> Seq(Thoughts)] /\ DOMAIN store' = Keys
  BY DEF CacheInv, CacheTyped
<1>13. QED
  BY <1>2, <1>4, <1>5, <1>6, <1>7, <1>9, <1>10, <1>11, <1>12, DiskStep DEF AboutRequest, Stays

\* The open that fails, and what the mutex is then.
LEMMA LoadFailsStep ==
    ASSUME CacheInv, NEW r \in Requests, req[r].pc \in {"oload", "osave"}, LoadFails(r)
    PROVE  CacheInv'
<1>1. /\ DOMAIN req = Requests /\ UNCHANGED <<cache, lockOf, handles, store, acknowledged>>
      /\ meddled' = meddled /\ meddled \subseteq Keys /\ NotObtained(r)
      /\ RequestTyped(r) /\ Aimed(r) /\ holder' = Unheld(req[r].lock)
  BY OwnFacts DEF LoadFails, stored, CacheInv
<1>2. /\ holder' \in [Locks -> Requests \cup {None}]
      /\ \A s \in Other(r) : \A m \in Locks : holder[m] = s => holder'[m] = s
      /\ KeepsBranch(r)
  BY <1>1, ReleaseStep DEF Opening
<1>3. ByOne(r) /\ AboutRequest(r)'
  BY <1>1, <1>2, NotObtainedStep DEF Opening
<1>4. \A k \in Keys : Cached(k)'
  BY <1>1 DEF CacheInv, Cached, HandleFits
<1>5. cache' \in [Keys -> Slot] /\ lockOf' \in [Keys -> Mutex]
  BY <1>1 DEF CacheInv, CacheTyped
<1>6. QED
  BY <1>1, <1>2, <1>3, <1>4, <1>5, MapStep

LEMMA LoadStep ==
    ASSUME CacheInv, NEW r \in Requests, OpenLoad(r) \/ DashLoad(r)
    PROVE  CacheInv'
<1> USE Apart
<1> DEFINE q == req[r]
           h == Place(Free)
<1>1. Free # {} => h \in Handles /\ handles[h] = None
  BY DEF Place, Free
<1> HIDE DEF h
<1>2. CASE OpenLoad(r)
  <2>1. q.pc = "oload"
    BY <1>2 DEF OpenLoad, At
  <2>2. CASE Readable(store[q.at].recs)
    <3>1. /\ Free # {} /\ NewHandle(q.at, h) /\ Step(r, [pc |-> "oreg", mine |-> h])
          /\ UNCHANGED <<cache, lockOf, holder, store, acknowledged, meddled>>
      BY <1>2, <2>2 DEF OpenLoad, stored, h
    <3>2. QED
      BY <1>1, <2>1, <3>1, OpenStep
  <2>3. CASE ~ Readable(store[q.at].recs)
    <3>1. LoadFails(r)
      BY <1>2, <2>3 DEF OpenLoad
    <3>2. QED
      BY <2>1, <3>1, LoadFailsStep
  <2>4. QED
    BY <2>2, <2>3
<1>3. CASE DashLoad(r)
  <2>1. /\ q.pc = "dload" /\ UNCHANGED <<cache, lockOf, holder, store, acknowledged, meddled>>
        /\ DOMAIN req = Requests /\ meddled \subseteq Keys
        /\ RequestTyped(r) /\ Aimed(r) /\ Handed(r) /\ q.blk = None /\ q.aux = None
        /\ q.at \in meddled
    BY <1>3, OwnFacts DEF DashLoad, At, stored, CacheInv, Aimed, Over, Meddling
  <2>2. CASE Readable(store[q.at].recs)
    <3>1. Free # {} /\ NewHandle(q.at, h) /\ Step(r, [pc |-> "dpublish", mine |-> h])
      BY <1>3, <2>2 DEF DashLoad, h
    <3>2. QED
      BY <1>1, <2>1, <3>1, OpenStep
  <2>3. CASE ~ Readable(store[q.at].recs)
    <3>1. handles' = handles /\ (IF q.mine # None THEN Obtained(r, q.mine) ELSE NotObtained(r))
      BY <1>3, <2>3 DEF DashLoad
    <3>2. KeepsBranch(r)
      BY <2>1 DEF KeepsBranch
    <3>3. CASE q.mine # None
      <4>1. q.mine \in Handles /\ handles[q.mine] # None /\ handles[q.mine].key = q.at
        BY <2>1, <3>3 DEF Handed, RequestTyped, Slot
      <4>2. ByOne(r) /\ AboutRequest(r)'
        BY <2>1, <3>1, <3>2, <3>3, <4>1, ObtainedStep
      <4>3. QED
        BY <2>1, <3>1, <4>2, PrivateStep DEF shared
    <3>4. CASE q.mine = None
      <4>1. q.plan.op \in {"open", "bootstrap", "delete"}
        BY <2>1 DEF Aimed
      <4>2. ByOne(r) /\ AboutRequest(r)'
        BY <2>1, <3>1, <3>2, <3>4, <4>1, NotObtainedStep
      <4>3. QED
        BY <2>1, <3>1, <4>2, PrivateStep DEF shared
    <3>5. QED
      BY <3>3, <3>4
  <2>4. QED
    BY <2>2, <2>3
<1>4. QED
  BY <1>2, <1>3

\* The handle writes to the file of its chain.
Writes(h, k) == handles[h].fd = None \/ (handles[h].fd = store[k].gen /\ store[k].exists)

\* What the files are after the handle h of k wrote ids.
Filed(new, h, k, ids) ==
    /\ DOMAIN new = Keys
    /\ \A j \in Keys : j # k => new[j] = store[j]
    /\ ~ Writes(h, k) => new[k] = store[k]
    /\ Writes(h, k) =>
         /\ new[k] \in File /\ new[k].exists
         /\ new[k].gen = IF store[k].exists THEN store[k].gen ELSE store[k].gen + 1
         /\ new[k].recs = store[k].recs \o Added(handles[h].chain, ids)

LEMMA WrittenFile ==
    ASSUME CacheInv, NEW h \in Handles, handles[h] # None, NEW k \in Keys, handles[h].key = k,
           NEW ids \in Seq(Thoughts)
    PROVE  Filed(Written(h, ids), h, k, ids)
<1>1. handles[h] \in Handle /\ store[k] \in File /\ DOMAIN store = Keys
  BY DEF CacheInv, HandleTyped, StoreTyped, CacheTyped
<1>2. handles[h].chain \in Seq(Thoughts)
  BY <1>1 DEF Handle
<1>3. Added(handles[h].chain, ids) \in Seq(Record)
  BY <1>2, ChainedGrows
<1> DEFINE gen == IF store[k].exists THEN store[k].gen ELSE store[k].gen + 1
           recs == store[k].recs \o Added(handles[h].chain, ids)
           new == [exists |-> TRUE, gen |-> gen, recs |-> recs]
<1>4. store[k].recs \in Seq(Record) /\ store[k].gen \in Nat /\ store[k].exists \in BOOLEAN
  BY <1>1 DEF File
<1>5. recs \in Seq(Record) /\ gen \in Nat
  BY <1>3, <1>4, ConcatProperties
<1> HIDE DEF recs, gen
<1>6. new \in File /\ new.exists /\ new.gen = gen /\ new.recs = recs
  BY <1>5 DEF File
<1> HIDE DEF new
<1>7. Written(h, ids) = IF Writes(h, k) THEN [store EXCEPT ![k] = new] ELSE store
  BY DEF Written, Writes, Added, new, recs, gen
<1>8. QED
  BY <1>1, <1>6, <1>7 DEF recs, gen, Filed

\* What was written is acknowledged, and the handle still fits its file.
LEMMA WrittenStep ==
    ASSUME CacheInv, NEW h \in Handles, handles[h] # None, NEW k \in Keys, handles[h].key = k,
           NEW ids \in Seq(Thoughts), NEW w \in Requests \cup {None},
           k \notin meddled => h = cache[k],
           store' = Written(h, ids), handles' = Extended(h, ids, w),
           acknowledged' = [acknowledged EXCEPT ![handles[h].key] = @ \o ids],
           UNCHANGED <<cache, meddled>>
    PROVE  /\ DOMAIN handles' = Handles /\ DOMAIN store' = Keys
           /\ acknowledged' \in [Keys -> Seq(Thoughts)]
           /\ \A g \in Handles : HandleTyped(g)'
           /\ \A j \in Keys : AboutKey(j)'
           /\ \A g \in Handles : handles[g] # None => Stays(g)
           /\ \A j \in Keys \ meddled, g \in Handles :
                cache[j] = None /\ HandleFits(g, j) /\ handles[g].key = j => HandleFits(g, j)'
<1> USE Apart
<1>1. /\ handles[h] \in Handle /\ store[k] \in File /\ DOMAIN handles = Handles
      /\ acknowledged \in [Keys -> Seq(Thoughts)]
      /\ \A g \in Handles : handles[g] \in Handle \cup {None}
      /\ \A j \in Keys : store[j] \in File
  BY DEF CacheInv, HandleTyped, StoreTyped, CacheTyped
<1>2. handles[h].chain \in Seq(Thoughts) /\ handles[h].attached \in BOOLEAN
      /\ handles[h].fd \in Nat \cup {None}
  BY <1>1 DEF Handle
<1>3. /\ DOMAIN store' = Keys
      /\ \A j \in Keys : j # k => store'[j] = store[j]
      /\ ~ Writes(h, k) => store'[k] = store[k]
      /\ Writes(h, k) =>
           /\ store'[k] \in File /\ store'[k].exists
           /\ store'[k].gen = IF store[k].exists THEN store[k].gen ELSE store[k].gen + 1
           /\ store'[k].recs = store[k].recs \o Added(handles[h].chain, ids)
  <2>1. Filed(Written(h, ids), h, k, ids)
    BY WrittenFile
  <2>2. Filed(store', h, k, ids)
    BY <2>1
  <2>3. QED
    BY <2>2 DEF Filed
<1>4. Opened(h) \in Nat \cup {None} /\ (Writes(h, k) => Opened(h) = store'[k].gen)
  <2>1. CASE handles[h].fd # None
    <3>1. Opened(h) = handles[h].fd
      BY <2>1 DEF Opened
    <3>2. Writes(h, k) => handles[h].fd = store'[k].gen
      BY <1>3, <2>1 DEF Writes
    <3>3. QED
      BY <1>2, <3>1, <3>2
  <2>2. CASE handles[h].fd = None
    <3>1. Opened(h) = Written(h, <<>>)[k].gen
      BY <2>2 DEF Opened
    <3>2. <<>> \in Seq(Thoughts) /\ Writes(h, k)
      BY <2>2 DEF Writes
    <3>a. Filed(Written(h, <<>>), h, k, <<>>)
      BY <3>2, WrittenFile
    <3>3. /\ Written(h, <<>>)[k] \in File
          /\ Written(h, <<>>)[k].gen =
                     IF store[k].exists THEN store[k].gen ELSE store[k].gen + 1
      BY <3>2, <3>a DEF Filed
    <3>4. Written(h, <<>>)[k].gen \in Nat
      BY <3>3 DEF File
    <3>5. QED
      BY <1>3, <3>1, <3>2, <3>3, <3>4
  <2>3. QED
    BY <2>1, <2>2
<1> DEFINE chain == handles[h].chain \o ids
           new == [handles[h] EXCEPT !.chain = @ \o ids, !.fd = Opened(h),
                                     !.owes = handles[h].attached, !.writer = w]
<1>5. chain \in Seq(Thoughts)
  BY <1>2, ConcatProperties
<1>6. new \in Handle /\ new.key = k /\ new.chain = chain /\ new.fd = Opened(h)
  <2> HIDE DEF chain
  <2>1. new = [handles[h] EXCEPT !.chain = chain, !.fd = Opened(h),
                                 !.owes = handles[h].attached, !.writer = w]
    BY DEF chain
  <2> HIDE DEF new
  <2>2. QED
    BY <1>1, <1>2, <1>4, <1>5, <2>1 DEF Handle
<1>7. handles' = [handles EXCEPT ![h] = new]
  BY DEF Extended
<1> HIDE DEF new, chain
<1>8. /\ DOMAIN handles' = Handles /\ handles'[h] = new
      /\ \A g \in Handles : g # h => handles'[g] = handles[g]
  BY <1>1, <1>7
<1>9. /\ acknowledged' \in [Keys -> Seq(Thoughts)]
      /\ acknowledged'[k] = acknowledged[k] \o ids
      /\ \A j \in Keys : j # k => acknowledged'[j] = acknowledged[j]
  <2>1. acknowledged[k] \o ids \in Seq(Thoughts)
    BY <1>1, ConcatProperties
  <2>2. QED
    BY <1>1, <2>1
<1>10. \A g \in Handles : HandleTyped(g)'
  BY <1>1, <1>6, <1>8 DEF HandleTyped
<1>11. \A g \in Handles : handles[g] # None => Stays(g)
  BY <1>6, <1>8 DEF Stays
<1>12. k \notin meddled => HandleFits(h, k) /\ store[k].recs = Chained(acknowledged[k])
  BY DEF CacheInv, Cached, Sound
<1>13. k \notin meddled =>
         HandleFits(h, k)' /\ store'[k].recs = Chained(acknowledged'[k])
  <2>1. SUFFICES ASSUME k \notin meddled
                 PROVE  HandleFits(h, k)' /\ store'[k].recs = Chained(acknowledged'[k])
    OBVIOUS
  <2>2. /\ handles[h].chain = acknowledged[k] /\ Writes(h, k)
        /\ store[k].recs = Chained(acknowledged[k])
    BY <1>12, <2>1 DEF HandleFits, Writes
  <2>3. chain = acknowledged'[k]
    BY <1>9, <2>2 DEF chain
  <2>4. HandleFits(h, k)'
    BY <1>3, <1>4, <1>6, <1>8, <2>2, <2>3 DEF HandleFits
  <2>5. Chained(acknowledged[k]) \o Added(acknowledged[k], ids) = Chained(acknowledged[k] \o ids)
    BY <1>1, ChainedGrows
  <2>6. QED
    BY <1>3, <1>9, <2>2, <2>4, <2>5
<1>14. \A j \in Keys : AboutKey(j)'
  <2>1. SUFFICES ASSUME NEW j \in Keys PROVE AboutKey(j)'
    OBVIOUS
  <2>2. StoreTyped(j)'
    BY <1>1, <1>3 DEF StoreTyped
  <2>3. Cached(j)'
    <3>1. SUFFICES ASSUME cache[j] # None PROVE Cached(j)'
      BY DEF Cached
    <3>2. /\ cache[j] \in Handles /\ handles[cache[j]] # None /\ handles[cache[j]].key = j
          /\ j \notin meddled => HandleFits(cache[j], j)
      BY <3>1 DEF CacheInv, CacheTyped, Slot, Cached
    <3>3. CASE cache[j] = h
      BY <1>6, <1>8, <1>13, <3>2, <3>3 DEF Cached, HandleFits
    <3>4. CASE cache[j] # h
      <4>1. handles'[cache[j]] = handles[cache[j]]
        BY <1>8, <3>2, <3>4
      <4>2. j \notin meddled => j # k
        BY <3>4
      <4>3. QED
        BY <1>3, <1>9, <3>2, <4>1, <4>2 DEF Cached, HandleFits
    <3>5. QED
      BY <3>3, <3>4
  <2>4. Sound(j)'
    BY <1>3, <1>9, <1>13 DEF CacheInv, Sound
  <2>5. QED
    BY <2>2, <2>3, <2>4 DEF AboutKey
<1>15. \A j \in Keys \ meddled, g \in Handles :
         cache[j] = None /\ HandleFits(g, j) /\ handles[g].key = j => HandleFits(g, j)'
  BY SMTT(30), <1>3, <1>8, <1>9 DEF HandleFits
<1>16. QED
  BY <1>3, <1>8, <1>9, <1>10, <1>11, <1>14, <1>15

\* The request goes on from a write that is complete.
LEMMA AfterWriteStep ==
    ASSUME CacheInv, NEW r \in Requests, req[r].pc \in {"append", "genesis", "paste", "asave"},
           Step(r, AfterWrite(r)), UNCHANGED <<cache, holder, meddled>>,
           \A h \in Handles : handles[h] # None => Stays(h)
    PROVE  ByOne(r) /\ AboutRequest(r)'
<1> USE Apart
<1> DEFINE q == req[r]
<1>1. /\ DOMAIN req = Requests /\ q.at \in Keys
      /\ RequestTyped(r) /\ Aimed(r) /\ Guarded(r) /\ Handed(r) /\ Alone(r) /\ Sole(r)
  BY OwnFacts DEF Aimed, Over
<1>2. CASE q.gone \/ q.plan.op \notin {"branch", "merge"}
  <2>1. Step(r, Finished)
    BY <1>2 DEF AfterWrite, Op
  <2>2. QED
    BY <1>1, <2>1, EndStep
<1>3. CASE ~ q.gone /\ q.plan.op = "branch"
  <2>1. Step(r, [pc |-> "bpublish"])
    BY <1>3 DEF AfterWrite, Op
  <2>2. Moves(r, "bpublish") /\ RequestTyped(r)'
    BY <1>1, <2>1, MoveFields
  <2>3. q.pc \in {"genesis", "asave"}
    BY <1>1, <1>3 DEF Aimed
  <2>4. Aimed(r)'
    BY <1>1, <1>3, <2>2, <2>3 DEF Aimed, Moves, Over, Meddling, Asking, Opening, Leaving
  <2>5. /\ q.mine \in Handles /\ handles[q.mine] # None /\ handles[q.mine].key = q.plan.key
        /\ q.aux # None => q.aux \in Handles /\ handles[q.aux] # None
    BY <1>1, <1>3, <2>3 DEF Handed, Branching, RequestTyped, Slot
  <2>6. Guarded(r)' /\ Alone(r)'
    BY <1>1, <2>2, <2>3 DEF Guarded, Alone, Moves, Opening, Over, Fresh
  <2>7. Handed(r)'
    BY <1>3, <2>2, <2>5 DEF Handed, Moves, Owning, Stays
  <2>8. Sole(r)'
    BY <1>1, <1>3, <2>2, <2>3, <2>5 DEF Sole, Moves, Fresh, Stays
  <2>9. QED
    BY <2>2, <2>4, <2>6, <2>7, <2>8 DEF AboutRequest, Moves
<1>4. CASE ~ q.gone /\ q.plan.op = "merge"
  <2>1. Step(r, [pc |-> "evict", aux |-> None, mine |-> None])
    BY <1>4 DEF AfterWrite, Op
  <2>2. /\ ByOne(r) /\ DOMAIN req'[r] = DOMAIN q /\ req'[r].plan = q.plan
        /\ req'[r].pc = "evict" /\ req'[r].at = q.at /\ req'[r].lock = q.lock
        /\ req'[r].blk = q.blk /\ req'[r].mine = None /\ req'[r].aux = None
        /\ req'[r].batch = q.batch /\ req'[r].gone = q.gone
    BY <1>1, <2>1 DEF Step, ByOne, Other, RequestTyped
  <2>3. RequestTyped(r)'
    BY <1>1, <2>2 DEF RequestTyped, Slot
  <2>4. q.pc \in {"paste", "asave"} /\ q.at \in meddled
    BY <1>1, <1>4 DEF Aimed
  <2>5. Aimed(r)'
    BY <1>1, <1>4, <2>2, <2>4 DEF Aimed, Over, Meddling, Asking, Opening
  <2>6. Guarded(r)' /\ Alone(r)'
    BY <1>1, <2>2, <2>4 DEF Guarded, Alone, Opening, Over, Fresh
  <2>7. Handed(r)' /\ Sole(r)'
    BY <2>2 DEF Handed, Sole, Owning, Branching, Fresh
  <2>8. QED
    BY <2>2, <2>3, <2>5, <2>6, <2>7 DEF AboutRequest
<1>5. QED
  BY <1>2, <1>3, <1>4

\* The request goes on to write the registration of the chain.
LEMMA RegisteringStep ==
    ASSUME CacheInv, NEW r \in Requests, req[r].pc \in {"append", "genesis", "paste"},
           Step(r, [pc |-> "areg"]), UNCHANGED <<cache, holder, meddled>>,
           \A h \in Handles : handles[h] # None => Stays(h)
    PROVE  ByOne(r) /\ AboutRequest(r)'
<1> USE Apart
<1> DEFINE q == req[r]
<1>1. /\ DOMAIN req = Requests /\ q.at \in Keys
      /\ RequestTyped(r) /\ Aimed(r) /\ Guarded(r) /\ Handed(r) /\ Alone(r) /\ Sole(r)
  BY OwnFacts DEF Aimed, Over
<1>2. Moves(r, "areg") /\ RequestTyped(r)'
  BY <1>1, MoveFields
<1>3. Aimed(r)'
  BY <1>1, <1>2 DEF Aimed, Moves, Over, Meddling, Asking, Opening, Leaving
<1>4. /\ q.mine # None => q.mine \in Handles /\ handles[q.mine] # None
      /\ q.aux # None => q.aux \in Handles /\ handles[q.aux] # None
  BY <1>1 DEF Handed, RequestTyped, Slot
<1>5. Guarded(r)' /\ Alone(r)'
  BY <1>1, <1>2 DEF Guarded, Alone, Moves, Opening, Over, Fresh
<1>6. q.plan.op = "branch" => q.mine # None /\ handles[q.mine].key = q.plan.key
  BY <1>1 DEF Aimed, Handed, Branching
<1>7. Handed(r)'
  BY <1>2, <1>4, <1>6 DEF Handed, Moves, Owning, Stays
<1>8. Sole(r)'
  BY <1>1, <1>2, <1>4 DEF Sole, Moves, Fresh, Stays
<1>9. QED
  BY <1>2, <1>3, <1>5, <1>7, <1>8 DEF AboutRequest, Moves

\* The handle a request writes through, and its chain.
LEMMA WriterFacts ==
    ASSUME CacheInv, NEW r \in Requests, req[r].pc \in {"append", "genesis", "paste"},
           NEW h, h = IF req[r].pc = "paste" THEN req[r].aux ELSE req[r].mine
    PROVE  /\ h \in Handles /\ handles[h] # None /\ handles[h].key \in Keys
           /\ handles[h].key \notin meddled => h = cache[handles[h].key]
<1> USE Apart
<1> DEFINE q == req[r]
<1>1. /\ RequestTyped(r) /\ Aimed(r) /\ Handed(r) /\ Sole(r)
      /\ \A g \in Handles : handles[g] \in Handle \cup {None}
  BY OwnFacts DEF CacheInv, HandleTyped
<1>2. h # None
  <2>1. CASE q.pc = "append"
    BY <1>1, <2>1 DEF Handed, Owning
  <2>2. CASE q.pc = "genesis"
    BY <1>1, <2>2 DEF Aimed, Handed, Branching
  <2>3. CASE q.pc = "paste"
    BY <1>1, <2>3 DEF Aimed
  <2>4. QED
    BY <2>1, <2>2, <2>3
<1>3. h \in Handles /\ handles[h] # None /\ handles[h].key \in Keys
  BY <1>1, <1>2 DEF RequestTyped, Slot, Handed, Handle
<1>4. CASE q.gone
  <2>1. q.pc = "genesis" /\ q.plan.op = "branch"
    BY <1>1, <1>4 DEF Aimed, Leaving
  <2>2. handles[h].key = q.plan.key /\ q.plan.key \in meddled
    BY <1>1, <2>1 DEF Handed, Aimed, Branching, Over
  <2>3. QED
    BY <1>3, <2>2
<1>5. CASE ~ q.gone
  BY <1>1, <1>3, <1>5 DEF Sole, Fresh
<1>6. QED
  BY <1>4, <1>5, <1>3

LEMMA WriteStep ==
    ASSUME CacheInv, NEW r \in Requests, req[r].pc \in {"append", "genesis", "paste"},
           NEW h, h = IF req[r].pc = "paste" THEN req[r].aux ELSE req[r].mine,
           NEW ids \in Seq(Thoughts), NEW w \in Requests \cup {None},
           store' = Written(h, ids), handles' = Extended(h, ids, w),
           acknowledged' = [acknowledged EXCEPT ![handles[h].key] = @ \o ids],
           Step(r, [pc |-> "areg"]) \/ Step(r, AfterWrite(r)) \/ Step(r, Finished),
           UNCHANGED <<cache, lockOf, holder, meddled>>
    PROVE  CacheInv'
<1>1. /\ h \in Handles /\ handles[h] # None /\ handles[h].key \in Keys
      /\ handles[h].key \notin meddled => h = cache[handles[h].key]
  BY WriterFacts
<1>2. PICK k \in Keys : k = handles[h].key
  BY <1>1
<1>3. /\ DOMAIN handles' = Handles /\ DOMAIN store' = Keys
      /\ acknowledged' \in [Keys -> Seq(Thoughts)]
      /\ \A g \in Handles : HandleTyped(g)'
      /\ \A j \in Keys : AboutKey(j)'
      /\ \A g \in Handles : handles[g] # None => Stays(g)
      /\ \A j \in Keys \ meddled, g \in Handles :
           cache[j] = None /\ HandleFits(g, j) /\ handles[g].key = j => HandleFits(g, j)'
  BY <1>1, <1>2, WrittenStep
<1>4. ByOne(r) /\ AboutRequest(r)'
  <2>1. CASE Step(r, [pc |-> "areg"])
    BY <1>3, <2>1, RegisteringStep
  <2>2. CASE Step(r, AfterWrite(r))
    BY <1>3, <2>2, AfterWriteStep
  <2>3. CASE Step(r, Finished)
    BY <2>3, EndStep, OwnFacts
  <2>4. QED
    BY <2>1, <2>2, <2>3
<1>5. \A s \in Other(r) : \A j \in Keys \ meddled : Opens(s, j) => cache[j] = None
  BY DEF CacheInv, Alone, Opens, Fresh, Over, Other
<1>6. QED
  BY <1>3, <1>4, <1>5, DiskStep

LEMMA AppendStep ==
    ASSUME CacheInv, NEW r \in Requests, AppendThought(r) \/ Genesis(r) \/ MergePaste(r)
    PROVE  CacheInv'
<1> DEFINE q == req[r]
           h == IF q.pc = "paste" THEN q.aux ELSE q.mine
           ids == IF q.pc = "paste" THEN q.batch ELSE <<r>>
<1>1. /\ UNCHANGED <<cache, lockOf, holder, meddled>> /\ q.pc \in {"append", "genesis", "paste"}
      /\ meddled \subseteq Keys /\ DOMAIN req = Requests
      /\ RequestTyped(r) /\ Aimed(r) /\ Guarded(r)
  BY OwnFacts DEF AppendThought, Genesis, MergePaste, At, CacheInv
<1>2. ids \in Seq(Thoughts)
  <2>1. r \in Thoughts /\ q.batch \in Seq(Thoughts)
    BY <1>1 DEF RequestTyped, Thoughts
  <2>2. <<r>> \in Seq(Thoughts)
    BY <2>1
  <2>3. QED
    BY <2>1, <2>2
<1>3. KeepsBranch(r)
  BY <1>1 DEF KeepsBranch, Guarded
<1>4. \/ Write(r, h, ids)
      \/ /\ UNCHANGED shared
         /\ \/ Step(r, Finished)
            \/ q.pc = "genesis" /\ NotObtained(r)
            \/ Step(r, AfterWrite(r))
  BY <1>1 DEF AppendThought, Genesis, MergePaste, At, shared
<1>5. CASE Write(r, h, ids)
  <2>1. PICK w \in Requests \cup {None} :
          /\ handles' = Extended(h, ids, w)
          /\ Step(r, [pc |-> "areg"]) \/ Step(r, AfterWrite(r))
    BY <1>5 DEF Write
  <2>2. store' = Written(h, ids) /\ acknowledged' = [acknowledged EXCEPT ![handles[h].key] = @ \o ids]
    BY <1>5 DEF Write
  <2>3. PICK g \in Handles, xs \in Seq(Thoughts) : g = h /\ xs = ids
    <3>1. h \in Handles
      BY <1>1, WriterFacts
    <3>2. QED
      BY <1>2, <3>1
  <2>4. /\ store' = Written(g, xs) /\ handles' = Extended(g, xs, w)
        /\ acknowledged' = [acknowledged EXCEPT ![handles[g].key] = @ \o xs]
    BY <2>1, <2>2, <2>3
  <2>5. QED
    BY <1>1, <2>1, <2>3, <2>4, WriteStep
<1>6. CASE /\ UNCHANGED shared
           /\ \/ Step(r, Finished)
              \/ q.pc = "genesis" /\ NotObtained(r)
              \/ Step(r, AfterWrite(r))
  <2>1. \A g \in Handles : handles[g] # None => Stays(g)
    BY <1>6 DEF shared, Stays
  <2>2. ByOne(r) /\ AboutRequest(r)'
    <3>1. CASE Step(r, Finished)
      BY <1>1, <3>1, EndStep
    <3>2. CASE q.pc = "genesis" /\ NotObtained(r)
      <4>1. q.plan.op = "branch"
        BY <1>1, <3>2 DEF Aimed
      <4>2. QED
        BY <1>1, <1>3, <3>2, <4>1, NotObtainedStep
    <3>3. CASE Step(r, AfterWrite(r))
      BY <1>1, <2>1, <3>3, AfterWriteStep
    <3>4. QED
      BY <1>6, <3>1, <3>2, <3>3
  <2>3. QED
    BY <1>1, <1>6, <2>2, PrivateStep
<1>7. QED
  BY <1>4, <1>5, <1>6

\* A step that changes only who writes through a handle and what it owes.
LEMMA MarkStep ==
    ASSUME CacheInv, NEW r \in Requests, ByOne(r) /\ AboutRequest(r)',
           UNCHANGED <<cache, lockOf, holder, store, acknowledged, meddled>>,
           DOMAIN handles' = Handles, \A h \in Handles : HandleTyped(h)',
           \A h \in Handles : handles[h] # None =>
              Stays(h) /\ handles'[h].chain = handles[h].chain /\ handles'[h].fd = handles[h].fd
    PROVE  CacheInv'
<1>1. \A h \in Handles, k \in Keys : handles[h] # None /\ HandleFits(h, k) => HandleFits(h, k)'
  BY DEF HandleFits
<1>2. \A k \in Keys : AboutKey(k)'
  <2>1. \A k \in Keys : cache[k] # None => cache[k] \in Handles /\ handles[cache[k]] # None
    BY DEF CacheInv, CacheTyped, Slot, Cached
  <2>2. \A k \in Keys : Cached(k)'
    BY <1>1, <2>1 DEF CacheInv, Cached, Stays, HandleFits
  <2>3. QED
    BY <2>2 DEF CacheInv, AboutKey, StoreTyped, Sound
<1>3. \A s \in Other(r) : \A h \in Handles : Refers(s, h) => handles[h] # None
  BY Apart DEF CacheInv, Handed, Refers, Other
<1>4. DOMAIN store' = Keys /\ acknowledged' \in [Keys -> Seq(Thoughts)]
  BY DEF CacheInv, CacheTyped
<1>5. QED
  BY <1>1, <1>2, <1>3, <1>4, DiskStep

LEMMA AppendSaveStep ==
    ASSUME CacheInv, NEW r \in Requests, AppendSave(r)
    PROVE  CacheInv'
<1> USE Apart
<1>1. /\ UNCHANGED <<cache, lockOf, holder, store, acknowledged, meddled>> /\ req[r].pc = "asave"
      /\ Step(r, AfterWrite(r))
      /\ handles' = [h \in Handles |->
            IF handles[h] # None /\ handles[h].writer = r
              THEN [handles[h] EXCEPT !.writer = None, !.owes = FALSE] ELSE handles[h]]
  BY DEF AppendSave, At
<1>2. \A h \in Handles : handles[h] \in Handle \cup {None}
  BY DEF CacheInv, HandleTyped
<1> DEFINE saved(x) == [x EXCEPT !.writer = None, !.owes = FALSE]
<1>3. \A x \in Handle : /\ saved(x) \in Handle /\ saved(x).key = x.key
                        /\ saved(x).chain = x.chain /\ saved(x).fd = x.fd
  BY DEF Handle
<1>4. /\ DOMAIN handles' = Handles
      /\ \A h \in Handles : \/ handles'[h] = handles[h]
                            \/ handles[h] # None /\ handles'[h] = saved(handles[h])
  BY <1>1
<1> HIDE DEF saved
<1>5. \A h \in Handles : HandleTyped(h)'
  BY <1>2, <1>3, <1>4 DEF HandleTyped
<1>6. \A h \in Handles : handles[h] # None =>
         Stays(h) /\ handles'[h].chain = handles[h].chain /\ handles'[h].fd = handles[h].fd
  BY <1>2, <1>3, <1>4 DEF Stays
<1>7. ByOne(r) /\ AboutRequest(r)'
  BY <1>1, <1>6, AfterWriteStep
<1>8. QED
  BY <1>1, <1>4, <1>5, <1>6, <1>7, MarkStep

LEMMA DetachStep ==
    ASSUME CacheInv, NEW r \in Requests, Detach(r)
    PROVE  CacheInv'
<1> USE Apart
<1> DEFINE q == req[r]
<1>1. /\ UNCHANGED <<cache, lockOf, holder, store, acknowledged, meddled>> /\ q.pc = "detach"
      /\ DOMAIN req = Requests /\ q.at \in meddled /\ q.plan.op \in {"delete", "merge"}
      /\ RequestTyped(r) /\ Aimed(r) /\ Guarded(r) /\ Handed(r) /\ Alone(r) /\ Sole(r)
      /\ Step(r, [pc |-> "dregload", mine |-> None])
      /\ handles' = [handles EXCEPT ![q.mine].attached = FALSE, ![q.mine].owes = FALSE]
  BY OwnFacts DEF Detach, At, stored, Aimed, Over, Meddling
<1>2. /\ DOMAIN handles = Handles /\ q.mine \in Handles /\ handles[q.mine] # None
      /\ \A h \in Handles : handles[h] \in Handle \cup {None}
  BY <1>1 DEF CacheInv, HandleTyped, CacheTyped, Handed, Owning, RequestTyped, Slot
<1> DEFINE new == [handles[q.mine] EXCEPT !.attached = FALSE, !.owes = FALSE]
<1>3. handles' = [handles EXCEPT ![q.mine] = new]
  BY <1>1, <1>2
<1>4. /\ new \in Handle /\ new.key = handles[q.mine].key /\ new.chain = handles[q.mine].chain
      /\ new.fd = handles[q.mine].fd
  BY <1>2 DEF Handle
<1> HIDE DEF new
<1>5. DOMAIN handles' = Handles /\ \A h \in Handles : HandleTyped(h)'
  BY <1>2, <1>3, <1>4 DEF HandleTyped
<1>6. \A h \in Handles : handles[h] # None =>
         Stays(h) /\ handles'[h].chain = handles[h].chain /\ handles'[h].fd = handles[h].fd
  BY <1>2, <1>3, <1>4 DEF Stays
<1>7. /\ ByOne(r) /\ DOMAIN req'[r] = DOMAIN q /\ req'[r].plan = q.plan
      /\ req'[r].pc = "dregload" /\ req'[r].at = q.at /\ req'[r].lock = q.lock
      /\ req'[r].blk = q.blk /\ req'[r].mine = None /\ req'[r].aux = q.aux
      /\ req'[r].batch = q.batch /\ req'[r].gone = q.gone
  BY <1>1 DEF Step, ByOne, Other, RequestTyped
<1>8. RequestTyped(r)' /\ Aimed(r)'
  <2>1. RequestTyped(r)'
    BY <1>1, <1>7 DEF RequestTyped, Slot
  <2>2. Aimed(r)'
    BY <1>1, <1>7 DEF Aimed, Over, Meddling, Asking, Opening, Leaving
  <2>3. QED
    BY <2>1, <2>2
<1>9. q.aux # None => q.aux \in Handles /\ handles[q.aux] # None
  BY <1>1 DEF Handed, RequestTyped, Slot
<1>10. Guarded(r)' /\ Handed(r)' /\ Alone(r)' /\ Sole(r)'
  <2>1. Guarded(r)' /\ Alone(r)'
    BY <1>1, <1>7 DEF Guarded, Alone, Opening, Over, Fresh
  <2>2. Handed(r)'
    BY <1>6, <1>7, <1>9 DEF Handed, Owning, Branching, Stays
  <2>3. ~ q.gone /\ q.aux # None /\ handles'[q.aux].key \notin meddled =>
          q.aux = cache[handles'[q.aux].key]
    <3>1. q.aux # None => handles'[q.aux].key = handles[q.aux].key
      BY <1>6, <1>9 DEF Stays
    <3>2. QED
      BY <1>1, <1>9, <3>1 DEF Sole, Fresh
  <2>4. Sole(r)'
    BY <1>1, <1>7, <2>3 DEF Sole, Fresh
  <2>5. QED
    BY <2>1, <2>2, <2>4
<1>11. QED
  BY <1>1, <1>5, <1>6, <1>7, <1>8, <1>10, MarkStep DEF AboutRequest

LEMMA UnlinkStep ==
    ASSUME CacheInv, NEW r \in Requests, Unlink(r)
    PROVE  CacheInv'
<1> USE Apart
<1> DEFINE q == req[r]
<1>1. /\ UNCHANGED <<cache, lockOf, holder, handles, meddled>> /\ q.pc = "unlink"
      /\ DOMAIN req = Requests /\ q.at \in meddled /\ meddled \subseteq Keys
      /\ RequestTyped(r) /\ Aimed(r) /\ Step(r, Finished)
      /\ store' = [store EXCEPT ![q.at].exists = FALSE, ![q.at].recs = <<>>]
      /\ acknowledged' = [acknowledged EXCEPT ![q.at] = <<>>]
  BY OwnFacts DEF Unlink, At, Aimed, Over, Meddling, CacheInv
<1>2. PICK k \in meddled : k = q.at
  BY <1>1
<1> DEFINE new == [store[k] EXCEPT !.exists = FALSE, !.recs = <<>>]
<1>3. DOMAIN store = Keys /\ \A j \in Keys : store[j] \in File
  BY DEF CacheInv, CacheTyped, StoreTyped
<1>4. store' = [store EXCEPT ![k] = new]
  BY <1>1, <1>2, <1>3
<1>5. new \in File
  <2>1. <<>> \in Seq(Record) /\ store[k] \in File
    BY <1>1, <1>3
  <2>2. QED
    BY <2>1 DEF File
<1> HIDE DEF new
<1>6. /\ DOMAIN store' = Keys /\ acknowledged' \in [Keys -> Seq(Thoughts)]
      /\ \A j \in Keys : store'[j] \in File
      /\ \A j \in Keys \ {k} : store'[j] = store[j] /\ acknowledged'[j] = acknowledged[j]
  <2>1. acknowledged \in [Keys -> Seq(Thoughts)] /\ <<>> \in Seq(Thoughts)
    BY DEF CacheInv, CacheTyped
  <2>2. QED
    BY <1>1, <1>2, <1>3, <1>4, <1>5, <2>1
<1>7. ByOne(r) /\ AboutRequest(r)'
  BY <1>1, EndStep
<1>8. \A j \in Keys : AboutKey(j)'
  <2>1. \A j \in Keys : StoreTyped(j)'
    BY <1>6 DEF StoreTyped
  <2>2. \A j \in Keys : Sound(j)'
    BY <1>1, <1>6 DEF CacheInv, Sound
  <2>3. \A j \in Keys : Cached(j)'
    BY <1>1, <1>6 DEF CacheInv, Cached, HandleFits
  <2>4. QED
    BY <2>1, <2>2, <2>3 DEF AboutKey
<1>9. /\ DOMAIN handles' = Handles /\ \A h \in Handles : HandleTyped(h)'
      /\ \A h \in Handles : handles[h] # None => Stays(h)
  BY <1>1 DEF CacheInv, CacheTyped, HandleTyped, Stays, Handle
<1>10. \A j \in Keys \ meddled, h \in Handles : HandleFits(h, j) => HandleFits(h, j)'
  BY <1>1, <1>6 DEF HandleFits
<1>11. QED
  BY <1>1, <1>6, <1>7, <1>8, <1>9, <1>10, DiskStep

\* A merge that stops wrote the part of the source that it copied.
LEMMA MergeStopsStep ==
    ASSUME CacheInv, NEW r \in Requests, MergeStops(r)
    PROVE  CacheInv'
<1> USE Apart
<1> DEFINE q == req[r]
<1>1. /\ UNCHANGED <<cache, lockOf, holder, meddled>> /\ q.pc = "paste" /\ Step(r, Finished)
      /\ meddled \subseteq Keys /\ DOMAIN req = Requests /\ RequestTyped(r) /\ Aimed(r)
  BY OwnFacts DEF MergeStops, At, CacheInv
<1>2. PICK n \in 0 .. Len(q.batch) - 1 :
         IF n = 0 THEN UNCHANGED <<store, acknowledged, handles>>
         ELSE LET copied == SubSeq(q.batch, 1, n)
              IN /\ store' = Written(q.aux, copied)
                 /\ acknowledged' = [acknowledged EXCEPT ![handles[q.aux].key] = @ \o copied]
                 /\ handles' = Extended(q.aux, copied, None)
  BY DEF MergeStops
<1>3. CASE n = 0
  <2>1. UNCHANGED shared
    BY <1>1, <1>2, <1>3 DEF shared
  <2>2. ByOne(r) /\ AboutRequest(r)'
    BY <1>1, EndStep
  <2>3. QED
    BY <1>1, <2>1, <2>2, PrivateStep
<1>4. CASE n # 0
  <2>1. q.batch \in Seq(Thoughts) /\ n \in 1 .. Len(q.batch)
    BY <1>1, <1>4 DEF RequestTyped
  <2>2. SubSeq(q.batch, 1, n) \in Seq(Thoughts)
    <3>1. \A i \in 1..n : q.batch[i] \in Thoughts
      BY <2>1, ElementOfSeq
    <3>2. QED
      BY <2>1, <3>1, SubSeqProperties
  <2>3. q.aux \in Handles
    BY <1>1, WriterFacts
  <2>4. PICK g \in Handles, xs \in Seq(Thoughts) : g = q.aux /\ xs = SubSeq(q.batch, 1, n)
    BY <2>2, <2>3
  <2>5. /\ store' = Written(g, xs) /\ handles' = Extended(g, xs, None)
        /\ acknowledged' = [acknowledged EXCEPT ![handles[g].key] = @ \o xs]
    BY <1>2, <1>4, <2>4
  <2>6. QED
    BY <1>1, <2>4, <2>5, WriteStep
<1>5. QED
  BY <1>3, <1>4

LEMMA FaultStep ==
    ASSUME CacheInv, NEW r \in Requests, Fault(r)
    PROVE  CacheInv'
<1>1. CASE req[r].pc \in {"oload", "osave"} /\ LoadFails(r)
  BY <1>1, LoadFailsStep
<1>2. CASE MergeStops(r)
  BY <1>2, MergeStopsStep
<1>3. CASE /\ At(r, "append") /\ Step(r, Finished)
           /\ UNCHANGED <<cache, lockOf, holder, handles, stored, saving, meddled>>
  <2>1. UNCHANGED shared /\ meddled' = meddled /\ meddled \subseteq Keys
    BY <1>3 DEF shared, stored, CacheInv
  <2>2. ByOne(r) /\ AboutRequest(r)'
    BY <1>3, OwnFacts, EndStep DEF At
  <2>3. QED
    BY <2>1, <2>2, PrivateStep
<1>4. QED
  BY <1>1, <1>2, <1>3 DEF Fault, At

\* The future of a request is dropped: its guards go.
LEMMA CancelStep ==
    ASSUME CacheInv, NEW r \in Requests, Cancel(r)
    PROVE  CacheInv'
<1> USE Apart
<1> DEFINE q == req[r]
<1>1. /\ UNCHANGED <<cache, lockOf, handles, store, acknowledged, meddled>>
      /\ DOMAIN req = Requests /\ meddled \subseteq Keys
      /\ RequestTyped(r) /\ Aimed(r) /\ Guarded(r) /\ Handed(r) /\ Alone(r) /\ Sole(r)
      /\ holder' = [l \in Locks |-> IF holder[l] = r THEN None ELSE holder[l]]
  BY OwnFacts DEF Cancel, stored, CacheInv
<1>2. /\ holder' \in [Locks -> Requests \cup {None}]
      /\ \A s \in Other(r) : \A l \in Locks : holder[l] = s => holder'[l] = s
  BY <1>1 DEF CacheInv, CacheTyped, Other
<1>3. ASSUME /\ \/ q.pc \in {"oload", "oreg", "osave"} /\ q.plan.op # "bootstrap"
                \/ q.pc \in {"genesis", "areg", "asave"} /\ q.plan.op = "branch"
             /\ Step(r, [gone |-> TRUE, lock |-> None, blk |-> None])
      PROVE  ByOne(r) /\ AboutRequest(r)'
  <2>1. /\ ByOne(r) /\ DOMAIN req'[r] = DOMAIN q /\ req'[r].plan = q.plan
        /\ req'[r].pc = q.pc /\ req'[r].at = q.at /\ req'[r].lock = None
        /\ req'[r].blk = None /\ req'[r].mine = q.mine /\ req'[r].aux = q.aux
        /\ req'[r].batch = q.batch /\ req'[r].gone = TRUE
    BY <1>1, <1>3 DEF Step, ByOne, Other, RequestTyped
  <2>2. RequestTyped(r)'
    BY <1>1, <2>1 DEF RequestTyped, Mutex
  <2>3. Aimed(r)'
    BY <1>1, <1>3, <2>1 DEF Aimed, Over, Meddling, Asking, Opening, Leaving
  <2>4. Guarded(r)' /\ Alone(r)' /\ Sole(r)'
    BY <1>3, <2>1 DEF Guarded, Alone, Sole, Opening
  <2>5. Handed(r)'
    BY <1>1, <2>1 DEF Handed
  <2>6. QED
    BY <2>1, <2>2, <2>3, <2>4, <2>5 DEF AboutRequest
<1>4. ByOne(r) /\ AboutRequest(r)'
  <2>1. CASE q.pc # "idle" /\ Step(r, Finished)
    BY <1>1, <2>1, EndStep
  <2>2. QED
    BY <1>3, <2>1 DEF Cancel, At, Op
<1>5. \A k \in Keys : Cached(k)'
  BY <1>1 DEF CacheInv, Cached, HandleFits
<1>6. cache' \in [Keys -> Slot] /\ lockOf' \in [Keys -> Mutex]
  BY <1>1 DEF CacheInv, CacheTyped
<1>7. QED
  BY <1>1, <1>2, <1>4, <1>5, <1>6, MapStep

\* The last user of a handle goes.
LEMMA DropStep ==
    ASSUME CacheInv, Drops
    PROVE  CacheInv'
<1> USE Apart
<1>1. UNCHANGED <<cache, lockOf, holder, store, acknowledged, req, meddled>>
  BY DEF Drops, DropSave, DropHandle, stored
<1>2. ASSUME handles' = handles PROVE CacheInv'
  <2>1. \A h \in Handles, k \in Keys : HandleFits(h, k)' <=> HandleFits(h, k)
    BY <1>1, <1>2 DEF HandleFits
  <2>2. CacheTyped' /\ meddled' \subseteq Keys /\ \A h \in Handles : HandleTyped(h)'
    BY <1>1, <1>2 DEF CacheInv, CacheTyped, HandleTyped, Handle
  <2>3. \A k \in Keys : StoreTyped(k)' /\ Cached(k)' /\ Sound(k)'
    BY <1>1, <1>2 DEF CacheInv, StoreTyped, Cached, Sound, HandleFits
  <2>4. \A s \in Requests : AboutRequest(s)'
    BY <1>1, <1>2, AsideStep, <2>1 DEF Stays
  <2>5. QED
    BY <2>2, <2>3, <2>4 DEF CacheInv, AboutRequest
<1>3. ASSUME NEW h \in Handles, DropHandle(h) PROVE CacheInv'
  <2>1. /\ handles[h] # None
        /\ \A k \in Keys : cache[k] # h
        /\ \A s \in Requests : ~ Refers(s, h)
        /\ \/ handles' = [handles EXCEPT ![h].owes = FALSE]
           \/ handles' = [handles EXCEPT ![h] = None]
    BY <1>3 DEF DropHandle, Held, Refers
  <2>2. DOMAIN handles = Handles /\ \A g \in Handles : handles[g] \in Handle \cup {None}
    BY DEF CacheInv, CacheTyped, HandleTyped
  <2>3. [handles[h] EXCEPT !.owes = FALSE] \in Handle
    BY <2>1, <2>2 DEF Handle
  <2>4. /\ DOMAIN handles' = Handles /\ handles'[h] \in Handle \cup {None}
        /\ \A g \in Handles : g # h => handles'[g] = handles[g]
    BY <2>1, <2>2, <2>3
  <2>5. \A g \in Handles : HandleTyped(g)'
    BY <2>2, <2>4 DEF HandleTyped
  <2>6. \A k \in Keys : StoreTyped(k)' /\ Cached(k)' /\ Sound(k)'
    <3>1. \A k \in Keys : cache[k] # None => cache[k] \in Handles /\ cache[k] # h
      BY <2>1 DEF CacheInv, CacheTyped, Slot
    <3>2. QED
      BY <1>1, <2>4, <3>1 DEF CacheInv, StoreTyped, Cached, Sound, HandleFits
  <2>7. \A s \in Requests : AboutRequest(s)'
    <3>1. SUFFICES ASSUME NEW s \in Requests PROVE AboutRequest(s)'
      OBVIOUS
    <3>2. \A g \in Handles : Refers(s, g) => handles'[g] = handles[g]
      BY <2>1, <2>4
    <3>3. \A g \in Handles, k \in Keys :
            Refers(s, g) /\ HandleFits(g, k) => HandleFits(g, k)'
      BY <1>1, <3>2 DEF HandleFits
    <3>4. QED
      BY <1>1, <3>2, <3>3, AsideStep DEF Stays
  <2>8. CacheTyped' /\ meddled' \subseteq Keys
    BY <1>1, <2>4 DEF CacheInv, CacheTyped
  <2>9. QED
    BY <2>5, <2>6, <2>7, <2>8 DEF CacheInv, AboutRequest
<1>4. QED
  BY <1>2, <1>3 DEF Drops, DropSave

-----------------------------------------------------------------------------
LEMMA InitStep ==
    ASSUME CacheInit
    PROVE  CacheInv
<1> USE Apart
<1> DEFINE plan == [op |-> None, key |-> None, from |-> None]
           fields == DOMAIN Finished \cup {"plan"}
           start == [f \in fields |-> CASE f = "plan" -> plan
                                        [] f = "pc"   -> "idle"
                                        [] OTHER      -> Finished[f]]
<1>1. /\ cache = [k \in Keys |-> None] /\ lockOf = [k \in Keys |-> None]
      /\ holder = [l \in Locks |-> None] /\ handles = [h \in Handles |-> None]
      /\ store = [k \in Keys |-> [exists |-> k \in Existing, gen |-> 0,
                                  recs |-> Chained(Old(k))]]
      /\ acknowledged = [k \in Keys |-> Old(k)] /\ meddled = {}
      /\ req = [r \in Requests |-> start]
  BY DEF CacheInit
<1>2. DOMAIN Finished = {"pc", "at", "lock", "blk", "mine", "aux", "snap", "batch", "known", "gone"}
  BY DEF Finished
<1>3. /\ DOMAIN start = {"plan", "pc", "at", "lock", "blk", "mine", "aux", "snap", "batch",
                         "known", "gone"}
      /\ start.pc = "idle" /\ start.lock = None /\ start.blk = None /\ start.mine = None
      /\ start.aux = None /\ start.batch = <<>> /\ start.gone = FALSE
  <2>1. DOMAIN start = fields /\ \A f \in fields \ {"plan", "pc"} : start[f] = Finished[f]
    OBVIOUS
  <2>2. start["pc"] = "idle"
    BY <1>2
  <2> HIDE DEF start
  <2>3. QED
    BY <1>2, <2>1, <2>2 DEF Finished
<1> HIDE DEF start
<1>4. \A k \in Keys : Old(k) \in Seq(Thoughts)
  <2>1. \A k \in Keys : k \in Thoughts
    BY DEF Thoughts
  <2>2. \A k \in Keys : <<k>> \in Seq(Thoughts) /\ <<>> \in Seq(Thoughts)
    BY <2>1
  <2>3. QED
    BY <2>2 DEF Old
<1>5. CacheTyped
  BY <1>1, <1>4 DEF CacheTyped, Slot, Mutex
<1>6. \A h \in Handles : HandleTyped(h)
  BY <1>1 DEF HandleTyped
<1>7. \A k \in Keys : StoreTyped(k) /\ Cached(k) /\ Sound(k)
  <2>1. \A k \in Keys : Chained(Old(k)) \in Seq(Record)
    BY <1>4, ChainedType
  <2>2. \A k \in Keys : StoreTyped(k)
    BY <1>1, <2>1 DEF StoreTyped, File
  <2>3. QED
    BY <1>1, <2>2 DEF Cached, Sound
<1>8. \A r \in Requests : RequestTyped(r) /\ Aimed(r)
  <2>1. \A r \in Requests : req[r] = start
    BY <1>1
  <2>2. <<>> \in Seq(Thoughts)
    OBVIOUS
  <2>3. \A r \in Requests : RequestTyped(r)
    BY <1>3, <2>1, <2>2 DEF RequestTyped, Slot, Mutex
  <2>4. \A r \in Requests : Aimed(r)
    BY <1>3, <2>1 DEF Aimed, Over, Meddling, Asking, Opening
  <2>5. QED
    BY <2>3, <2>4
<1>9. \A r \in Requests : Guarded(r) /\ Handed(r) /\ Alone(r) /\ Sole(r)
  BY <1>1, <1>3 DEF Guarded, Handed, Alone, Sole, Opening, Owning, Branching, Over, Fresh
<1>10. QED
  BY <1>1, <1>5, <1>6, <1>7, <1>8, <1>9 DEF CacheInv

LEMMA ProgressStep ==
    ASSUME CacheInv, NEW r \in Requests, Progress(r)
    PROVE  CacheInv'
<1>1. CASE Lookup(r)
  BY <1>1, LookupStep
<1>2. CASE Exists(r) \/ BranchCheck(r)
  BY <1>2, AskStep
<1>3. CASE Entry(r)
  BY <1>3, EntryStep
<1>4. CASE Acquire(r)
  BY <1>4, AcquireStep
<1>5. CASE Check(r)
  BY <1>5, CheckStep
<1>6. CASE OpenLoad(r) \/ DashLoad(r)
  BY <1>6, LoadStep
<1>7. CASE OpenRegister(r) \/ OpenSave(r) \/ AppendRegister(r) \/ DeregisterLoad(r)
           \/ DeregisterSave(r)
  BY <1>7, RegisterStep
<1>8. CASE Publish(r)
  BY <1>8, PublishStep
<1>9. CASE Forget(r)
  BY <1>9, ForgetStep
<1>10. CASE AppendThought(r) \/ Genesis(r) \/ MergePaste(r)
  BY <1>10, AppendStep
<1>11. CASE AppendSave(r)
  BY <1>11, AppendSaveStep
<1>12. CASE BranchFind(r) \/ MergeCopy(r)
  BY <1>12, FindStep
<1>13. CASE BranchPublish(r) \/ BranchRelease(r) \/ BranchForget(r)
  BY <1>13, BranchEndStep
<1>14. CASE Evict(r)
  BY <1>14, EvictStep
<1>15. CASE Detach(r)
  BY <1>15, DetachStep
<1>16. CASE Unlink(r)
  BY <1>16, UnlinkStep
<1>17. CASE DashLookup(r) \/ DashCache(r)
  BY <1>17, DashLookStep
<1>18. CASE DashEvict(r) \/ DashPublish(r)
  BY <1>18, DashMapStep
<1>19. QED
  BY <1>1, <1>2, <1>3, <1>4, <1>5, <1>6, <1>7, <1>8, <1>9, <1>10, <1>11, <1>12, <1>13, <1>14,
     <1>15, <1>16, <1>17, <1>18 DEF Progress

LEMMA CacheNextStep ==
    ASSUME CacheInv, [CacheNext]_cacheVars
    PROVE  CacheInv'
<1>1. CASE UNCHANGED cacheVars
  <2>1. UNCHANGED <<cache, lockOf, holder, handles, store, req, acknowledged, meddled>>
    BY <1>1 DEF cacheVars
  <2>2. CacheTyped' /\ meddled' \subseteq Keys /\ \A h \in Handles : HandleTyped(h)'
    BY <2>1 DEF CacheInv, CacheTyped, HandleTyped, Handle
  <2>3. \A k \in Keys : StoreTyped(k)' /\ Cached(k)' /\ Sound(k)'
    BY <2>1 DEF CacheInv, StoreTyped, Cached, Sound, HandleFits
  <2>4. \A h \in Handles, k \in Keys : HandleFits(h, k)' <=> HandleFits(h, k)
    BY <2>1 DEF HandleFits
  <2>5. \A s \in Requests : AboutRequest(s)'
    BY <2>1, <2>4, AsideStep DEF Stays
  <2>6. QED
    BY <2>2, <2>3, <2>5 DEF CacheInv, AboutRequest
<1>2. ASSUME NEW r \in Requests, Start(r) \/ Progress(r) \/ Fault(r) \/ Cancel(r)
      PROVE  CacheInv'
  BY <1>2, StartStep, ProgressStep, FaultStep, CancelStep
<1>3. CASE Drops
  BY <1>3, DropStep
<1>4. QED
  BY <1>1, <1>2, <1>3 DEF CacheNext

\* The handle of a chain nobody meddled with that can be appended through.
LEMMA LiveHandle ==
    ASSUME CacheInv, NEW k \in Keys \ meddled, NEW h \in Handles, Live(h), handles[h].key = k
    PROVE  \/ h = cache[k]
           \/ \E r \in Requests : Opens(r, k) /\ req[r].pc \in Fresh /\ req[r].mine = h
<1> USE Apart
<1>1. CASE \E j \in Keys : cache[j] = h
  BY <1>1 DEF CacheInv, Cached
<1>2. CASE \E r \in Requests : ~ req[r].gone /\ h \in {req[r].mine, req[r].aux}
  BY <1>2 DEF CacheInv, Sole, Opens
<1>3. QED
  BY <1>1, <1>2 DEF Live

LEMMA AloneFollows ==
    ASSUME CacheInv
    PROVE  SingleFlightAlone
<1> USE Apart
<1> SUFFICES ASSUME NEW k \in Keys \ meddled, NEW g \in Handles, NEW h \in Handles,
                    Live(g), Live(h), handles[g].key = k, handles[h].key = k
             PROVE  g = h
  BY DEF SingleFlightAlone, OneHandleOf
<1>1. \A r \in Requests : Opens(r, k) => cache[k] = None
  BY DEF CacheInv, Alone, Opens, Fresh, Over
<1>2. \A r, s \in Requests : Opens(r, k) /\ Opens(s, k) => r = s
  BY OneOpens DEF Opens, Other, Fresh
<1>3. QED
  BY <1>1, <1>2, LiveHandle

\* Every reachable state has the inductive invariant.
THEOREM CacheInvariant == CacheSpec => []CacheInv
<1>1. CacheInit => CacheInv
  BY InitStep
<1>2. CacheInv /\ [CacheNext]_cacheVars => CacheInv'
  BY CacheNextStep
<1>3. QED
  BY <1>1, <1>2, PTL DEF CacheSpec

\* open_chain_single_flight keeps its promise for the chains that only the API
\* uses: no two handles of one can be appended through.
THEOREM OneHandlePerChain == CacheSpec => []SingleFlightAlone
<1>1. CacheInv => SingleFlightAlone
  BY AloneFollows
<1>2. QED
  BY <1>1, CacheInvariant, PTL

\* And so the file of such a chain is what was acknowledged, in order.
THEOREM NothingAcknowledgedIsLost == CacheSpec => []AcknowledgedIsStored
<1>1. CacheInv => AcknowledgedIsStored
  BY DEF CacheInv, Sound, AcknowledgedIsStored
<1>2. QED
  BY <1>1, CacheInvariant, PTL

-----------------------------------------------------------------------------
(* The migration engine. *)

(* The inductive invariant. *)

\* From the first journal write of a run to the swap.
Preparing == {"plan", "clear_backup", "make_backup", "save_backup", "stage", "upgrade"}
Upgraded == {"save_staged", "rename"}
Finalizing == {"drop_source", "register", "drop_derived", "finish"}

\* What a file can hold: only a backup and a staged file are ever cut off, a
\* backup is made of the legacy records, and what is staged is upgraded.
Shapes ==
    /\ live \in {"none", "old", "new", "grown"} /\ jsonl \in {"none", "old"}
    /\ backup \in {"none", "partial", "old"} /\ staged \in {"none", "partial", "new"}

\* What a run works on, from its detection to its swap, and what it has made.
RunFiles ==
    /\ pc \in Preparing \cup Upgraded => Source = "old" /\ live \in {"none", "old"}
    /\ pc \in Upgraded => staged = "new"
    /\ pc = "commit" => live = "new"
    /\ pc = "make_backup" => backup = "none"
    /\ pc \in {"save_backup", "stage", "upgrade"} \cup Upgraded => backup = "old"
    /\ pc \in {"drop_derived", "finish"} => registered = "new"
    /\ pc = "finish" => derived = "none"

\* What the journal says while a run is at a step.
RunJournal ==
    /\ pc \in {"recover", "exhausted"} => mine = journal /\ journal.state \in Unfinished
    /\ pc \in {"clear_backup", "make_backup", "save_backup"} => journal.state = "planned"
    /\ pc \in Preparing \ {"stage", "upgrade"} => mine.state = "planned"
    /\ pc \in {"stage", "upgrade"} \cup Upgraded => mine.state = "backed_up"
    /\ pc \in {"stage", "upgrade", "save_staged"} => journal.state = "backed_up"
    /\ pc \in {"rename", "commit"} => journal.state = "staged"
    /\ pc \in Finalizing => journal.state = "committed"
    /\ pc \in RollbackSteps =>
         /\ mine = journal /\ journal.state \in {"committed", "finalized"} /\ backup = "old"

\* No journal of a run that got further keeps a backup that was cut off.
BackupWhole ==
    journal.state \in {"backed_up", "staged", "committed", "finalized"} => backup # "partial"

\* A chain that is being rolled back is not served, and grew only if forced.
RollingBack ==
    /\ pc \in {"restore", "remove_live"} => path = "forced" \/ live # "grown"
    /\ pc \in RollbackSteps \ {"restore"} => jsonl = "old" \/ live \notin {"new", "grown"}

\* A finished migration that can be served left nothing behind, and a chain
\* grows only when no migration of it is unfinished.
Clean ==
    /\ journal.state = "finalized" =>
         derived # "old" /\ (Served => registered = "new")
    /\ journal.state \in Unfinished => live # "grown"

\* The attempts a run has behind it.
Counted ==
    /\ journal.state \in Unfinished => journal.attempts <= MaxAttempts
    /\ pc \in RunSteps \cup {"recover"} => mine.attempts <= MaxAttempts
    /\ pc = "recover" => before = mine.attempts
    /\ pc = "detect" => before < MaxAttempts

EInv ==
    /\ EngineTypeOK
    /\ Shapes /\ RunFiles /\ RunJournal /\ BackupWhole /\ RollingBack /\ Clean /\ Counted

-----------------------------------------------------------------------------
(* The invariant is inductive: one lemma per part of a run.  Every step moves *)
(* one file or the journal, and every part of the invariant is about both.    *)

\* From the detection of the format to the staged file.
LEMMA PrepareStep ==
    ASSUME EInv, Detect \/ SavePlanned \/ ClearBackup \/ MakeBackup \/ SaveBackedUp
                   \/ CreateStaged \/ FillStaged \/ SaveStaged
    PROVE  EInv'
<1> USE AttemptsAssumption, BoundAssumption
<1> USE DEF EInv, EngineTypeOK, Shapes, RunFiles, RunJournal, BackupWhole, RollingBack, Clean,
            Counted
<1> USE DEF Preparing, Upgraded, Finalizing, RunSteps, RollbackSteps, Unfinished, Quarantined,
            States, Kinds, Contents, Journal, NewJournal
<1> USE DEF Goto, Save, Source, Served, files, process, bounds
<1>1. CASE Detect
  BY <1>1 DEF Detect
<1>2. CASE SavePlanned
  BY <1>2 DEF SavePlanned
<1>3. CASE ClearBackup
  BY <1>3 DEF ClearBackup
<1>4. CASE MakeBackup
  BY <1>4 DEF MakeBackup
<1>5. CASE SaveBackedUp
  BY <1>5 DEF SaveBackedUp
<1>6. CASE CreateStaged
  BY <1>6 DEF CreateStaged
<1>7. CASE FillStaged
  BY <1>7 DEF FillStaged
<1>8. CASE SaveStaged
  BY <1>8 DEF SaveStaged
<1>9. QED
  BY <1>1, <1>2, <1>3, <1>4, <1>5, <1>6, <1>7, <1>8

\* From the swap to the end of the migration.
LEMMA SwapStep ==
    ASSUME EInv, CommitRename \/ SaveCommitted \/ DropSource \/ UpdateRegistry
                   \/ DropDerived \/ SaveFinalized
    PROVE  EInv'
<1> USE AttemptsAssumption, BoundAssumption
<1> USE DEF EInv, EngineTypeOK, Shapes, RunFiles, RunJournal, BackupWhole, RollingBack, Clean,
            Counted
<1> USE DEF Preparing, Upgraded, Finalizing, RunSteps, RollbackSteps, Unfinished, Quarantined,
            States, Kinds, Contents, Journal
<1> USE DEF Goto, Save, Source, Served, files, process, bounds
<1>1. CASE CommitRename
  BY <1>1 DEF CommitRename
<1>2. CASE SaveCommitted
  BY <1>2 DEF SaveCommitted
<1>3. CASE DropSource
  BY <1>3 DEF DropSource
<1>4. CASE UpdateRegistry
  BY <1>4 DEF UpdateRegistry
<1>5. CASE DropDerived
  BY <1>5 DEF DropDerived
<1>6. CASE SaveFinalized
  BY <1>6 DEF SaveFinalized
<1>7. QED
  BY <1>1, <1>2, <1>3, <1>4, <1>5, <1>6

\* The start of a run, and what it makes of one that was cut off.
LEMMA ResumeStep ==
    ASSUME EInv, StartRun \/ Exhaust \/ SaveExhausted \/ Recover
    PROVE  EInv'
<1> USE AttemptsAssumption, BoundAssumption
<1> USE DEF EInv, EngineTypeOK, Shapes, RunFiles, RunJournal, BackupWhole, RollingBack, Clean,
            Counted
<1> USE DEF Preparing, Upgraded, Finalizing, RunSteps, RollbackSteps, Unfinished, Quarantined,
            States, Kinds, Contents, Journal, Restart
<1> USE DEF Goto, Save, Source, Served, files, process, bounds
<1>1. CASE StartRun
  BY <1>1 DEF StartRun
<1>2. CASE Exhaust
  BY <1>2 DEF Exhaust
<1>3. CASE SaveExhausted
  BY <1>3 DEF SaveExhausted
<1>4. CASE Recover
  BY <1>4 DEF Recover
<1>5. QED
  BY <1>1, <1>2, <1>3, <1>4

\* A run that fails, is stopped or is killed.
LEMMA StopStep ==
    ASSUME EInv, DetectFails \/ RunFails \/ Quarantine \/ Interrupt \/ Crash
    PROVE  EInv'
<1> USE AttemptsAssumption, BoundAssumption
<1> USE DEF EInv, EngineTypeOK, Shapes, RunFiles, RunJournal, BackupWhole, RollingBack, Clean,
            Counted
<1> USE DEF Preparing, Upgraded, Finalizing, RunSteps, RollbackSteps, Unfinished, Quarantined,
            States, Kinds, Contents, Journal, NewJournal
<1> USE DEF Goto, Save, Source, Served, files, process, bounds
<1>1. CASE DetectFails
  BY <1>1 DEF DetectFails
<1>2. CASE RunFails
  BY <1>2 DEF RunFails
<1>3. CASE Quarantine
  BY <1>3 DEF Quarantine
<1>4. CASE Interrupt
  BY <1>4 DEF Interrupt
<1>5. CASE Crash
  BY <1>5 DEF Crash
<1>6. QED
  BY <1>1, <1>2, <1>3, <1>4, <1>5

\* A rollback, and one that fails.
LEMMA RollBackStep ==
    ASSUME EInv, \/ \E force \in BOOLEAN : StartRollback(force)
                 \/ RestoreFile \/ RemoveLive \/ RestoreRegistry \/ RollbackDerived
                 \/ SaveRolledBack \/ RollbackFails
    PROVE  EInv'
<1> USE AttemptsAssumption, BoundAssumption
<1> USE DEF EInv, EngineTypeOK, Shapes, RunFiles, RunJournal, BackupWhole, RollingBack, Clean,
            Counted
<1> USE DEF Preparing, Upgraded, Finalizing, RunSteps, RollbackSteps, Unfinished, Quarantined,
            States, Kinds, Contents, Journal
<1> USE DEF Goto, Save, Source, Served, files, process, bounds
<1>1. CASE \E force \in BOOLEAN : StartRollback(force)
  BY <1>1 DEF StartRollback
<1>2. CASE RestoreFile
  BY <1>2 DEF RestoreFile
<1>3. CASE RemoveLive
  BY <1>3 DEF RemoveLive
<1>4. CASE RestoreRegistry
  BY <1>4 DEF RestoreRegistry
<1>5. CASE RollbackDerived
  BY <1>5 DEF RollbackDerived
<1>6. CASE SaveRolledBack
  BY <1>6 DEF SaveRolledBack
<1>7. CASE RollbackFails
  BY <1>7 DEF RollbackFails
<1>8. QED
  BY <1>1, <1>2, <1>3, <1>4, <1>5, <1>6, <1>7

\* The other commands of the operator, and the chain in use.
LEMMA OperatorStep ==
    ASSUME EInv, Skip \/ Assess \/ Retry \/ Purge \/ Serve
    PROVE  EInv'
<1> USE AttemptsAssumption, BoundAssumption
<1> USE DEF EInv, EngineTypeOK, Shapes, RunFiles, RunJournal, BackupWhole, RollingBack, Clean,
            Counted
<1> USE DEF Preparing, Upgraded, Finalizing, RunSteps, RollbackSteps, Unfinished, Quarantined,
            States, Kinds, Contents, Journal, NewJournal, NoJournal, Kept
<1> USE DEF Goto, Save, Source, Served, files, process, bounds
<1>1. CASE Skip
  BY <1>1 DEF Skip
<1>2. CASE Assess
  BY <1>2 DEF Assess
<1>3. CASE Retry
  BY <1>3 DEF Retry
<1>4. CASE Purge
  BY <1>4 DEF Purge
<1>5. CASE Serve
  BY <1>5 DEF Serve
<1>6. QED
  BY <1>1, <1>2, <1>3, <1>4, <1>5

LEMMA EngineInvInit == EngineInit => EInv
BY AttemptsAssumption, BoundAssumption
   DEF EngineInit, EInv, EngineTypeOK, Shapes, RunFiles, RunJournal, BackupWhole, RollingBack,
       Clean, Counted, Preparing, Upgraded, Finalizing, RunSteps, RollbackSteps, Unfinished,
       Quarantined, States, Kinds, Contents, Journal, NoJournal, Served

LEMMA EngineInvNext == EInv /\ [EngineNext]_engineVars => EInv'
<1> SUFFICES ASSUME EInv, [EngineNext]_engineVars PROVE EInv'
  OBVIOUS
<1>1. CASE UNCHANGED engineVars
  BY <1>1 DEF engineVars, files, process, bounds, EInv, EngineTypeOK, Shapes, RunFiles, RunJournal,
              BackupWhole, RollingBack, Clean, Counted, Source, Served
<1>2. QED
  BY <1>1, PrepareStep, SwapStep, ResumeStep, StopStep, RollBackStep, OperatorStep
     DEF EngineNext, Work, RollBack, Operator

THEOREM EngineInvCorrect == EngineSpec => []EInv
BY EngineInvInit, EngineInvNext, PTL DEF EngineSpec

\* The variables hold the values the code gives them, and no run has more
\* attempts behind it than MAX_ATTEMPTS (EngineTypeOK).
THEOREM EngineTypeCorrect == EngineSpec => []EngineTypeOK
<1>1. EInv => EngineTypeOK
  BY DEF EInv
<1>2. QED
  BY <1>1, EngineInvCorrect, PTL

\* Wherever a migration is killed, what lies under the name of a chain is
\* whole, and a finished migration that is served left nothing of the old
\* hashes behind (LiveIsWhole).
THEOREM LiveStaysWhole == EngineSpec => []LiveIsWhole
<1>1. EInv => LiveIsWhole
  BY DEF EInv, Shapes, Clean, LiveIsWhole
<1>2. QED
  BY <1>1, EngineInvCorrect, PTL

\* Thoughts appended since a migration are only ever discarded by a rollback
\* with --force (GrowthKept).
THEOREM GrowthIsKept == EngineSpec => GrowthKept
<1>1. EInv /\ [EngineNext]_engineVars => [live = "grown" /\ live' # "grown" => path = "forced"]_engineVars
  <2> SUFFICES ASSUME EInv, EngineNext, live = "grown", live' # "grown"
               PROVE  path = "forced"
    OBVIOUS
  <2>1. Recover \/ CommitRename \/ RestoreFile \/ RemoveLive
    BY DEF EngineNext, Work, RollBack, Operator, StartRun, Exhaust, SaveExhausted, Detect,
           SavePlanned, ClearBackup, MakeBackup, SaveBackedUp, CreateStaged, FillStaged,
           SaveStaged, SaveCommitted, DropSource, UpdateRegistry, DropDerived, SaveFinalized,
           Quarantine, DetectFails, RunFails, Interrupt, RestoreRegistry, RollbackDerived,
           SaveRolledBack, RollbackFails, StartRollback, Skip, Assess, Retry, Purge, Serve,
           Crash, files
  <2>2. CASE Recover
    BY <2>1, <2>2 DEF Recover, Restart, EInv, RunJournal, Clean
  <2>3. CASE CommitRename
    BY <2>1, <2>3 DEF CommitRename, EInv, RunFiles, Upgraded
  <2>4. CASE RestoreFile \/ RemoveLive
    BY <2>1, <2>4 DEF RestoreFile, RemoveLive, EInv, RollingBack
  <2>5. QED
    BY <2>1, <2>2, <2>3, <2>4
<1>2. QED
  BY <1>1, EngineInvCorrect, PTL DEF EngineSpec, GrowthKept

===============================================================================
