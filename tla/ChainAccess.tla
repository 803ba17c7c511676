----------------------------- MODULE ChainAccess -----------------------------
(***************************************************************************)
(* A governed chain (src/src/lib.rs with access.rs, audience.rs,           *)
(* operator.rs and signing.rs): who may append, which governance record is *)
(* in force, which positions a public reader may see, and what opening the *)
(* chain makes of the files a crash or a power failure left.               *)
(*                                                                         *)
(* A thought is its hash, its claimed signer, the key that really signed   *)
(* it and the head hash the signature covers; content, tags and refs are   *)
(* left out, and so are v1 payloads (nothing re-checks them).  The hash    *)
(* stands for the whole history up to it, as the hash chain makes it.      *)
(* Positions are the code's: from 0.                                       *)
(*                                                                         *)
(* One MentisDb handle owns the chain, behind a lock: an operation is one  *)
(* step, with every way its file operations can fail part way.             *)
(***************************************************************************)
EXTENDS Naturals, Sequences, FiniteSets

CONSTANTS
    Agents,       \* agents of the chain's registry; each row is taken to exist
    KeyIds,       \* key ids within an agent
    Keys,         \* key pairs: who can sign, and what a registered key is
    NoKey,        \* no key registered under an id
    Operator, OperatorKeyId, OperatorKey,
    MaxThoughts,  \* bound: thoughts ever appended
    MaxChanges,   \* bound: changes of the registry and of the policy
    MaxFaults,    \* bound: failed file operations
    MaxOpens      \* bound: times the chain is opened

ASSUME OperatorAssumption ==
    /\ Operator \in Agents
    /\ OperatorKeyId \in KeyIds
    /\ OperatorKey \in Keys
    /\ NoKey \notin Keys

Modes == {"open", "signed", "allowlist"}

\* An entry of a policy's key set; also the key an operator command names.
AllowedKeys == [agent : Agents, id : KeyIds, key : Keys]

OperatorEntry == [agent |-> Operator, id |-> OperatorKeyId, key |-> OperatorKey]

VARIABLES
    thoughts,    \* the chain, in memory and in its file
    registry,    \* the agent registry in memory: keys, revocations, disabled agents
    saved,       \* the agent registry's file; dirty when it is not registry
    policy,      \* the AccessPolicy in memory
    checkpoint,  \* <chain>.verified.json
    opened,      \* whether the handle exists
    minted,      \* hashes given out
    budget,      \* what is left of the bounds
    \* History, read by no guard:
    secret,      \* hashes of records and of thoughts appended while private
    pushed,      \* hashes webhooks were told of
    sealed,      \* the hashes of the chain the checkpoint was written over
    doubtful     \* identities whose key was replaced or whose save failed

vars == <<thoughts, registry, saved, policy, checkpoint, opened,
          minted, budget, secret, pushed, sealed, doubtful>>

------------------------------------------------------------------------------
(* The policy and its segments. *)

NoCheckpoint == [count |-> 0, head |-> 0, seq |-> 0, keys |-> {}, quarantined |-> {},
                 exists |-> FALSE]

\* seq is 0 before the first record, and the record's seq + 1 after it.
NoPolicy == [mode |-> "open", seq |-> 0, keys |-> {}, head |-> 0,
             segments |-> <<>>, records |-> {}, quarantined |-> {}, locked |-> FALSE]

NoRecord == [seq |-> 0, mode |-> "open", keys |-> {}, prev |-> 0]

SegmentKind(mode) == IF mode = "open" THEN "public" ELSE "private"

\* A segment behind the last one is dropped, one at its start replaces it.
PushSegment(segments, segment) ==
    LET n == Len(segments)
    IN  IF n = 0 \/ segments[n].start < segment.start
        THEN Append(segments, segment)
        ELSE IF segments[n].start = segment.start
             THEN [segments EXCEPT ![n] = segment]
             ELSE segments

KindAt(p, index) ==
    LET before == {n \in DOMAIN p.segments : p.segments[n].start <= index}
    IN  IF p.locked \/ index \in p.records THEN "private"
        ELSE IF before = {} THEN "public"
        ELSE p.segments[Cardinality(before)].kind

\* What the public audience may see; an authorized reader sees all but a
\* quarantined position or a locked chain.
PublicSees(p, index) ==
    /\ ~p.locked
    /\ index \notin p.quarantined
    /\ KindAt(p, index) = "public"

HasPrivate(p) ==
    \/ p.locked
    \/ p.records # {}
    \/ p.quarantined # {}
    \/ \E n \in DOMAIN p.segments : p.segments[n].kind = "private"

\* Variant: the segment map is made anew with every record.
CommitRecordUnlocks(p, record, hash, index) ==
    LET kind == SegmentKind(record.mode)
        start == IF kind = "private" THEN index ELSE index + 1
    IN  [p EXCEPT !.records = @ \cup {index},
                  !.segments = PushSegment(@, [start |-> start, kind |-> kind]),
                  !.locked = FALSE, !.quarantined = {},
                  !.mode = record.mode,
                  !.seq = record.seq,
                  !.keys = record.keys,
                  !.head = hash]

\* The record opens its segment; one that opens a public segment closes the
\* private one and stays private itself.
CommitRecord(p, record, hash, index) ==
    LET kind == SegmentKind(record.mode)
        start == IF kind = "private" THEN index ELSE index + 1
    IN  [p EXCEPT !.records = @ \cup {index},
                  !.segments = PushSegment(@, [start |-> start, kind |-> kind]),
                  !.mode = record.mode,
                  !.seq = record.seq,
                  !.keys = record.keys,
                  !.head = hash]

\* Entries naming the same (agent_id, key_id) as e give way to it.
Without(keys, agent, id) == {k \in keys : ~(k.agent = agent /\ k.id = id)}
WithEntry(keys, e) == Without(keys, e.agent, e.id) \cup {e}

\* check_record: the record continues the policy and a governor signed it
\* over the head; the first record is governed by its own keys.
CheckRecord(p, t, head) ==
    LET record == t.record
        governors == IF record.seq = 1 THEN record.keys ELSE p.keys
    IN  /\ record.mode # "open" => record.keys # {}
        /\ record.seq = p.seq + 1
        /\ record.prev = p.head
        /\ t.version = 2
        /\ t.by \in governors
        /\ t.over = head

\* The hash a thought at position n (from 1) follows.
PrevHash(ts, n) == IF n = 1 THEN 0 ELSE ts[n - 1].hash
HeadHash(ts) == PrevHash(ts, Len(ts) + 1)

\* AccessPolicy::replay of every prefix: records that do not check are skipped.
Replays(ts) ==
    LET P[n \in 0..Len(ts)] ==
          IF n = 0 THEN NoPolicy
          ELSE IF ts[n].record # NoRecord /\ CheckRecord(P[n - 1], ts[n], PrevHash(ts, n))
               THEN CommitRecord(P[n - 1], ts[n].record, ts[n].hash, n - 1)
               ELSE P[n - 1]
    IN  P

Replay(ts) == Replays(ts)[Len(ts)]

------------------------------------------------------------------------------
(* The registry. *)

KeyOf(r, agent, id) == r.keys[agent][id]

EmptyRegistry == [keys |-> [a \in Agents |-> [i \in KeyIds |-> NoKey]],
                  revoked |-> {}, disabled |-> {}]

\* add_public_key: a new key, or one that replaces the key of its id; either
\* way not revoked.
AddKey(r, e) == [r EXCEPT !.keys[e.agent][e.id] = e.key,
                          !.revoked = @ \ {<<e.agent, e.id>>}]

\* upsert_key, the operator's registration: the same key again changes
\* nothing, another key or a revoked id is refused.
UpsertAllowed(r, e) ==
    \/ KeyOf(r, e.agent, e.id) = NoKey
    \/ KeyOf(r, e.agent, e.id) = e.key /\ <<e.agent, e.id>> \notin r.revoked

\* ensure_operator_registered looks for the key's id only.
OperatorRegistered(r) == KeyOf(r, Operator, OperatorKeyId) # NoKey

WithOperator(r) ==
    IF OperatorRegistered(r) THEN r
    ELSE AddKey([r EXCEPT !.disabled = @ \ {Operator}], OperatorEntry)

------------------------------------------------------------------------------
(* Appending. *)

Nobody == [agent |-> NoKey, id |-> NoKey, key |-> NoKey]

Thought(by, version, over, record) ==
    [hash |-> minted + 1, by |-> by, version |-> version, over |-> over, record |-> record]

\* What clients may hand in: unsigned, a v1 signature, which covers no head,
\* or a v2 signature over the head its signer saw, this one or an older one.
Submissions ==
    {Thought(Nobody, 0, 0, NoRecord)}
    \cup {Thought(by, 1, 0, NoRecord) : by \in AllowedKeys}
    \cup {Thought(by, 2, over, NoRecord) : by \in AllowedKeys,
              over \in {0} \cup {thoughts[n].hash : n \in DOMAIN thoughts}}

\* Variant: a signature over an older head is accepted instead of refused as stale.
AcceptsStaleHead(t) ==
    /\ t.version < 2 => policy.mode = "open"
    /\ t.version # 0 =>
          /\ t.by.agent \notin registry.disabled
          /\ <<t.by.agent, t.by.id>> \notin registry.revoked
          /\ KeyOf(registry, t.by.agent, t.by.id) = t.by.key
          /\ policy.mode = "allowlist" => t.by \in policy.keys

\* check_append_access.
CheckAppendAccess(t) ==
    /\ t.version < 2 => policy.mode = "open"
    /\ t.version # 0 =>
          /\ t.by.agent \notin registry.disabled
          /\ <<t.by.agent, t.by.id>> \notin registry.revoked
          /\ KeyOf(registry, t.by.agent, t.by.id) = t.by.key
          /\ policy.mode = "allowlist" => t.by \in policy.keys
    /\ t.version = 2 => t.over = HeadHash(thoughts)

\* Variant: the webhook asks only for the segment the policy in memory knows,
\* which a record has not opened yet.
PushesRecords(t, r, file) ==
    /\ minted < MaxThoughts
    /\ thoughts' = Append(thoughts, t)
    /\ minted' = minted + 1
    /\ registry' = r
    /\ saved' \in {file, r}
    /\ secret' = IF t.record # NoRecord \/ policy.mode # "open"
                 THEN secret \cup {t.hash} ELSE secret
    /\ pushed' = IF PublicSees(policy, Len(thoughts)) THEN pushed \cup {t.hash} ELSE pushed

\* append_thought_inner once the record is stored: the registry r in memory,
\* file in its file.  The first thought forces the registry's save, later ones
\* only when an identity changed or updates piled up; a failure is logged only.
\* A webhook hears of what the public may see and never of a record.
Push(t, r, file) ==
    /\ minted < MaxThoughts
    /\ thoughts' = Append(thoughts, t)
    /\ minted' = minted + 1
    /\ registry' = r
    /\ saved' \in {file, r}
    /\ secret' = IF t.record # NoRecord \/ policy.mode # "open"
                 THEN secret \cup {t.hash} ELSE secret
    /\ pushed' = IF t.record = NoRecord /\ PublicSees(policy, Len(thoughts))
                 THEN pushed \cup {t.hash} ELSE pushed

\* A failing save of the first thought's registry is one of the faults.
FlushCost(r) == IF Len(thoughts) = 0 /\ saved' # r THEN 1 ELSE 0

AppendThought(t) ==
    /\ opened
    /\ CheckAppendAccess(t)
    /\ Push(t, registry, saved)
    /\ FlushCost(registry) <= budget.faults
    /\ budget' = [budget EXCEPT !.faults = @ - FlushCost(registry)]
    /\ UNCHANGED <<policy, checkpoint, opened, sealed, doubtful>>

------------------------------------------------------------------------------
(* Changes of the registry: the dashboard's routes and the operator's        *)
(* commands.  Each changes the memory first and then saves.                  *)

KeysChanged(r) == {x \in Agents \X KeyIds : KeyOf(r, x[1], x[2]) # KeyOf(registry, x[1], x[2])}
\* The operator's id is its key's from the start.
KeysReplaced(r) ==
    {x \in KeysChanged(r) :
        \/ KeyOf(registry, x[1], x[2]) # NoKey
        \/ x = <<Operator, OperatorKeyId>> /\ KeyOf(r, x[1], x[2]) # OperatorKey}

\* persist_registries goes well, or fails before or after the agent registry's
\* own file is written: the change stays in memory and the caller gets the error.
Persist(r) ==
    /\ opened
    /\ budget.changes > 0
    /\ registry' = r
    /\ \/ /\ saved' = r
          /\ budget' = [budget EXCEPT !.changes = @ - 1]
          /\ doubtful' = doubtful \cup KeysReplaced(r)
       \/ /\ budget.faults > 0
          /\ saved' \in {saved, r}
          /\ budget' = [budget EXCEPT !.changes = @ - 1, !.faults = @ - 1]
          /\ doubtful' = doubtful \cup KeysChanged(r)
    /\ UNCHANGED <<thoughts, policy, checkpoint, opened, minted, secret, pushed, sealed>>

AddAgentKey(e) == Persist(AddKey(registry, e))

AddAgentKeyAsOperator(e) ==
    /\ UpsertAllowed(registry, e)
    /\ KeyOf(registry, e.agent, e.id) = NoKey
    /\ Persist(AddKey(registry, e))

RevokeAgentKey(agent, id) ==
    /\ KeyOf(registry, agent, id) # NoKey
    /\ Persist([registry EXCEPT !.revoked = @ \cup {<<agent, id>>}])

DisableAgent(agent) == Persist([registry EXCEPT !.disabled = @ \cup {agent}])
EnableAgent(agent) == Persist([registry EXCEPT !.disabled = @ \ {agent}])

------------------------------------------------------------------------------
(* The operator's changes of the policy (operator::apply).  named holds the *)
(* key the command brings, at most one, registered before the record.       *)

Upserted(named) ==
    LET new == {e \in named : KeyOf(registry, e.agent, e.id) = NoKey}
    IN  IF new = {} THEN registry ELSE AddKey(registry, CHOOSE e \in new : TRUE)

\* The registry file after r was saved if r was a change at all: registering
\* the same key again returns without saving.
SavedAfter(r) == IF r = registry THEN saved ELSE r

NextRecord(mode, keys) ==
    [seq |-> policy.seq + 1, mode |-> mode, keys |-> keys, prev |-> policy.head]

\* commit_policy: the record the operator signs over the current head.
PolicyThought(mode, keys) ==
    Thought(OperatorEntry, 2, HeadHash(thoughts), NextRecord(mode, keys))

\* Variant: the policy is committed before the record is stored, and stays
\* when the append fails.
CommittedFirst(t, r) ==
    /\ CheckRecord(policy, t, HeadHash(thoughts))
    /\ policy' = CommitRecord(policy, t.record, t.hash, Len(thoughts))
    /\ budget' = [budget EXCEPT !.changes = @ - 1]
    /\ doubtful' = doubtful \cup KeysReplaced(r)
    /\ \/ Push(t, r, SavedAfter(r))
       \/ /\ registry' = r
          /\ saved' = SavedAfter(r)
          /\ UNCHANGED <<thoughts, minted, secret, pushed>>

\* Everything went well: the record is stored, then the policy follows it.
PolicyCommitted(t, r) ==
    /\ CheckRecord(policy, t, HeadHash(thoughts))
    /\ Push(t, r, SavedAfter(r))
    /\ policy' = CommitRecord(policy, t.record, t.hash, Len(thoughts))
    /\ FlushCost(r) <= budget.faults
    /\ budget' = [budget EXCEPT !.changes = @ - 1, !.faults = @ - FlushCost(r)]
    /\ doubtful' = doubtful \cup KeysReplaced(r)

\* A save of the registry, of the named key's, of the operator's row or of
\* its key, or the append failed: what was registered until then stays.
PolicyFailed(named, r) ==
    LET r1 == Upserted(named)
        row == [r1 EXCEPT !.disabled = @ \ {Operator}]
    IN  /\ budget.faults > 0
        /\ \/ r1 # registry /\ registry' = r1 /\ saved' \in {saved, r1}
           \/ r # r1 /\ registry' = row /\ saved' \in {SavedAfter(r1), row}
           \/ r # r1 /\ registry' = r /\ saved' \in {row, r}
           \/ registry' = r /\ saved' = SavedAfter(r)
        /\ budget' = [budget EXCEPT !.changes = @ - 1, !.faults = @ - 1]
        /\ doubtful' = doubtful \cup KeysChanged(registry')
        /\ UNCHANGED <<thoughts, policy, minted, secret, pushed>>

\* The record is refused: only what was registered for it remains.
PolicyRefused(t, r) ==
    /\ ~CheckRecord(policy, t, HeadHash(thoughts))
    /\ registry' = r
    /\ saved' = SavedAfter(r)
    /\ budget' = [budget EXCEPT !.changes = @ - 1]
    /\ doubtful' = doubtful \cup KeysReplaced(r)
    /\ UNCHANGED <<thoughts, policy, minted, secret, pushed>>

CommitPolicy(mode, keys, named) ==
    LET r == WithOperator(Upserted(named))
        t == PolicyThought(mode, keys)
    IN  /\ opened
        /\ budget.changes > 0
        /\ \A e \in named : UpsertAllowed(registry, e)
        /\ \/ PolicyCommitted(t, r)
           \/ PolicyFailed(named, r)
           \/ PolicyRefused(t, r)
        /\ UNCHANGED <<checkpoint, opened, sealed>>

\* Variant: the command's keys replace the set.
OnlyNamedKeys(named) == IF named = {} THEN {OperatorEntry} ELSE named

\* The operator's entry goes in first, then the named keys', one per identity.
\* A record equal to the policy in force is not written when the keys also
\* come in the same order; the order is left out, so it may be written.
KeysOfMode(named) ==
    LET withOperator == WithEntry(policy.keys, OperatorEntry)
    IN  IF named = {} THEN withOperator ELSE WithEntry(withOperator, CHOOSE e \in named : TRUE)

SetMode(mode, named) ==
    /\ ~(policy.seq = 0 /\ mode = "open")
    /\ CommitPolicy(mode, KeysOfMode(named), named)

AllowKey(e) ==
    /\ policy.seq > 0
    /\ e \notin policy.keys
    /\ CommitPolicy(policy.mode, WithEntry(policy.keys, e), {e})

DenyKey(agent, id) ==
    /\ ~(agent = Operator /\ id = OperatorKeyId)
    /\ Without(policy.keys, agent, id) \notin {policy.keys, {}}
    /\ CommitPolicy(policy.mode, Without(policy.keys, agent, id), {})

------------------------------------------------------------------------------
(* Stopping, losing files, opening. *)

\* The handle goes: dropping it saves a dirty registry, a crash or a failing
\* save does not.
Stop ==
    /\ opened
    /\ opened' = FALSE
    /\ saved' \in {saved, registry}
    /\ registry' = EmptyRegistry
    /\ policy' = NoPolicy
    /\ UNCHANGED <<thoughts, checkpoint, minted, budget, secret, pushed, sealed, doubtful>>

\* The power fails under writes that were not synced: the chain file keeps a
\* prefix, and the checkpoint, renamed into place without a sync, may be gone.
PowerFails ==
    /\ ~opened
    /\ budget.faults > 0
    /\ \E n \in 0..Len(thoughts) : thoughts' = SubSeq(thoughts, 1, n)
    /\ \/ UNCHANGED <<checkpoint, sealed>>
       \/ checkpoint' = NoCheckpoint /\ sealed' = <<>>
    /\ budget' = [budget EXCEPT !.faults = @ - 1]
    /\ UNCHANGED <<registry, saved, policy, opened, minted, secret, pushed, doubtful>>

\* The operator inspected a locked chain and deletes its checkpoint.
DeleteCheckpoint ==
    /\ ~opened
    /\ checkpoint.exists
    /\ checkpoint' = NoCheckpoint
    /\ sealed' = <<>>
    /\ UNCHANGED <<thoughts, registry, saved, policy, opened, minted, budget,
                   secret, pushed, doubtful>>

\* load_checkpoint's bindings: the head at its count, and the policy there.
PrefixMatches == checkpoint.count <= Len(thoughts)
                 /\ PrevHash(thoughts, checkpoint.count + 1) = checkpoint.head

StateMatches ==
    LET p == Replays(thoughts)[checkpoint.count]
    IN  p.keys = checkpoint.keys /\ p.seq = checkpoint.seq

\* governed_suffix_findings: the positions from start on that the policy of
\* their place would not have accepted, by the registry r.
Findings(r, start) ==
    LET P == Replays(thoughts)
        Fails(n) ==
          LET t == thoughts[n]
              p == P[n - 1]
              key == KeyOf(r, t.by.agent, t.by.id)
          IN  IF t.record # NoRecord THEN ~CheckRecord(p, t, PrevHash(thoughts, n))
              ELSE IF t.version = 0 THEN p.mode # "open"
              ELSE \/ key = NoKey
                   \/ p.mode # "open" /\ t.version # 2
                   \/ t.version = 2 /\ (key # t.by.key \/ t.over # PrevHash(thoughts, n))
                   \/ t.version = 2 /\ p.mode = "allowlist" /\ t.by \notin p.keys
    IN  {n - 1 : n \in {m \in start + 1..Len(thoughts) : Fails(m)}}

\* store_checkpoint, over the whole chain.
SealOf(p) == [count |-> Len(thoughts), head |-> HeadHash(thoughts), seq |-> p.seq,
              keys |-> p.keys, quarantined |-> p.quarantined, exists |-> TRUE]

\* open_with_storage with verify_on_open: the policy is replayed; a chain
\* with nothing private and no checkpoint is not verified; a checkpoint that
\* does not match locks the chain; otherwise what came after it is verified.
Open ==
    LET replayed == Replay(thoughts)
        start == IF checkpoint.exists THEN checkpoint.count ELSE 0
        verified == [replayed EXCEPT !.quarantined =
                       checkpoint.quarantined \cup Findings(saved, start)]
    IN  /\ ~opened
        /\ budget.opens > 0
        /\ opened' = TRUE
        /\ registry' = saved
        /\ budget' = [budget EXCEPT !.opens = @ - 1]
        /\ CASE ~checkpoint.exists /\ ~HasPrivate(replayed) ->
                  /\ policy' = replayed
                  /\ UNCHANGED <<checkpoint, sealed>>
             [] checkpoint.exists /\ ~(PrefixMatches /\ StateMatches) ->
                  /\ policy' = [replayed EXCEPT !.locked = TRUE]
                  /\ UNCHANGED <<checkpoint, sealed>>
             [] OTHER ->
                  \* A checkpoint that cannot be written is left as it was.
                  /\ policy' = verified
                  /\ \/ /\ checkpoint' = SealOf(verified)
                        /\ sealed' = [n \in DOMAIN thoughts |-> thoughts[n].hash]
                     \/ UNCHANGED <<checkpoint, sealed>>
        /\ UNCHANGED <<thoughts, saved, minted, secret, pushed, doubtful>>

------------------------------------------------------------------------------
Init ==
    /\ thoughts = <<>>
    /\ registry = EmptyRegistry
    /\ saved = EmptyRegistry
    /\ policy = NoPolicy
    /\ checkpoint = NoCheckpoint
    /\ opened = TRUE
    /\ minted = 0
    /\ budget = [changes |-> MaxChanges, faults |-> MaxFaults, opens |-> MaxOpens]
    /\ secret = {} /\ pushed = {}
    /\ sealed = <<>>
    /\ doubtful = {}

\* The keys a SetMode command names: none, or one.
Named == {{}} \cup {{e} : e \in AllowedKeys}

Next ==
    \/ \E t \in Submissions : AppendThought(t)
    \/ \E e \in AllowedKeys : AddAgentKey(e) \/ AddAgentKeyAsOperator(e) \/ AllowKey(e)
    \/ \E a \in Agents, i \in KeyIds : RevokeAgentKey(a, i) \/ DenyKey(a, i)
    \/ \E a \in Agents : DisableAgent(a) \/ EnableAgent(a)
    \/ \E mode \in Modes, named \in Named : SetMode(mode, named)
    \/ Stop
    \/ PowerFails
    \/ DeleteCheckpoint
    \/ Open

Spec == Init /\ [][Next]_vars

------------------------------------------------------------------------------
(* Properties. *)

\* The policy in memory is what replaying the chain's records gives, whatever
\* was appended, refused, lost or reopened (set_access_policy stores the
\* record before it commits it; open replays).
PolicyIsReplay ==
    opened => [policy EXCEPT !.quarantined = {}, !.locked = FALSE] = Replay(thoughts)

\* A governance record, and a thought appended while the chain was signed or
\* allowlisted, is never visible to a public reader and never pushed to a
\* webhook: not after the chain turns public again, nor after lost tails,
\* deleted checkpoints and reopening.
SecretsStayHidden ==
    /\ secret \cap pushed = {}
    /\ opened => \A n \in DOMAIN thoughts :
                    thoughts[n].hash \in secret => ~PublicSees(policy, n - 1)

\* Opening quarantines no thought that was accepted, except one whose key was since
\* replaced under its id or was never saved, ...
AcceptedStaysReadable ==
    \A i \in policy.quarantined :
                 /\ thoughts[i + 1].version # 0
                 /\ <<thoughts[i + 1].by.agent, thoughts[i + 1].by.id>> \in doubtful

\* ... and locks the chain exactly when it no longer starts with the thoughts its
\* checkpoint was written over.
LockedIfLost ==
    policy.locked <=>
        checkpoint.exists /\ ~(/\ Len(sealed) <= Len(thoughts)
                               /\ \A n \in DOMAIN sealed : sealed[n] = thoughts[n].hash)

\* Append and open judge alike (check_append_access, set_access_policy against
\* governed_suffix_findings), and an opening knows what was lost although the
\* checkpoint holds one hash and one policy state: whatever was accepted since stays
\* readable, whatever is missing locks the chain.
VerdictsAreRight == opened => AcceptedStaysReadable /\ LockedIfLost

\* docs/CHAIN_ACCESS.md: "the operator key is always a governor so a policy can
\* never lock itself out".  It holds while nobody registers another key under
\* the operator's own id.
OperatorGoverns ==
    opened /\ policy.seq > 0 =>
        \/ OperatorEntry \in policy.keys
        \/ <<Operator, OperatorKeyId>> \in doubtful
=============================================================================
