------------------------------ MODULE ChainQueries ------------------------------
(***************************************************************************)
(* What an open chain answers (lib.rs and search/lexical.rs).  A handle    *)
(* keeps, next to its thoughts, indexes of them, the registry of their     *)
(* authors, the authors' text in the word index and the window in which a  *)
(* new thought is compared with recent ones.  All of them follow the chain *)
(* append by append and are made again when it is opened; queries and      *)
(* traversals answer from them, while the chain grows under the reader.    *)
(*                                                                         *)
(* A text is one word; names are compared as the code does, without case.  *)
(* Types and roles are indexed alike, as are tags and concepts, and a      *)
(* thought has one of each.  Links are authorized and hold for good:       *)
(* Lineage has what changes that, ChainAccess what makes a thought private.*)
(***************************************************************************)
EXTENDS Naturals, Sequences, SequencesExt, FiniteSetsExt

CONSTANTS
    Drafts,      \* ThoughtInputs: [agent, name, owner, kind, tag, entity, text,
                 \* weight, signed, private]
    Edits,       \* operator's changes of a record: [agent, name, owner, about, alias]
    Absent,      \* an Option that is None
    PartOf,      \* pairs of a tag and a needle that is part of it
    Queries,     \* ThoughtQueries: [kinds, agents, needles, names, owners, entity,
                 \* word, weight, since, until, audience, replaced, limit]
    ReaderQueries, \* those a reader pages through
    Chunk,       \* chunk_size of its pages
    FlushEvery,  \* AGENT_REGISTRY_FLUSH_THRESHOLD
    DedupWindow, \* dedup_scan_window
    MaxDrafts,   \* bound: thoughts
    MaxEdits,    \* bound: changes of the registry
    MaxReopens,  \* bound: closes and crashes
    MaxRegistryFaults, \* bound: saves of the registry that fail
    MaxClock     \* bound: the time

DraftFields == {"agent", "name", "owner", "kind", "tag", "entity", "text", "weight",
                "signed", "private"}

ASSUME QueryAssumption ==
    /\ {Chunk, FlushEvery, DedupWindow} \subseteq Nat \ {0}
    /\ MaxClock \in Nat /\ Absent \notin Nat
    /\ \A d \in Drafts :
         /\ DOMAIN d = DraftFields /\ d.private => d.signed
         /\ d.weight \in Nat /\ Absent \notin {d.agent, d.kind}
    /\ \A part \in PartOf : part[1] # Absent
    /\ \A q \in Queries \cup ReaderQueries : {q.since, q.until} \subseteq Nat \cup {Absent}

VARIABLES
    thoughts, \* MentisDb::thoughts: a draft, with its time and what it supersedes
    byAgent, byKind, byTag, \* QueryIndexes: the positions of each value
    agents,   \* AgentRegistry: [name, owner, about, aliases, count, last]
    lexical,  \* LexicalIndex: the author's text each document was indexed with
    hashes,   \* lexical_registry_hashes
    replacing, \* invalidating_edges: who supersedes each thought
    window,   \* DedupTokenWindow: [start, texts, tail]
    savedAgents, \* the registry's file
    unsaved,  \* pending_agent_registry_updates, 0 without pending_..._sync
    reader,   \* a client that pages: [query, forward, at, got, told]
    queryBounds

memoryVars == <<byAgent, byKind, byTag, lexical, hashes, replacing, window>>
queryVars == <<thoughts, memoryVars, agents, savedAgents, unsaved, reader, queryBounds>>

Positions == DOMAIN thoughts
NoOne == [x \in {} |-> 0]
NoWindow == [start |-> 1, texts |-> <<>>, tail |-> 0]
Idle == [query |-> Absent, forward |-> TRUE, at |-> 0, got |-> <<>>, told |-> 0]

-----------------------------------------------------------------------------
(* The registry of agents. *)

\* AgentRecord::stub.
Stub(agent) == [name |-> agent, owner |-> Absent, about |-> Absent, aliases |-> {},
                count |-> 0, last |-> 0]

Known(record, name) == name = record.name \/ name \in record.aliases

\* AgentRecord::observe, and AgentRecord::new for an agent that is new.
Renamed(record, name) ==
    IF name = Absent \/ Known(record, name) THEN record
    ELSE [record EXCEPT !.name = name, !.aliases = @ \cup {record.name}]

Seen(record, name, owner, position) ==
    [Renamed(record, name) EXCEPT !.owner = IF @ = Absent THEN owner ELSE @,
                                  !.last = position, !.count = @ + 1]

\* AgentRegistry::observe.
Observed(registry, agent, name, owner, position) ==
    LET record == IF agent \in DOMAIN registry THEN registry[agent]
                  ELSE [Stub(agent) EXCEPT !.name = IF name = Absent THEN @ ELSE name]
    IN [a \in DOMAIN registry \cup {agent} |->
            IF a = agent THEN Seen(record, name, owner, position) ELSE registry[a]]

Identity(record) == [name |-> record.name, owner |-> record.owner, aliases |-> record.aliases]
\* What observe returns.
IdentityChanged(old, new, agent) ==
    agent \notin DOMAIN old \/ Identity(old[agent]) # Identity(new[agent])

\* agent_registry_tokens.
TextOf(record) == {record.name, record.owner, record.about} \cup record.aliases

\* open_with_storage: the saved records, counted again.
Replayed(chain, registry) ==
    LET upTo[p \in 0 .. Len(chain)] ==
          IF p = 0 THEN [a \in DOMAIN registry |-> [registry[a] EXCEPT !.count = 0]]
          ELSE Observed(upTo[p - 1], chain[p].agent, Absent, Absent, p)
    IN upTo[Len(chain)]

-----------------------------------------------------------------------------
(* What follows the chain.  Each structure has the step that adds a thought *)
(* to it, and is made from nothing by taking that step for every thought.   *)

\* QueryIndexes::observe, for one value of one index.
Listed(index, value, position) ==
    IF value = Absent THEN index
    ELSE [v \in DOMAIN index \cup {value} |->
            IF v = value THEN (IF v \in DOMAIN index THEN Append(index[v], position)
                               ELSE <<position>>)
            ELSE index[v]]

\* QueryIndexes::from_thoughts, of one index.
Index(chain, field) ==
    LET upTo[p \in 0 .. Len(chain)] ==
          IF p = 0 THEN NoOne ELSE Listed(upTo[p - 1], chain[p][field], p)
    IN upTo[Len(chain)]

\* observe_invalidating_relations.
Replacing(edges, target, position) == Listed(edges, target, position)

\* LexicalIndex::build_with_registry.
Lexical(chain, registry) == [p \in DOMAIN chain |-> TextOf(registry[chain[p].agent])]
TextHashes(registry) == [a \in DOMAIN registry |-> TextOf(registry[a])]

\* Variant: only an owner learnt late is a change of an agent's text.
TextChangedByOwner(registry, only) ==
    \E a \in only \cap DOMAIN hashes : registry[a].owner \notin hashes[a]

\* sync_lexical_registry: an agent that is new has no thoughts to index again.
TextChanged(registry, only) ==
    \E a \in only \cap DOMAIN hashes : hashes[a] # TextOf(registry[a])
Hashed(registry, only) ==
    [a \in DOMAIN hashes \cup only |-> IF a \in only THEN TextOf(registry[a]) ELSE hashes[a]]

\* DedupTokenWindow::sync.  A thought's hash is its position: no operation
\* rewrites the thoughts of an open chain.
Aligned(w, from) ==
    LET end == w.start + Len(w.texts) - 1
    IN w.texts = <<>> \/ (end <= Len(thoughts) /\ w.start <= from /\ w.tail = end)

Synced(w) ==
    LET from == IF Len(thoughts) > DedupWindow THEN Len(thoughts) - DedupWindow + 1 ELSE 1
        kept == IF Aligned(w, from) THEN w ELSE [w EXCEPT !.texts = <<>>, !.start = from]
        passed == IF from > kept.start THEN from - kept.start ELSE 0
        texts == SubSeq(kept.texts, passed + 1, Len(kept.texts))
        start == IF texts = <<>> THEN from ELSE kept.start + passed
    IN [start |-> start,
        texts |-> texts \o [i \in 1 .. Len(thoughts) - (start + Len(texts) - 1) |->
                               thoughts[start + Len(texts) - 1 + i].text],
        tail |-> Len(thoughts)]

\* append_thought_inner's automatic Supersedes: of equally similar thoughts the
\* first in the window.  An unsigned thought is public and may not tell that it
\* is like a private one.
Superseded(d, w) ==
    LET alike == {p \in w.start .. w.start + Len(w.texts) - 1 :
                    /\ w.texts[p - w.start + 1] = d.text
                    /\ thoughts[p].weight <= d.weight
                    /\ ~ thoughts[p].private}
    IN IF d.signed \/ d.text = Absent \/ alike = {} THEN Absent ELSE Min(alike)

-----------------------------------------------------------------------------
(* Operations. *)

QueriesInit ==
    /\ thoughts = <<>>
    /\ byAgent = NoOne /\ byKind = NoOne /\ byTag = NoOne
    /\ agents = NoOne /\ savedAgents = NoOne /\ unsaved = 0
    /\ lexical = <<>> /\ hashes = NoOne /\ replacing = NoOne
    /\ window = NoWindow
    /\ reader = Idle
    /\ queryBounds = [edits |-> 0, reopens |-> 0, faults |-> 0]

\* maybe_flush_agent_registry: the save may fail, which an append logs and an
\* edit returns; the change stays in memory and pending.
SaveAgents(registry, forced, bounds) ==
    IF forced \/ unsaved + 1 >= FlushEvery
    THEN \/ savedAgents' = registry /\ unsaved' = 0 /\ queryBounds' = bounds
         \/ /\ bounds.faults < MaxRegistryFaults
            /\ queryBounds' = [bounds EXCEPT !.faults = @ + 1]
            /\ unsaved' = unsaved + 1 /\ UNCHANGED savedAgents
    ELSE unsaved' = unsaved + 1 /\ queryBounds' = bounds /\ UNCHANGED savedAgents

\* The thought that is made of a draft.
Thought(d, at, target) ==
    [x \in DraftFields \cup {"at", "supersedes"} |->
        CASE x = "at" -> at [] x = "supersedes" -> target [] OTHER -> d[x]]

\* Utc::now() may go back.
AppendDraft(d, at) ==
    LET p == Len(thoughts) + 1
        synced == IF d.signed \/ d.text = Absent THEN window ELSE Synced(window)
        target == Superseded(d, synced)
        chain == Append(thoughts, Thought(d, at, target))
        registry == Observed(agents, d.agent, d.name, d.owner, p)
    IN /\ p <= MaxDrafts
       /\ thoughts' = chain /\ agents' = registry /\ window' = synced
       /\ byAgent' = Listed(byAgent, d.agent, p)
       /\ byKind' = Listed(byKind, d.kind, p)
       /\ byTag' = Listed(byTag, d.tag, p)
       /\ replacing' = Replacing(replacing, target, p)
       /\ lexical' = IF TextChanged(registry, {d.agent}) THEN Lexical(chain, registry)
                     ELSE Append(lexical, TextOf(registry[d.agent]))
       /\ hashes' = Hashed(registry, {d.agent})
       /\ SaveAgents(registry, p = 1 \/ IdentityChanged(agents, registry, d.agent), queryBounds)
       /\ UNCHANGED reader

\* persist_registries, which has a registry to save and may fail to.
PersistRegistries(registry) ==
    /\ agents' = registry
    /\ lexical' = IF TextChanged(registry, DOMAIN registry) THEN Lexical(thoughts, registry)
                  ELSE lexical
    /\ hashes' = Hashed(registry, DOMAIN registry)
    /\ SaveAgents(registry, TRUE, [queryBounds EXCEPT !.edits = @ + 1])
    /\ UNCHANGED <<thoughts, byAgent, byKind, byTag, replacing, window, reader>>

\* upsert_agent (and set_agent_description): set_display_name, set_owner.
Upserted(e) ==
    LET old == IF e.agent \in DOMAIN agents THEN agents[e.agent] ELSE Stub(e.agent)
        renamed == IF e.name = Absent THEN old
                   ELSE [old EXCEPT !.name = e.name,
                           !.aliases = IF Known(old, e.name) THEN @ ELSE @ \cup {old.name}]
    IN [renamed EXCEPT !.owner = IF e.owner = Absent THEN @ ELSE e.owner,
                       !.about = IF e.about = Absent THEN @ ELSE e.about]

UpsertAgent(e) ==
    /\ e.alias = Absent /\ queryBounds.edits < MaxEdits
    /\ PersistRegistries([a \in DOMAIN agents \cup {e.agent} |->
                            IF a = e.agent THEN Upserted(e) ELSE agents[a]])

AddAlias(e) ==
    /\ e.alias # Absent /\ e.agent \in DOMAIN agents /\ queryBounds.edits < MaxEdits
    /\ PersistRegistries([agents EXCEPT ![e.agent].aliases =
                            IF Known(agents[e.agent], e.alias) THEN @ ELSE @ \cup {e.alias}])

\* Drop saves what is pending, as far as it can; a crash does not.  The chain is
\* opened again.
Reopen(registry) ==
    LET loaded == Replayed(thoughts, registry) IN
    /\ queryBounds.reopens < MaxReopens
    /\ queryBounds' = [queryBounds EXCEPT !.reopens = @ + 1]
    /\ savedAgents' = registry /\ unsaved' = 0
    /\ agents' = loaded
    /\ byAgent' = Index(thoughts, "agent") /\ byKind' = Index(thoughts, "kind")
    /\ byTag' = Index(thoughts, "tag") /\ replacing' = Index(thoughts, "supersedes")
    /\ lexical' = Lexical(thoughts, loaded) /\ hashes' = TextHashes(loaded)
    /\ window' = NoWindow
    /\ UNCHANGED <<thoughts, reader>>

CloseAndOpen == unsaved > 0 /\ Reopen(agents)
CrashAndOpen == Reopen(savedAgents)

-----------------------------------------------------------------------------
(* Answers. *)

Visible(p, q) == q.audience = "authorized" \/ ~ thoughts[p].private

\* is_invalidated_for.
Invalidated(p, q) ==
    p \in DOMAIN replacing /\ \E r \in ToSet(replacing[p]) : Visible(r, q)

\* partition_point, on thoughts whose times are in order.
Leading(Holds(_)) == Cardinality({p \in Positions : \A r \in 1 .. p : Holds(r)})

\* Variant: the end of a time window is not in it.
InBoundsBefore(q) ==
    LET since(p) == thoughts[p].at < q.since
        until(p) == thoughts[p].at < q.until
        start == IF q.since = Absent THEN 0 ELSE Leading(since)
        end == IF q.until = Absent THEN Len(thoughts) ELSE Leading(until)
    IN start + 1 .. end

\* candidate_position_bounds.
InBounds(q) ==
    LET since(p) == thoughts[p].at < q.since
        until(p) == thoughts[p].at <= q.until
        start == IF q.since = Absent THEN 0 ELSE Leading(since)
        end == IF q.until = Absent THEN Len(thoughts) ELSE Leading(until)
    IN start + 1 .. end

Union(index, values) == UNION {ToSet(index[v]) : v \in values \cap DOMAIN index}

Called(names) == {a \in DOMAIN agents : \E n \in names : Known(agents[a], n)}
OwnedBy(owners) == {a \in DOMAIN agents : agents[a].owner \in owners}
Tagged(needles) == {t \in DOMAIN byTag : \E n \in needles : <<t, n>> \in PartOf}

\* The lists indexed_candidate_positions intersects.
Lists(q) ==
      (IF q.kinds = Absent THEN {} ELSE {Union(byKind, q.kinds)})
 \cup (IF q.agents = Absent THEN {} ELSE {Union(byAgent, q.agents)})
 \cup (IF q.needles = Absent THEN {} ELSE {Union(byTag, Tagged(q.needles))})
 \cup (IF q.names = Absent THEN {} ELSE {Union(byAgent, Called(q.names))})
 \cup (IF q.owners = Absent THEN {} ELSE {Union(byAgent, OwnedBy(q.owners))})

Indexed(q) == \E filter \in {"kinds", "agents", "needles", "names", "owners"} : q[filter] # Absent
Candidates(q) == LET lists == Lists(q) IN {p \in Positions : \A l \in lists : p \in l}

\* matches_post_index_filters.
MatchesAfterIndex(p, q) ==
    /\ q.weight # Absent => thoughts[p].weight >= q.weight
    /\ q.since # Absent => thoughts[p].at >= q.since
    /\ q.until # Absent => thoughts[p].at <= q.until

\* ThoughtQuery::matches.
Matches(p, q) ==
    /\ q.kinds # Absent => thoughts[p].kind \in q.kinds
    /\ q.agents # Absent => thoughts[p].agent \in q.agents
    /\ q.entity # Absent => thoughts[p].entity = q.entity
    /\ q.needles # Absent => \E n \in q.needles : <<thoughts[p].tag, n>> \in PartOf
    /\ MatchesAfterIndex(p, q)

\* query_matches_registry.
MatchesRegistry(p, q) ==
    LET a == thoughts[p].agent IN
    /\ Visible(p, q)
    /\ q.names # Absent => a \in Called(q.names)
    /\ q.owners # Absent => a \in OwnedBy(q.owners)
    /\ q.word # Absent =>
         \/ a \in DOMAIN agents /\ q.word \in TextOf(agents[a])
         \/ q.word \in {thoughts[p].text, a, thoughts[p].tag}

\* The filters a scan applies when an index has chosen the candidates.
Filtered(p, q) == IF Indexed(q) THEN MatchesAfterIndex(p, q) ELSE Matches(p, q)

Newest(positions, limit) ==
    IF limit = Absent THEN positions
    ELSE {p \in positions : Cardinality({r \in positions : r > p}) < limit}

\* query.
Answer(q) ==
    Newest({p \in (IF Indexed(q) THEN Candidates(q) ELSE Positions) \cap InBounds(q) :
              /\ Visible(p, q)
              /\ q.replaced \/ ~ Invalidated(p, q)
              /\ Filtered(p, q) /\ MatchesRegistry(p, q)}, q.limit)

\* collect_traversal_matches_from_candidates and ..._linear: only the first is
\* kept to the bounds.
Found(q) ==
    {p \in (IF Indexed(q) THEN Candidates(q) \cap InBounds(q) ELSE Positions) :
        Visible(p, q) /\ Filtered(p, q) /\ MatchesRegistry(p, q)}

InOrder(s, forward) ==
    \A i, j \in DOMAIN s : i < j => IF forward THEN s[i] < s[j] ELSE s[j] < s[i]
InOrderOf(positions, forward) ==
    CHOOSE s \in [1 .. Cardinality(positions) -> positions] : InOrder(s, forward)

\* Variant: a page begins with the thought of its cursor.
PageWithAnchor(q, forward, at) ==
    LET onward == {p \in Found(q) : at = 0 \/ (IF forward THEN p >= at ELSE p <= at)}
        matches == InOrderOf(onward, forward)
    IN [positions |-> SubSeq(matches, 1, IF Len(matches) > Chunk THEN Chunk ELSE Len(matches)),
        more |-> Len(matches) > Chunk]

\* traverse_thoughts from a cursor, whose thought is not read again; from 0 it
\* is from one end of what the reader may see.
Page(q, forward, at) ==
    LET onward == {p \in Found(q) : at = 0 \/ (IF forward THEN p > at ELSE p < at)}
        matches == InOrderOf(onward, forward)
    IN [positions |-> SubSeq(matches, 1, IF Len(matches) > Chunk THEN Chunk ELSE Len(matches)),
        more |-> Len(matches) > Chunk]

StartReading ==
    /\ reader = Idle
    /\ \E q \in ReaderQueries, forward \in BOOLEAN :
         reader' = [Idle EXCEPT !.query = q, !.forward = forward]
    /\ UNCHANGED <<thoughts, memoryVars, agents, savedAgents, unsaved, queryBounds>>

\* The client continues from next_cursor, the last thought of the page; told is
\* the length of the chain of which it was told that there is no more.  One that
\* goes forward may ask again later.
ReadPage ==
    LET page == Page(reader.query, reader.forward, reader.at) IN
    /\ reader # Idle /\ (reader.forward \/ reader.told = 0)
    /\ reader' = [reader EXCEPT
         !.got = @ \o page.positions,
         !.at = IF page.positions = <<>> THEN @ ELSE Last(page.positions),
         !.told = IF page.more THEN @ ELSE Len(thoughts)]
    /\ UNCHANGED <<thoughts, memoryVars, agents, savedAgents, unsaved, queryBounds>>

QueriesNext ==
    \/ \E d \in Drafts, at \in 1 .. MaxClock : AppendDraft(d, at)
    \/ \E e \in Edits : UpsertAgent(e) \/ AddAlias(e)
    \/ CloseAndOpen \/ CrashAndOpen
    \/ StartReading \/ ReadPage

QueriesSpec == QueriesInit /\ [][QueriesNext]_queryVars

-----------------------------------------------------------------------------
(* Properties. *)

\* What the handle keeps next to its thoughts is what it would be if it were
\* made anew: a name, an owner or an alias learnt late is in the word index of
\* every earlier thought of the agent, the counts of the registry are those of
\* the chain after any number of reopenings, and the window of recent texts,
\* once brought up to date, is that of the last thoughts, whatever was appended
\* without it.
KeptIsRemade ==
    LET n == Len(thoughts)
        first == IF n > DedupWindow THEN n - DedupWindow + 1 ELSE 1
    IN /\ byAgent = Index(thoughts, "agent") /\ byKind = Index(thoughts, "kind")
       /\ byTag = Index(thoughts, "tag") /\ replacing = Index(thoughts, "supersedes")
       /\ lexical = Lexical(thoughts, agents)
       /\ \A a \in DOMAIN agents :
            agents[a].count = Cardinality({p \in Positions : thoughts[p].agent = a})
       /\ Synced(window).texts = [i \in 1 .. n - first + 1 |-> thoughts[first + i - 1].text]

\* Does the thought have everything the query asks for?
Asked(p, q) == Matches(p, q) /\ MatchesRegistry(p, q)

InTime == \A p, r \in Positions : p < r => thoughts[p].at <= thoughts[r].at
Timeless(q) == q.since = Absent /\ q.until = Absent

\* A query finds what a scan of the chain would: exactly the thoughts that
\* have what it asks for, may be seen and are not superseded, the newest if it
\* has a limit.  Time windows need times in order, and an entity type is only
\* looked at without an index (EntityTypeLimits).  (An empty chain has no
\* answers, and a client that pages changes nothing an answer depends on: the
\* states in which none does are enough.)
AnswersAreScans == thoughts # <<>> /\ reader = Idle => \A q \in Queries :
    (InTime \/ Timeless(q)) /\ (q.entity = Absent \/ ~ Indexed(q)) =>
        Answer(q) = Newest({p \in Positions :
            /\ Asked(p, q)
            /\ q.replaced \/ ~ \E r \in Positions : thoughts[r].supersedes = p /\ Visible(r, q)},
            q.limit)

\* The thoughts a client has been past, going forward from the first or back from
\* the newest there was.
Past(p) ==
    IF reader.forward THEN p <= reader.at \/ p <= reader.told
    ELSE IF reader.got = <<>> THEN p <= reader.told
    ELSE p <= reader.got[1] /\ (p >= reader.at \/ reader.told > 0)

\* Nothing a change of the registry can change is asked for.
Steady(q) ==
    /\ q.names = Absent /\ q.owners = Absent /\ q.word = Absent
    /\ q.entity = Absent \/ ~ Indexed(q)

\* A client that follows next_cursor while the chain grows, is closed or crashes
\* reads every matching thought once and in order: none between two pages, and
\* none that was there when it was told that there is no more.
PagesMissNothing ==
    reader # Idle =>
      (Steady(reader.query) /\ (InTime \/ Timeless(reader.query)) =>
        /\ InOrder(reader.got, reader.forward)
        /\ ToSet(reader.got) = {p \in Positions : Past(p) /\ Asked(p, reader.query)})

\* lib.rs:3397, "Limit matches to thoughts with the specified entity type."
EntityTypeLimits == \A q \in Queries :
    q.entity # Absent => \A p \in Answer(q) : thoughts[p].entity = q.entity

=============================================================================
