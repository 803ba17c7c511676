-------------------------------- MODULE Lineage --------------------------------
(***************************************************************************)
(* Which memory is the current version of a fact (lineage.rs, and the      *)
(* invalidation checks of lib.rs): a chain whose thoughts replace or       *)
(* contest older ones, the guard on what may be appended, and the bounded  *)
(* walk readers take from an old version to the one that replaced it.      *)
(*                                                                         *)
(* A thought is its writer, its time, whether it lies in a private segment *)
(* and its links; a link has the window of time it holds in.               *)
(***************************************************************************)
EXTENDS Naturals, Sequences, FiniteSets, FiniteSetsExt, SequencesExt

CONSTANTS
    Writers,
    Windows,     \* the windows links are given: [from, until]
    Policies,    \* the sets of agents a policy may allow
    MaxDepth,    \* MAX_LINEAGE_DEPTH
    MaxVersions, \* bound: the thoughts appended
    MaxLinks,    \* bound: the links of one thought
    MaxTime      \* bound: the time

ASSUME LineageAssumption == MaxDepth \in Nat \ {0} /\ Policies \subseteq SUBSET Writers

VARIABLES
    versions, \* MentisDb::thoughts
    governed, \* whether the chain is private now
    trusted,  \* the agents whose keys the policy allows
    time

lineageVars == <<versions, governed, trusted, time>>

Audiences == {"public", "authorized"}
None == 0
Versions == DOMAIN versions

LineageInit ==
    /\ versions = <<>>
    /\ governed = FALSE
    /\ trusted = {}
    /\ time = 1

-----------------------------------------------------------------------------
(* Links. *)

LinksOf(id) == versions[id].links
\* The edges of LineageIndex that end at a thought: who links it, and with what.
EdgesInto(id) == UNION {{[by |-> n, link |-> l] : l \in {k \in LinksOf(n) : k.to = id}} :
                          n \in id + 1 .. Len(versions)}

\* SuccessorEdge::in_force_at and InvalidatingEdge::in_force_at.
InForce(e, t) ==
    /\ versions[e.by].at <= t
    /\ e.link.from <= t /\ t < e.link.until

Visible(id, audience) == audience = "authorized" \/ ~ versions[id].private

\* strong_link_is_authorized.
Authorized(e) ==
    \/ ~ versions[e.by].private
    \/ versions[e.by].who = versions[e.link.to].who
    \/ versions[e.by].who \in trusted

\* is_invalidated_for and is_invalidated.
InvalidatedNow(id, audience) ==
    \E e \in EdgesInto(id) :
        e.link.strong /\ InForce(e, time) /\ Visible(e.by, audience) /\ Authorized(e)

\* is_invalidated_as_of_for: a thought that is not invalidated now never was.
InvalidatedAt(id, t, audience) ==
    /\ InvalidatedNow(id, audience)
    /\ \E e \in EdgesInto(id) :
         e.link.strong /\ InForce(e, t) /\ Visible(e.by, audience) /\ Authorized(e)

VisibleEdges(id, t, audience) ==
    {e \in EdgesInto(id) : InForce(e, t) /\ Visible(e.by, audience)}

-----------------------------------------------------------------------------
(* Appending. *)

\* version_chain_len of every thought: the versions of the longest chain of
\* strong links that ends there.
LengthsIn(vs) ==
    LET L[id \in DOMAIN vs] ==
          1 + Max({0} \cup {L[l.to] : l \in {k \in vs[id].links : k.strong}})
    IN L
ChainLengths == LengthsIn(versions)

\* check_lineage_depth.
DepthAllowed(links) ==
    \A l \in links : l.strong => ChainLengths[l.to] < MaxDepth

\* check_private_targets: only a writer who may read private thoughts links them.
\* A thought has at most one link to each target, as LineageIndex::add keeps it.
AppendVersion ==
    /\ Len(versions) < MaxVersions
    /\ \E who \in Writers, targets \in UNION {kSubset(n, Versions) : n \in 0 .. MaxLinks} :
       \E kind \in [targets -> BOOLEAN \X Windows] :
         LET links == {[to |-> id, strong |-> kind[id][1], from |-> kind[id][2].from,
                        until |-> kind[id][2].until] : id \in targets} IN
         /\ DepthAllowed(links)
         /\ \A l \in links : versions[l.to].private => governed /\ who \in trusted
         /\ versions' = Append(versions, [who |-> who, at |-> time, private |-> governed,
                                          links |-> links])
    /\ UNCHANGED <<governed, trusted, time>>

\* The operator makes the chain private (bound: once).
Govern ==
    /\ ~ governed
    /\ governed' = TRUE
    /\ trusted' \in Policies
    /\ UNCHANGED <<versions, time>>

Pass == time < MaxTime /\ time' = time + 1 /\ UNCHANGED <<versions, governed, trusted>>

LineageNext == AppendVersion \/ Govern \/ Pass

LineageSpec == LineageInit /\ [][LineageNext]_lineageVars

-----------------------------------------------------------------------------
(* Reading. *)

Newer(a, b) == versions[a].at > versions[b].at \/ (versions[a].at = versions[b].at /\ a > b)
NewestOf(ids) == IF ids = {} THEN None ELSE CHOOSE a \in ids : \A b \in ids : a = b \/ Newer(a, b)

\* The ids of a set, oldest first.
OldestFirst(ids) ==
    LET Upto[n \in 0 .. Len(versions)] ==
          IF n = 0 THEN <<>>
          ELSE IF n \in ids THEN Append(Upto[n - 1], n) ELSE Upto[n - 1]
    IN Upto[Len(versions)]

\* What replaced a thought.
Replacing(id, t, audience) ==
    {e.by : e \in {x \in VisibleEdges(id, t, audience) : x.link.strong /\ Authorized(x)}}

\* Variant: the newest thought that replaced it, replaced itself or not.
FirstSuccessor(id, t, audience) == NewestOf(Replacing(id, t, audience))

\* live_successor in so many visits: depth first, the newest thought of each step
\* first.
Visit(w, t, audience) ==
    LET n == Last(w.frontier)
        rest == Front(w.frontier)
        stale == {m \in Replacing(n, t, audience) : InvalidatedAt(m, t, audience)}
    IN IF n \in w.visited THEN [w EXCEPT !.frontier = rest]
       ELSE [frontier |-> rest \o OldestFirst(stale), visited |-> w.visited \cup {n},
             best |-> w.best \cup (Replacing(n, t, audience) \ stale)]
Walk(id, t, audience, visits) ==
    LET W[d \in 0 .. visits] ==
          IF d = 0 THEN [frontier |-> <<id>>, visited |-> {}, best |-> {}]
          ELSE LET w == W[d - 1] IN IF w.frontier = <<>> THEN w ELSE Visit(w, t, audience)
    IN W[visits]
WalkedSuccessor(id, t, audience, visits) == NewestOf(Walk(id, t, audience, visits).best)

\* Variant: only what replaced the thought itself is looked at.
NextSuccessor(id, t, audience) == WalkedSuccessor(id, t, audience, 1)

LiveSuccessor(id, t, audience) == WalkedSuccessor(id, t, audience, MaxDepth)

\* live_contester.
LiveContester(id, t, audience) ==
    NewestOf({m \in {e.by : e \in {x \in VisibleEdges(id, t, audience) :
                                      ~ x.link.strong /\ Authorized(x)}} :
                ~ InvalidatedAt(m, t, audience)})

\* redirect_hits: what a page of ranked hits becomes.
Put(page, m) == IF m = None \/ m \in Range(page) THEN page ELSE Append(page, m)
Show(page, hit, t, audience) ==
    IF hit \in Range(page) THEN page
    ELSE IF InvalidatedAt(hit, t, audience)
      THEN Put(page, LiveSuccessor(hit, t, audience))
      ELSE Append(Put(page, LiveContester(hit, t, audience)), hit)
Redirected(hits, t, audience) ==
    LET Page[n \in 0 .. Len(hits)] ==
          IF n = 0 THEN <<>> ELSE Show(Page[n - 1], hits[n], t, audience)
    IN Page[Len(hits)]

-----------------------------------------------------------------------------
(* Properties. *)

\* On a chain with nothing private every audience sees the same.
Readers == IF \E id \in Versions : versions[id].private THEN Audiences ELSE {"public"}

\* Every version: lib.rs:8426, "a longer chain could leave the live end
\* unreachable": with what the guard lets in, the bounded walk from a replaced
\* thought always ends at one that is visible and not replaced itself.
FindsLive ==
    \A id \in Versions, t \in 1 .. time, audience \in Readers :
        LET live == LiveSuccessor(id, t, audience)
        IN IF InvalidatedAt(id, t, audience)
             THEN live # None /\ Visible(live, audience) /\ ~ InvalidatedAt(live, t, audience)
             ELSE live = None \/ ~ InvalidatedNow(id, audience)

\* Every page: lineage.rs:791, "Ranked search that never leaves the agent holding a stale
\* version": no thought on the page is replaced, none is there twice, a replaced
\* hit's successor is, and every other hit stays.
HitsAreCurrent ==
    \A audience \in Readers :
      LET oldestFirst == OldestFirst({id \in Versions : Visible(id, audience)})
      IN \A hits \in {oldestFirst, Reverse(oldestFirst)} :
           LET page == Redirected(hits, time, audience)
           IN /\ IsInjective(page)
              /\ \A id \in Range(page) : Visible(id, audience) /\ ~ InvalidatedAt(id, time, audience)
              /\ \A id \in Range(hits) :
                   IF InvalidatedAt(id, time, audience)
                     THEN LiveSuccessor(id, time, audience) \in Range(page)
                     ELSE id \in Range(page)

\* Whatever order of replacements, windows and private links a chain was given, a
\* reader who asks for a version, and one who asks for a page, gets what is live.
ReadersFindLive == FindsLive /\ HitsAreCurrent

=============================================================================
