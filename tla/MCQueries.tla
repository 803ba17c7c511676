------------------------------ MODULE MCQueries ------------------------------
(* Small instances of ChainQueries for TLC. *)
EXTENDS ChainQueries

CONSTANTS none

Draft(agent, name, owner, kind, tag, entity, text, weight, private) ==
    [agent |-> agent, name |-> name, owner |-> owner, kind |-> kind, tag |-> tag,
     entity |-> entity, text |-> text, weight |-> weight, signed |-> private, private |-> private]

\* Two agents; a name both use, an owner learnt late, a tag that is part of
\* another, a text that comes again and a private thought.
MCDrafts == {
    Draft("ann", "ann b", none, "idea", "db", "incident", "pool", 1, FALSE),
    Draft("ann", "anna", "acme", "goal", none, none, "pool", 2, FALSE),
    Draft("bob", "ann b", none, "idea", "dbms", none, "pool", 1, TRUE),
    Draft("bob", none, "acme", "goal", "dbms", "incident", none, 2, FALSE)}

Edit(agent, name, owner, about, alias) ==
    [agent |-> agent, name |-> name, owner |-> owner, about |-> about, alias |-> alias]
MCEdits == {
    Edit("ann", "anna", none, "db", none),
    Edit("bob", none, "guild", none, none),
    Edit("bob", none, none, none, "anna")}

MCPartOf == {<<"db", "db">>, <<"dbms", "db">>, <<"dbms", "dbms">>}

AllOf == [kinds |-> none, agents |-> none, needles |-> none, names |-> none, owners |-> none,
          entity |-> none, word |-> none, weight |-> none, since |-> none, until |-> none,
          audience |-> "authorized", replaced |-> TRUE, limit |-> none]

\* What a query may ask for, and every query that asks for up to two of them.
Asks == {<<"kinds", {"idea"}>>, <<"agents", {"ann"}>>, <<"needles", {"db"}>>,
         <<"needles", {"dbms", "no"}>>, <<"names", {"ann b", "anna"}>>, <<"owners", {"acme"}>>,
         <<"entity", "incident">>, <<"word", "db">>, <<"weight", 2>>, <<"since", 2>>,
         <<"until", 1>>, <<"audience", "public">>, <<"replaced", FALSE>>, <<"limit", 1>>}
MCQueries == {[AllOf EXCEPT ![a[1]] = a[2], ![b[1]] = b[2]] : a \in Asks, b \in Asks}

\* One that no index helps and two that an index does.
MCReaderQueries == {[AllOf EXCEPT !.audience = "public"],
                    [AllOf EXCEPT !.audience = "public", !.needles = {"db"}],
                    [AllOf EXCEPT !.kinds = {"idea"}, !.since = 2]}

\* The registry tells a reader nothing and does not look at the time: where it
\* is edited or not saved nobody reads, and all thoughts are of one time.
ReadersAlone ==
    queryBounds'.edits + queryBounds'.faults > 0 =>
        reader' = Idle /\ \A p \in DOMAIN thoughts' : thoughts'[p].at = 1

MCQueriesSpec == QueriesInit /\ [][QueriesNext /\ ReadersAlone]_queryVars

===============================================================================
