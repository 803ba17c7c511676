------------------------------ MODULE NonceCache ------------------------------
(***************************************************************************)
(* The read proofs of requests (server_lens.rs) and the cache that         *)
(* remembers which of them were used (NonceCache in read_auth.rs).         *)
(*                                                                         *)
(* A request takes the time once, when its header is verified, and spends  *)
(* the nonce of its proof with that time later, when a handler first reads *)
(* a private segment.  How much later depends on its body, which nothing   *)
(* here bounds; and the clock is the system's (chrono::Utc), which may be  *)
(* set back.  So the times the cache is called with need not come in       *)
(* order, and each call prunes by its own.  A client's clock may be ahead  *)
(* or behind as far as verify_request_for_digest lets it.                  *)
(***************************************************************************)
EXTENDS Integers, Sequences, FiniteSets

CONSTANTS
    Proofs,      \* the proofs clients send, some of them more than once
    SignerOf,    \* the public key of each
    Requests,    \* bound: the requests made
    Window,      \* READ_AUTH_WINDOW_SECS
    Capacity,    \* NonceCache::capacity
    PerKeyLimit, \* NonceCache::per_key_limit
    MaxNow,      \* bound: the time
    MaxBack      \* bound: how far the clock is set back

ASSUME ClockAssumption == {Window, MaxNow, MaxBack} \subseteq Nat /\ Proofs # {}

VARIABLES
    clock,    \* the server's clock
    shown,    \* history: the latest time it has shown
    signedAt, \* ReadAuthHeader::timestamp of each proof
    order,    \* NonceState::order; its length per key is NonceState::per_key
    seen,     \* NonceState::seen: the expiry of each remembered proof, or -1
    reader    \* the requests: [pc, proof, at], and read, the value of shown
              \* when they spent their proof (history)

nonceVars == <<clock, shown, signedAt, order, seen, reader>>

\* A client may date its proof as it likes; the proof is good for a window on
\* each side of that date.
NonceInit ==
    /\ clock = 0 /\ shown = 0
    /\ signedAt \in [Proofs -> 0 .. MaxNow]
    /\ order = <<>>
    /\ seen = [p \in Proofs |-> -1]
    /\ reader = [r \in Requests |-> [pc |-> "new", proof |-> CHOOSE p \in Proofs : TRUE,
                                     at |-> 0, read |-> 0]]

ClockTicks ==
    /\ clock < MaxNow /\ clock' = clock + 1
    /\ shown' = IF clock' > shown THEN clock' ELSE shown
    /\ UNCHANGED <<signedAt, order, seen, reader>>

ClockIsSetBack ==
    /\ clock' \in 0 .. clock - 1 /\ shown - clock' <= MaxBack
    /\ UNCHANGED <<shown, signedAt, order, seen, reader>>

Abs(x) == IF x < 0 THEN - x ELSE x

\* read_auth_middleware: verify_request_for_digest and is_replayed.
Verify(r) ==
    /\ reader[r].pc = "new"
    /\ \E p \in Proofs :
         reader' = [reader EXCEPT ![r] =
              [pc |-> IF Abs(clock - signedAt[p]) <= Window /\ ~ seen[p] > clock
                        THEN "body" ELSE "refused",
               proof |-> p, at |-> clock, read |-> 0]]
    /\ UNCHANGED <<clock, shown, signedAt, order, seen>>

\* The front of the queue that has expired by time t.
Expired(t) == {i \in DOMAIN order : \A j \in 1 .. i : order[j].expires <= t}

\* prune: an entry that was inserted again keeps its newer expiry.
Pruned(t) == SubSeq(order, Cardinality(Expired(t)) + 1, Len(order))
Remembered(t) ==
    [p \in Proofs |->
        IF \E i \in Expired(t) : order[i] = [expires |-> seen[p], proof |-> p]
          THEN -1 ELSE seen[p]]

\* Variant: the expiry is the end of the proof's own window.
ExpiryShort(t, queue) == t + Window

\* The entry is remembered no shorter than the one before it.
Expiry(t, queue) ==
    LET e == t + 2 * Window
    IN IF queue # <<>> /\ queue[Len(queue)].expires > e
         THEN queue[Len(queue)].expires ELSE e

\* audience_for and proof_is_fresh: check_and_insert.  A request that is not
\* granted reads as the public.
Claim(r) ==
    LET p == reader[r].proof
        t == reader[r].at
        queue == Pruned(t)
        known == Remembered(t)
        full == \/ Cardinality({q \in Proofs : known[q] # -1}) >= Capacity
                \/ Cardinality({i \in DOMAIN queue : SignerOf[queue[i].proof] = SignerOf[p]})
                     >= PerKeyLimit
        fresh == ~ known[p] > t /\ ~ full
    IN /\ reader[r].pc = "body"
       /\ reader' = [reader EXCEPT ![r] =
              [@ EXCEPT !.pc = IF fresh THEN "granted" ELSE "public", !.read = shown]]
       /\ IF fresh
            THEN /\ order' = Append(queue, [expires |-> Expiry(t, queue), proof |-> p])
                 /\ seen' = [known EXCEPT ![p] = Expiry(t, queue)]
            ELSE order' = queue /\ seen' = known
       /\ UNCHANGED <<clock, shown, signedAt>>

NonceNext == ClockTicks \/ ClockIsSetBack \/ \E r \in Requests : Verify(r) \/ Claim(r)

NonceSpec == NonceInit /\ [][NonceNext]_nonceVars

-----------------------------------------------------------------------------
(* Properties. *)

\* Both requests were granted, by one proof.
Shared(q, r) ==
    /\ q # r /\ reader[q].proof = reader[r].proof
    /\ reader[q].pc = "granted" /\ reader[r].pc = "granted"

\* docs/CHAIN_ACCESS.md:124, "its (public key, nonce) pair has not been spent in
\* the last 120 seconds": a proof that was granted is not granted again before
\* two windows have passed on the server's clock since the header that spent it
\* was verified, in whatever order requests are verified, read their bodies and
\* prune the cache, and however the clock is set.  That is all the code ensures:
\* WorksOnce is false, and FreshWorksOnce says what is left of it.
GrantedOnce ==
    \A q, r \in Requests : Shared(q, r) =>
        \/ reader[r].read >= reader[q].at + 2 * Window
        \/ reader[q].read >= reader[r].at + 2 * Window

\* What GrantedOnce means for a proof: of the requests that come to their first
\* private read before the last second of its window, one is granted.  The others
\* are excepted: a proof dated a full window ahead is fresh again in the second
\* its entry expires, and a request may reach its first read at any time later.
FreshWorksOnce ==
    \A q, r \in Requests : Shared(q, r) =>
        \E a \in {q, r} : reader[a].read >= signedAt[reader[a].proof] + Window

\* read_auth.rs:523, "Remembers recently used (key, nonce) pairs so a proof works
\* once": no two requests are ever granted by the same proof.  The code does not
\* ensure it, and no run checks it: a proof with the date Window, used at 0, is
\* granted again at 2 * Window.
WorksOnce == \A q, r \in Requests : ~ Shared(q, r)

=============================================================================
