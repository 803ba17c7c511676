------------------------------ MODULE BodyBudget ------------------------------
(***************************************************************************)
(* The budget of request bodies in server_body.rs: a pool of permits per   *)
(* class of request, a map that counts what each peer has charged, and the *)
(* reservation through which one request charges both and gives both back. *)
(*                                                                         *)
(* The pools are semaphores and the map has a mutex of its own, so the     *)
(* charge of a body is two steps, and so are its return and its refusal;   *)
(* the steps of concurrent requests interleave.  Amounts are in units of   *)
(* the budget.  A chunk that needs no further unit changes nothing and is  *)
(* left out.                                                               *)
(***************************************************************************)
EXTENDS Naturals, FiniteSets, Functions

CONSTANTS
    Bodies,        \* the requests that can be in flight at once
    Peers,         \* the addresses they come from
    NoPeer,        \* a request whose address is not known
    Pool,          \* units of each class's pool
    Share,         \* units of it that one peer may hold
    BodiesPerPeer, \* LARGE_BODIES_PER_PEER
    MaxUnits       \* bound: units of one body

Classes == {"large", "small", "anonymous"}

ASSUME FiniteBodies == IsFiniteSet(Bodies)
ASSUME NoPeerAssumption == NoPeer \notin Peers
ASSUME PoolAssumption == Pool \in [Classes -> Nat] /\ Share \in [Classes -> Nat]
ASSUME BodiesAssumption == BodiesPerPeer \in Nat \ {0} /\ MaxUnits \in Nat \ {0}

VARIABLES
    permits,  \* the semaphores: units of each pool not acquired
    peers,    \* BodyBudget::peers: a map of the peers that have an entry
    pc,       \* what each request does next
    class,    \* its Reservation: class, ...
    peer,     \* ... peer, ...
    held,     \* ... held_units, ...
    want,     \* ... and the units the call in progress is to hold or return
    declared, \* was the whole body charged when it arrived?
    bodies    \* history: the peers' large reservations that were not dropped

request == <<class, peer, declared>>
budgetVars == <<permits, peers, pc, class, peer, held, want, declared, bodies>>

\* PeerUse: units charged per class and large bodies in flight.
PeerUse == [units: [Classes -> Nat], large_bodies: Nat]
Unused == [units |-> [c \in Classes |-> 0], large_bodies |-> 0]

UseOf(p) == IF p \in DOMAIN peers THEN peers[p] ELSE Unused

\* Variant: an entry is dropped as soon as its small counter is zero.
SetUseEarly(p, u) ==
    peers' = [q \in (DOMAIN peers \cup {p}) \ (IF u.units["small"] = 0 THEN {p} ELSE {}) |->
                IF q = p THEN u ELSE peers[q]]

\* The entry of p becomes u; prune drops an entry that counts nothing.
SetUse(p, u) ==
    peers' = [q \in (DOMAIN peers \cup {p}) \ (IF u = Unused THEN {p} ELSE {}) |->
                IF q = p THEN u ELSE peers[q]]

SaturatingSub(m, n) == IF m < n THEN 0 ELSE m - n

\* charge_peer: a request without an address is not counted.
Fits(r, extra) ==
    peer[r] # NoPeer => UseOf(peer[r]).units[class[r]] + extra <= Share[class[r]]
Charge(r, extra) ==
    IF peer[r] = NoPeer
    THEN UNCHANGED peers
    ELSE SetUse(peer[r], [UseOf(peer[r]) EXCEPT !.units[class[r]] = @ + extra])
\* uncharge_peer
Uncharge(r, units) ==
    IF peer[r] = NoPeer \/ peer[r] \notin DOMAIN peers
    THEN UNCHANGED peers
    ELSE SetUse(peer[r],
           [peers[peer[r]] EXCEPT !.units[class[r]] = SaturatingSub(@, units)])

RequestGoes(r, label) == pc' = [pc EXCEPT ![r] = label]

BudgetInit ==
    /\ permits = Pool /\ peers = [p \in {} |-> Unused]
    /\ pc = [r \in Bodies |-> "none"]
    /\ class = [r \in Bodies |-> "small"]
    /\ peer = [r \in Bodies |-> NoPeer]
    /\ held = [r \in Bodies |-> 0] /\ want = [r \in Bodies |-> 0]
    /\ declared = [r \in Bodies |-> FALSE]
    /\ bodies = [p \in Peers |-> 0]

\* reservation() for a small or an anonymous request counts nothing.
Arrive(r) ==
    /\ pc[r] = "none"
    /\ \E c \in Classes \ {"large"}, p \in Peers \cup {NoPeer} :
         /\ class' = [class EXCEPT ![r] = c]
         /\ peer' = [peer EXCEPT ![r] = p]
    /\ declared' = [declared EXCEPT ![r] = FALSE]
    /\ RequestGoes(r, "read")
    /\ UNCHANGED <<permits, peers, held, want, bodies>>

\* ... for a large one it counts the body, and the declared length is charged
\* before the body is read.
ArriveLarge(r) ==
    /\ pc[r] = "none"
    /\ \E p \in Peers \cup {NoPeer}, length \in 0..MaxUnits :
         /\ p # NoPeer => UseOf(p).large_bodies < BodiesPerPeer
         /\ peer' = [peer EXCEPT ![r] = p]
         /\ want' = [want EXCEPT ![r] = length]
         /\ declared' = [declared EXCEPT ![r] = length > 0]
         /\ RequestGoes(r, IF length > 0 THEN "charge" ELSE "read")
         /\ IF p = NoPeer
              THEN UNCHANGED <<peers, bodies>>
              ELSE /\ SetUse(p, [UseOf(p) EXCEPT !.large_bodies = @ + 1])
                   /\ bodies' = [bodies EXCEPT ![p] = @ + 1]
    /\ class' = [class EXCEPT ![r] = "large"]
    /\ UNCHANGED <<permits, held>>

\* MeteredBody::poll_frame: more arrives than has been charged.
Chunk(r) ==
    /\ pc[r] = "read" /\ ~declared[r]
    /\ \E n \in held[r] + 1 .. MaxUnits : want' = [want EXCEPT ![r] = n]
    /\ RequestGoes(r, "charge")
    /\ UNCHANGED <<permits, peers, request, held, bodies>>

Extra(r) == want[r] - held[r]

\* ensure charges the peer first; ...
ChargePeer(r) ==
    /\ pc[r] = "charge"
    /\ IF Fits(r, Extra(r))
         THEN Charge(r, Extra(r)) /\ RequestGoes(r, "acquire")
         ELSE UNCHANGED peers /\ RequestGoes(r, "failed")
    /\ UNCHANGED <<permits, request, held, want, bodies>>

\* ... then the pool; ...
Acquire(r) ==
    /\ pc[r] = "acquire"
    /\ IF Extra(r) <= permits[class[r]]
         THEN /\ permits' = [permits EXCEPT ![class[r]] = @ - Extra(r)]
              /\ held' = [held EXCEPT ![r] = want[r]]
              /\ RequestGoes(r, "read")
         ELSE /\ UNCHANGED <<permits, held>>
              /\ RequestGoes(r, "undo")
    /\ UNCHANGED <<peers, request, want, bodies>>

\* ... and takes the charge back from the peer when the pool has too little.
Undo(r) ==
    /\ pc[r] = "undo"
    /\ Uncharge(r, Extra(r))
    /\ RequestGoes(r, "failed")
    /\ UNCHANGED <<permits, request, held, want, bodies>>

\* Variant: the end of the body leaves held_units as they are.
EndOfBodyLoads(r) ==
    /\ pc[r] = "read"
    /\ want' = [want EXCEPT ![r] = held[r]]
    /\ RequestGoes(r, IF held[r] = 0 THEN "answer" ELSE "return")
    /\ UNCHANGED <<permits, peers, request, held, bodies>>

\* release() swaps held_units with zero: at the end of the body, ...
EndOfBody(r) ==
    /\ pc[r] = "read"
    /\ want' = [want EXCEPT ![r] = held[r]]
    /\ held' = [held EXCEPT ![r] = 0]
    /\ RequestGoes(r, IF held[r] = 0 THEN "answer" ELSE "return")
    /\ UNCHANGED <<permits, peers, request, bodies>>

\* ... and when the reservation is dropped: after a refusal, a stall or a
\* broken connection, and after the answer.
Drop(r) ==
    /\ pc[r] \in {"read", "failed", "answer"}
    /\ want' = [want EXCEPT ![r] = held[r]]
    /\ held' = [held EXCEPT ![r] = 0]
    /\ RequestGoes(r, IF held[r] = 0 THEN "leave" ELSE "return_drop")
    /\ UNCHANGED <<permits, peers, request, bodies>>

\* release(), continued: the pool gets its permits back, then the peer.
AddPermits(r) ==
    /\ pc[r] \in {"return", "return_drop"}
    /\ permits' = [permits EXCEPT ![class[r]] = @ + want[r]]
    /\ RequestGoes(r, IF pc[r] = "return" THEN "uncharge" ELSE "uncharge_drop")
    /\ UNCHANGED <<peers, request, held, want, bodies>>

UnchargePeer(r) ==
    /\ pc[r] \in {"uncharge", "uncharge_drop"}
    /\ Uncharge(r, want[r])
    /\ RequestGoes(r, IF pc[r] = "uncharge" THEN "answer" ELSE "leave")
    /\ UNCHANGED <<permits, request, held, want, bodies>>

\* Reservation::drop: a large body is no longer in flight.
Leave(r) ==
    /\ pc[r] = "leave"
    /\ IF class[r] = "large" /\ peer[r] # NoPeer
         THEN /\ bodies' = [bodies EXCEPT ![peer[r]] = @ - 1]
              /\ IF peer[r] \in DOMAIN peers
                   THEN SetUse(peer[r], [peers[peer[r]] EXCEPT
                                           !.large_bodies = SaturatingSub(@, 1)])
                   ELSE UNCHANGED peers
         ELSE UNCHANGED <<peers, bodies>>
    /\ class' = [class EXCEPT ![r] = "small"] /\ peer' = [peer EXCEPT ![r] = NoPeer]
    /\ declared' = [declared EXCEPT ![r] = FALSE]
    /\ want' = [want EXCEPT ![r] = 0]
    /\ RequestGoes(r, "none")
    /\ UNCHANGED <<permits, held>>

Ensure(r) == ChargePeer(r) \/ Acquire(r) \/ Undo(r)
GiveBack(r) == Drop(r) \/ AddPermits(r) \/ UnchargePeer(r) \/ Leave(r)

BudgetNext == \E r \in Bodies :
    Arrive(r) \/ ArriveLarge(r) \/ Chunk(r) \/ Ensure(r) \/ EndOfBody(r) \/ GiveBack(r)

BudgetSpec == BudgetInit /\ [][BudgetNext]_budgetVars

-----------------------------------------------------------------------------
(* What must hold. *)

\* The variables range over the values the code gives them.
BudgetTypeOK ==
    /\ permits \in [Classes -> Nat]
    /\ DOMAIN peers \subseteq Peers /\ \A p \in DOMAIN peers : peers[p] \in PeerUse
    /\ pc \in [Bodies -> {"none", "read", "charge", "acquire", "undo", "failed", "answer",
                            "return", "return_drop", "uncharge", "uncharge_drop", "leave"}]
    /\ class \in [Bodies -> Classes] /\ peer \in [Bodies -> Peers \cup {NoPeer}]
    /\ held \in [Bodies -> 0..MaxUnits] /\ want \in [Bodies -> 0..MaxUnits]
    /\ declared \in [Bodies -> BOOLEAN]
    /\ bodies \in [Peers -> 0..BodiesPerPeer]

\* Units of its pool that a request has acquired and not given back.
Taken == [r \in Bodies |->
    held[r] + (IF pc[r] \in {"return", "return_drop"} THEN want[r] ELSE 0)]

\* Units its peer is charged for on its account.
Charged == [r \in Bodies |->
    held[r] + (IF pc[r] \in {"acquire", "undo"} THEN Extra(r)
               ELSE IF pc[r] \in {"return", "return_drop", "uncharge", "uncharge_drop"}
               THEN want[r] ELSE 0)]

Of(c) == {r \in Bodies : class[r] = c}
From(p) == {r \in Bodies : peer[r] = p}

\* No unit of a pool is ever lost or handed out twice, however charges,
\* refusals and returns of concurrent requests interleave: when nothing is in
\* flight the whole pool is free.
\* And a peer's counters are exactly what its requests in flight have charged, so
\* its share can neither leak away nor be exceeded.
BudgetConserved ==
    /\ \A c \in Classes : permits[c] + SumFunctionOnSet(Taken, Of(c)) = Pool[c]
    /\ \A p \in Peers :
        /\ \A c \in Classes :
             /\ UseOf(p).units[c] = SumFunctionOnSet(Charged, Of(c) \cap From(p))
             /\ UseOf(p).units[c] <= Share[c]
        /\ UseOf(p).large_bodies = bodies[p]

=============================================================================
