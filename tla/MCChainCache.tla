---------------------------- MODULE MCChainCache ----------------------------
(* Small instances of ChainCache for TLC: which calls may be made. *)
EXTENDS ChainCache

CONSTANTS a, b, c, r1, r2, r3

Call(op, k) == [op |-> op, key |-> k, from |-> None]
BranchTo(k, from) == [op |-> "branch", key |-> k, from |-> from]
MergeInto(k, from) == [op |-> "merge", key |-> k, from |-> from]

\* Two appends, of which one may use chain b, and a third call, which may
\* append too, or branch from a, or delete, merge or open b.
OthersMeddle ==
    [r \in Requests |->
       CASE r = r1 -> {Call("append", a)}
         [] r = r2 -> {Call("append", a), Call("append", b)}
         [] OTHER  -> {Call("append", a), Call("open", b), Call("bootstrap", b),
                       Call("delete", b), BranchTo(c, a), MergeInto(a, b)}]

\* Calls on b while it is branched from a.
BranchCalls ==
    [r \in Requests |->
       IF r = r1 THEN {BranchTo(b, a)} ELSE {Call("append", b), BranchTo(b, a)}]

=============================================================================
