------------------------------ MODULE AppendLog ------------------------------
(***************************************************************************)
(* What the storage of a chain promises its users: a log of records that   *)
(* grows at its end, one position at a time, and of which a prefix, once   *)
(* promised, is never lost or changed.  What is not yet promised may be    *)
(* lost, but only from the end.                                            *)
(***************************************************************************)
EXTENDS Naturals, Sequences

CONSTANTS Record

VARIABLES
    log,      \* the records on their way to the file, and in it
    promised  \* the records whose durable append was acknowledged

vars == <<log, promised>>

Init == log = <<>> /\ promised = <<>>

Accept ==
    /\ \E r \in Record : r.index = Len(log) + 1 /\ log' = Append(log, r)
    /\ UNCHANGED promised

Promise ==
    /\ \E n \in Len(promised)..Len(log) : promised' = SubSeq(log, 1, n)
    /\ UNCHANGED log

Lose ==
    /\ \E n \in 0..Len(log) : log' = SubSeq(log, 1, n)
    /\ Len(promised) <= Len(log') /\ promised = SubSeq(log', 1, Len(promised))
    /\ UNCHANGED promised

Next == Accept \/ Promise \/ Lose

Spec == Init /\ [][Next]_vars

=============================================================================
