------------------------------- MODULE MCEdges -------------------------------
(* Small instances of EdgeOverlay for TLC. *)
EXTENDS EdgeOverlay, TLC

\* No two thoughts are equally near to a third; some are not near at all.
MCCloseness == [i \in Ids |-> [j \in Ids |->
    IF i = j \/ (7 * i * j) % 11 < 3 THEN 0 ELSE (7 * i * j) % 11]]

===============================================================================
