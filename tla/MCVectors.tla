------------------------------ MODULE MCVectors ------------------------------
(***************************************************************************)
(* The embedding pipeline, the implicit edges and the bearer tokens, for   *)
(* TLC.  They share no state (EdgeOverlay has its own view of the vectors  *)
(* that arrive), so a behaviour follows one of them while the others stay  *)
(* in their initial states.                                                *)
(***************************************************************************)
EXTENDS EmbedPipeline, MCEdges, MCTokens

VARIABLE half

bothVars == <<embedVars, edgeVars, tokenVars, half>>

BothInit ==
    EmbedInit /\ EdgeInit /\ TokenInit /\ half \in {"vectors", "edges", "tokens"}

BothNext ==
    \/ half = "vectors" /\ EmbedNext /\ UNCHANGED <<edgeVars, tokenVars, half>>
    \/ half = "edges" /\ EdgeNext /\ UNCHANGED <<embedVars, tokenVars, half>>
    \/ half = "tokens" /\ TokenNext /\ UNCHANGED <<embedVars, edgeVars, half>>

\* EmbedFairness and EdgeFairness, of the part that is followed.
BothFairness ==
    /\ WF_tickets(half = "vectors" /\ TicketMoves)
    /\ WF_embedVars(half = "vectors" /\ (RunRepair \/ RunRebuild \/ ReleaseGuard))
    /\ WF_embedVars(half = "vectors" /\ PollIdle)
    /\ WF_scan(half = "edges" /\ ScanMoves)

BothSpec == BothInit /\ [][BothNext]_bothVars /\ BothFairness

=============================================================================
