------------------------------ MODULE MCHandles ------------------------------
(***************************************************************************)
(* The open chains of the daemon and the migration of a chain's files, for *)
(* TLC.  A chain is served once it is migrated, so the two share no state, *)
(* and a behaviour follows one of them while the other stays in one        *)
(* initial state.                                                          *)
(***************************************************************************)
EXTENDS MCChainCache, MigrationEngine

VARIABLE half

handlesVars == <<cacheVars, engineVars, half>>

HandlesInit ==
    /\ CacheInit /\ EngineInit
    /\ half \in {"cache", "migration"}
    /\ half = "cache" => live = "old" /\ derived = "none"

\* The calls made have chains in common: where r3 uses b, r2 does, and where it
\* does not use a, r1 is not called.
ChainsOf(r) == {req[r].plan.key, req[r].plan.from} \ {None}
CallsMeet ==
    ChainsOf(r3) # {} =>
        /\ ChainsOf(r1) \subseteq ChainsOf(r3)
        /\ ChainsOf(r2) # {} => (b \in ChainsOf(r2) <=> b \in ChainsOf(r3))

HandlesNext ==
    \/ half = "cache" /\ CacheNext /\ CallsMeet' /\ UNCHANGED <<engineVars, half>>
    \/ half = "migration" /\ EngineNext /\ UNCHANGED <<cacheVars, half>>

\* CacheFairness and the fairness of EngineFairSpec, of the part that is followed.
HandlesFairness ==
    /\ WF_cacheVars(half = "cache" /\ (Drops \/ \E r \in Requests : Progress(r)))
    /\ WF_engineVars(half = "migration" /\ Work)
    /\ WF_engineVars(half = "migration" /\ RollBack)
    /\ WF_engineVars(half = "migration" /\ StartRun)

HandlesSpec == HandlesInit /\ [][HandlesNext]_handlesVars /\ HandlesFairness

=============================================================================
