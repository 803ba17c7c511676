------------------------------ MODULE MCAppends ------------------------------
(***************************************************************************)
(* The write of a thought to its file, the delivery of its events and the  *)
(* answers of the open chain, for TLC.  A delivery and a query start from  *)
(* thoughts that were appended and tell the writer nothing, so a behaviour *)
(* follows one of the three while the others stay in their initial state.  *)
(***************************************************************************)
EXTENDS GroupCommit, WebhookDelivery, MCQueries

VARIABLE half

appendVars == <<vars, deliveryVars, queryVars, half>>

AppendsInit ==
    Init /\ DeliveryInit /\ QueriesInit /\ half \in {"commit", "delivery", "queries"}

AppendsNext ==
    \/ half = "commit" /\ Next /\ UNCHANGED <<deliveryVars, queryVars, half>>
    \/ half = "delivery" /\ DeliveryNext /\ UNCHANGED <<vars, queryVars, half>>
    \/ half = "queries" /\ QueriesNext /\ ReadersAlone /\ UNCHANGED <<vars, deliveryVars, half>>

\* The fairness of FairSpec and DeliveryFairness, of the part that is followed.
AppendsFairness ==
    /\ WF_vars(half = "commit" /\ Caller)
    /\ WF_vars(half = "commit" /\ WriterWorks)
    /\ \A j \in DeliveryJobs :
         /\ WF_deliveryVars(half = "delivery" /\ Post(j))
         /\ WF_deliveryVars(half = "delivery" /\ Deliver(j))
    /\ WF_deliveryVars(half = "delivery" /\ (Receive \/ \E j \in DeliveryJobs : Dispatch(j)))

AppendsSpec == AppendsInit /\ [][AppendsNext]_appendVars /\ AppendsFairness

=============================================================================
