------------------------------ MODULE MCManager ------------------------------
(***************************************************************************)
(* Three parts of the system with no state in common, for TLC: the         *)
(* workers that migrate chains in the background, which version of a fact  *)
(* is current, and the registrations of webhooks.  A behaviour follows one *)
(* of them while the others stay in one initial state.                     *)
(***************************************************************************)
EXTENDS MigrationManager, Lineage, WebhookRegistry

VARIABLE half

allVars == <<managerVars, lineageVars, hookVars, half>>

\* Which chain is which makes no difference.
InOrder ==
    LET worked == {c \in Chains : Assessment(c) = "queue"}
        first == CHOOSE c \in Chains : TRUE
    IN worked \in {{}, {first}, Chains}

AllInit ==
    /\ ManagerInit /\ LineageInit /\ HooksInit
    /\ half \in {"manager", "lineage", "webhooks"}
    /\ IF half = "manager" THEN InOrder
       ELSE \A c \in Chains : file[c] = "current" /\ journal[c] = "none"

\* It makes no difference which writer is the first, or which writes a version
\* where none is private, and a link that ends before it is made never holds.
LinksMatter ==
    LET first == CHOOSE w \in Writers : TRUE
        last == Len(versions) = MaxVersions /\ \A id \in Versions : ~ versions[id].private
    IN \A id \in Versions :
         /\ id = 1 \/ last => versions[id].who = first
         /\ \A l \in LinksOf(id) : versions[id].at < l.until

\* Two of a command, a failed run and a stop, at most.
TwoEvents == commands + faults + (IF shutdown = "off" THEN 0 ELSE 1) <= 2

\* Nor does it make one which request is the first of two, or its registration.
FirstComesFirst ==
    LET c == CHOOSE k \in Callers : TRUE
        i == CHOOSE j \in Ids : TRUE
    IN /\ \A k \in Callers : caller[k] = caller[c] /\ k # c =>
            caller'[k] = caller[k] \/ caller'[c] # caller[c]
       /\ used' # {} => i \in used'

\* A write of the registry fails or the server stops, not both.
OneFailure == hookFaults + hookCrashes < 2

AllNext ==
    \/ half = "manager" /\ ManagerNext /\ TwoEvents' /\ UNCHANGED <<lineageVars, hookVars, half>>
    \/ half = "lineage" /\ LineageNext /\ LinksMatter' /\ UNCHANGED <<managerVars, hookVars, half>>
    \/ half = "webhooks" /\ HooksNext /\ FirstComesFirst /\ OneFailure' /\ UNCHANGED <<managerVars, lineageVars, half>>

\* The fairness of ManagerFairSpec, of the part that is followed.
AllFairness ==
    /\ \A w \in Workers : WF_managerVars(half = "manager" /\ WorkerStep(w))
    /\ \A o \in Operators : WF_managerVars(half = "manager" /\ OperatorStep(o))
    /\ WF_managerVars(half = "manager" /\ WakeAll)

AllSpec == AllInit /\ [][AllNext]_allVars /\ AllFairness

\* Links that hold for good, and links that end at time 2.
MCWindows == {[from |-> 0, until |-> 9], [from |-> 0, until |-> 2]}
\* A policy allows one of the writers.
OneTrusted == {{w} : w \in Writers}

===============================================================================
