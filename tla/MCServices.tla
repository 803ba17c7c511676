----------------------------- MODULE MCServices -----------------------------
(***************************************************************************)
(* Parts of the system with no state in common, for TLC: what a chain      *)
(* accepts and shows, the one use a signed read has, the two halves of     *)
(* server_body.rs (the budget all requests share, the clock of one body),  *)
(* and three kinds of file (the skill registry, a vector sidecar with its  *)
(* log, the archives of chains).  A behaviour follows one of them while    *)
(* the others stay in one initial state.                                   *)
(***************************************************************************)
EXTENDS ChainAccess, NonceCache, BodyBudget, BodyMeter, SkillRegistry, SidecarWal, BackupRestore

CONSTANTS p1, p2, q1

VARIABLE half

requestVars == <<vars, nonceVars, budgetVars, meterVars>>
fileVars == <<skillVars, sidecarVars, backupVars>>
serviceVars == <<requestVars, fileVars, half>>

\* Two signatures of one key and one of another.
MCSignerOf == [p \in {p1, p2, q1} |-> IF p = q1 THEN "q" ELSE "p"]

\* The window of the first proof is all of the time there is; those of the others
\* are the same or begin in the middle of it.
WindowsMeet == signedAt[p1] = Window /\ signedAt[p2] = signedAt[q1] /\ signedAt[q1] \in {Window, MaxNow}

ServicesInit ==
    /\ Init /\ NonceInit /\ BudgetInit /\ MeterInit
    /\ SkillsInit /\ SidecarInit /\ BackupInit
    /\ half \in {"access", "nonces", "budget", "clock", "skills", "sidecar", "backups"}
    /\ IF half = "nonces" THEN WindowsMeet ELSE \A p \in Proofs : signedAt[p] = 0
    /\ half # "backups" => ~ governed

\* Which request is which makes no difference: they come in the order of their
\* numbers.
InOrder == \A q, r \in Requests :
    q < r /\ reader[q].pc = "new" => reader[r].pc = "new"

\* Only one of the bodies is ever of the second peer, and only the other is ever
\* of none.
SecondIsOfOne ==
    LET other == CHOOSE r \in Bodies : TRUE IN
    /\ peer[other] \in {NoPeer, CHOOSE p \in Peers : TRUE}
    /\ \A r \in Bodies \ {other} : pc[r] # "none" => peer[r] # NoPeer

RequestsNext ==
    \/ half = "access" /\ Next /\ UNCHANGED <<nonceVars, budgetVars, meterVars>>
    \/ half = "nonces" /\ NonceNext /\ InOrder' /\ UNCHANGED <<vars, budgetVars, meterVars>>
    \/ half = "budget" /\ BudgetNext /\ SecondIsOfOne' /\ UNCHANGED <<vars, nonceVars, meterVars>>
    \/ half = "clock" /\ MeterNext /\ UNCHANGED <<vars, nonceVars, budgetVars>>

\* Nor does it which skill or which text is which.
FirstIsOne == born = 0 /\ born' = 1 =>
    \E h \in Holders :
        /\ mem'[h][1] # NoEntry
        /\ \A i \in DOMAIN mem'[h][1].versions :
              mem'[h][1].versions[i].text = CHOOSE c \in Contents : TRUE

\* A third file is written only where there is one skill, and a holder crashes
\* or a write of the file fails, not both.
ThirdIsOfOne == (writes' < 3 \/ born' < 2) /\ skillCrashes' + skillFaults' < 2

\* A load tells nobody anything, and LoadIsComplete is about loads before any
\* rebuild: there are no others.
LoadsBeforeRebuilds == generation' > 0 => loader' = NoReader
\* There is a crash or a fault, not both.
OneFailure == crashes + faults < 2

FilesNext ==
    \/ half = "skills" /\ SkillsNext /\ FirstIsOne /\ ThirdIsOfOne /\ UNCHANGED <<sidecarVars, backupVars>>
    \/ half = "sidecar" /\ SidecarNext /\ LoadsBeforeRebuilds /\ OneFailure' /\ UNCHANGED <<skillVars, backupVars>>
    \/ half = "backups" /\ BackupNext /\ UNCHANGED <<skillVars, sidecarVars>>

ServicesNext ==
    \/ RequestsNext /\ UNCHANGED <<fileVars, half>>
    \/ FilesNext /\ UNCHANGED <<requestVars, half>>

ServicesSpec == ServicesInit /\ [][ServicesNext]_serviceVars

\* Pools smaller than what the requests can ask for together, and shares
\* smaller than the pools.
MCPool == [c \in Classes |-> 4]
MCShare == [c \in Classes |-> IF c = "anonymous" THEN 2 ELSE 3]

===============================================================================
