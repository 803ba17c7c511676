----------------------------- MODULE TokenLedger -----------------------------
(***************************************************************************)
(* What the bearer token registry promises (auth.rs): a token is issued    *)
(* once, revoking or deleting it is final, and only a live token is        *)
(* accepted.                                                               *)
(***************************************************************************)
CONSTANTS Tokens, Callers

VARIABLES
    status,   \* the standing of each token
    accepted  \* the calls that are being answered "yes": <<caller, token>>

ledgerVars == <<status, accepted>>

LedgerInit == status = [t \in Tokens |-> "unknown"] /\ accepted = {}

\* create, revoke, delete.
Change(t, from, to) ==
    /\ status[t] \in from
    /\ status' = [status EXCEPT ![t] = to]
    /\ UNCHANGED accepted

\* authenticate and the authorize_* family.
Accept(c, t) ==
    /\ status[t] = "live"
    /\ accepted' = accepted \cup {<<c, t>>}
    /\ UNCHANGED status

\* The answer is given.
Answer == accepted' \subseteq accepted /\ UNCHANGED status

LedgerNext ==
    \/ \E t \in Tokens :
         \/ Change(t, {"unknown"}, "live")
         \/ Change(t, {"live"}, "revoked")
         \/ Change(t, {"live", "revoked"}, "gone")
         \/ \E c \in Callers : Accept(c, t)
    \/ Answer

LedgerSpec == LedgerInit /\ [][LedgerNext]_ledgerVars

=============================================================================
