------------------------------ MODULE TokenStore ------------------------------
(***************************************************************************)
(* bearer-tokens.json and the BearerTokenStore values over it (auth.rs).   *)
(*                                                                         *)
(* The server keeps one store for as long as it runs.  The dashboard and   *)
(* the command line make a new one for every call, so only the server's    *)
(* has a cache worth having (the records it read last, good while the      *)
(* file's time stamp stays the same) and a buffer of usage times not       *)
(* written yet.  Each store has a lock of its own; two stores share only   *)
(* the file and the name of the temporary file.  A call is followed from   *)
(* one access of the file system to the next, and every write of a file    *)
(* has a time stamp of its own.                                            *)
(***************************************************************************)
EXTENDS Naturals

CONSTANTS
    Server,        \* the store that lasts
    Operators,     \* the calls of operators that can be open at once
    Tokens,        \* the tokens that may be issued
    AliasOf,       \* the alias each is issued under
    Serial,        \* whether the calls of different stores never overlap
    None,
    MaxCalls,      \* bound: the calls made
    MaxTokenFaults \* bound: failed file operations and killed processes

ASSUME StoreAssumption == Server \notin Operators /\ Serial \in BOOLEAN

VARIABLES
    tokenFile,                 \* bearer-tokens.json: None or [recs, whole, by, stamp]
    tmp,                       \* bearer-tokens.json.tmp, the same
    cached,                    \* CachedBearerRecords of the server's store
    unwritten,                 \* LastUsedState::pending of it: the aliases of unwritten uses
    request,                   \* the call each store is in
    issued,                    \* history: the tokens generated so far
    dead,                      \* history: the tokens whose revocation or deletion returned Ok
    erased,                    \* history: the tokens that were in the file and are not any more
    usedNow,                   \* history: the tokens accepted since the server started
    stamps, calls, tokenFaults \* counters

tokenVars == <<tokenFile, tmp, cached, unwritten, request, issued, dead, erased, usedNow,
               stamps, calls, tokenFaults>>
files == <<tokenFile, tmp, stamps>>
server == <<cached, unwritten, usedNow>>
tokenBounds == <<calls, tokenFaults>>
tokenHistory == <<issued, dead, erased>>

Stores == {Server} \cup Operators
Rec == [token : Tokens, revoked : BOOLEAN, used : BOOLEAN]
File == [recs : SUBSET Rec, whole : BOOLEAN, by : Stores \cup {None}, stamp : Nat]
Cache == [stamp : Nat \cup {None}, recs : SUBSET Rec]
ASSUME NoneAssumption ==
    None \notin Stores /\ None \notin Nat /\ None \notin File /\ None \notin Cache

NoCall == [pc |-> "idle", op |-> None, token |-> None, recs |-> {},
           granted |-> FALSE, late |-> FALSE]

TokenInit ==
    /\ tokenFile = None /\ tmp = None
    /\ cached = None /\ unwritten = {}
    /\ request = [s \in Stores |-> NoCall]
    /\ issued = {} /\ dead = {} /\ erased = {} /\ usedNow = {}
    /\ stamps = 0 /\ calls = 0 /\ tokenFaults = 0

Stamp(f) == IF f = None THEN None ELSE f.stamp
Recs(f) == IF f = None THEN {} ELSE f.recs
Listed(f) == {r.token : r \in Recs(f)}
To(s, new) == request' = [request EXCEPT ![s] = new]
On(s, pc) == request[s].pc = pc
Goto(s, pc) == To(s, [request[s] EXCEPT !.pc = pc])

\* Variant: the records are saved as they were loaded.
NotOverlaid(s, recs) == recs

\* overlay_last_used.
Overlaid(s, recs) ==
    {[r EXCEPT !.used = @ \/ (s = Server /\ AliasOf[r.token] \in unwritten)] : r \in recs}

-----------------------------------------------------------------------------
(* A call, under the lock of its store.  The server authorizes requests    *)
(* and flushes usage times; operators create, revoke and delete.           *)

BeginTokenCall(s) ==
    /\ On(s, "idle") /\ calls < MaxCalls /\ calls' = calls + 1
    /\ Serial => \A other \in Stores : On(other, "idle")
    /\ \E t \in Tokens, op \in {"authorize", "flush", "create", "revoke", "delete"} :
         /\ s = Server <=> op \in {"authorize", "flush"}
         /\ op = "create" <=> t \notin issued
         /\ op = "flush" => unwritten # {}
         /\ issued' = issued \cup {t}
         /\ To(s, [NoCall EXCEPT !.pc = "stat", !.op = op, !.token = t,
                                 !.late = t \in dead])
    /\ UNCHANGED <<files, server, dead, erased, tokenFaults>>

\* authorize_matching: the token is unknown, revoked or outside its scope; or
\* note_use buffers the use and saves what was loaded if that is due.
Authorize(s, recs) ==
    \/ To(s, NoCall) /\ UNCHANGED <<unwritten, usedNow>>
    \/ /\ \E r \in recs : r.token = request[s].token /\ ~ r.revoked
       /\ unwritten' = unwritten \cup {AliasOf[request[s].token]}
       /\ usedNow' = usedNow \cup {request[s].token}
       /\ \E next \in {"unlink", "answer"} :
            To(s, [request[s] EXCEPT !.pc = next, !.recs = recs, !.granted = TRUE])

\* create, revoke, delete and flush_last_used: the records to save.
Edit(s, recs) ==
    LET t == request[s].token
        named == {r \in recs : AliasOf[r.token] = AliasOf[t]}
        refused == CASE request[s].op = "create" -> named # {}
                     [] request[s].op = "flush" -> FALSE
                     [] OTHER -> named = {}
        edited == CASE request[s].op = "create" ->
                         recs \cup {[token |-> t, revoked |-> FALSE, used |-> FALSE]}
                    [] request[s].op = "revoke" ->
                         (recs \ named) \cup {[r EXCEPT !.revoked = TRUE] : r \in named}
                    [] request[s].op = "delete" -> recs \ named
                    [] OTHER -> recs
    IN /\ To(s, IF refused THEN NoCall
                           ELSE [request[s] EXCEPT !.pc = "unlink", !.recs = edited])
       /\ UNCHANGED <<unwritten, usedNow>>

\* What a call does with the records it loaded.
Decide(s, recs) == IF request[s].op = "authorize" THEN Authorize(s, recs) ELSE Edit(s, recs)

\* Variant: the cache is trusted without a look at the time stamp.
StatTrusting(s) ==
    /\ On(s, "stat")
    /\ IF s = Server /\ cached # None
         THEN Decide(s, cached.recs)
         ELSE Goto(s, "read") /\ UNCHANGED <<unwritten, usedNow>>
    /\ UNCHANGED <<files, cached, tokenHistory, tokenBounds>>

\* load_records: the cache answers while the time stamp is the one it has.
StatFile(s) ==
    /\ On(s, "stat")
    /\ IF s = Server /\ cached # None /\ cached.stamp = Stamp(tokenFile)
         THEN Decide(s, cached.recs)
         ELSE Goto(s, "read") /\ UNCHANGED <<unwritten, usedNow>>
    /\ UNCHANGED <<files, cached, tokenHistory, tokenBounds>>

\* A file that is cut off does not parse, and the call fails.
ReadFile(s) ==
    /\ On(s, "read")
    /\ To(s, IF tokenFile # None /\ ~ tokenFile.whole THEN NoCall
             ELSE [request[s] EXCEPT !.pc = "restat", !.recs = Recs(tokenFile)])
    /\ UNCHANGED <<files, server, tokenHistory, tokenBounds>>

\* store_cache asks for the time stamp again, after the read.
Restat(s) ==
    /\ On(s, "restat")
    /\ cached' = IF s = Server THEN [stamp |-> Stamp(tokenFile), recs |-> request[s].recs]
                               ELSE cached
    /\ Decide(s, request[s].recs)
    /\ UNCHANGED <<files, tokenHistory, tokenBounds>>

-----------------------------------------------------------------------------
(* save_records and write_private_file.                                    *)

UnlinkTmp(s) ==
    /\ On(s, "unlink")
    /\ tmp' = None
    /\ Goto(s, "open")
    /\ UNCHANGED <<tokenFile, stamps, server, tokenHistory, tokenBounds>>

\* A call that fails: an authorization was granted all the same.
Failed(s) == To(s, IF request[s].granted THEN [request[s] EXCEPT !.pc = "answer"] ELSE NoCall)

\* create_new: another store may have made the file in the meantime.
OpenTmp(s) ==
    /\ On(s, "open")
    /\ IF tmp # None
         THEN Failed(s) /\ UNCHANGED <<tmp, stamps>>
         ELSE /\ stamps' = stamps + 1
              /\ tmp' = [recs |-> Overlaid(s, request[s].recs), whole |-> FALSE, by |-> s,
                         stamp |-> stamps + 1]
              /\ Goto(s, "write")
    /\ UNCHANGED <<tokenFile, server, tokenHistory, tokenBounds>>

\* The content goes to the file that was opened, wherever it is by now.
WriteTmp(s) ==
    LET mine(f) == f # None /\ f.by = s
        full(f) == [f EXCEPT !.whole = TRUE, !.by = None, !.stamp = stamps + 1]
    IN /\ On(s, "write")
       /\ stamps' = stamps + 1
       /\ tmp' = IF mine(tmp) THEN full(tmp) ELSE tmp
       /\ tokenFile' = IF mine(tokenFile) THEN full(tokenFile) ELSE tokenFile
       /\ Goto(s, "rename")
       /\ UNCHANGED <<server, tokenHistory, tokenBounds>>

RenameTmp(s) ==
    /\ On(s, "rename")
    /\ IF tmp = None
         THEN Failed(s) /\ UNCHANGED <<tokenFile, tmp, erased>>
         ELSE /\ tokenFile' = tmp /\ tmp' = None
              /\ erased' = erased \cup (Listed(tokenFile) \ Listed(tmp))
              /\ Goto(s, "recache")
    /\ UNCHANGED <<stamps, server, issued, dead, tokenBounds>>

Acknowledge(s) ==
    /\ dead' = IF request[s].op \in {"revoke", "delete"}
                 THEN dead \cup {request[s].token} ELSE dead
    /\ To(s, IF request[s].granted THEN [request[s] EXCEPT !.pc = "answer"] ELSE NoCall)

\* store_cache with what was written; the buffered uses are in it.
Recache(s) ==
    /\ On(s, "recache")
    /\ IF s = Server
         THEN /\ cached' = [stamp |-> Stamp(tokenFile), recs |-> Overlaid(s, request[s].recs)]
              /\ unwritten' = {}
         ELSE UNCHANGED <<cached, unwritten>>
    /\ Acknowledge(s)
    /\ UNCHANGED <<files, usedNow, issued, erased, tokenBounds>>

AnswerYes(s) ==
    /\ On(s, "answer")
    /\ To(s, NoCall)
    /\ UNCHANGED <<files, server, tokenHistory, tokenBounds>>

-----------------------------------------------------------------------------
(* A file operation fails, or a process is killed. *)

StoreFault(s) ==
    /\ tokenFaults < MaxTokenFaults /\ tokenFaults' = tokenFaults + 1
    /\ request[s].pc \in {"read", "open", "write", "rename"}
    /\ Failed(s)
    /\ UNCHANGED <<files, server, tokenHistory, calls>>

Killed(s) ==
    /\ tokenFaults < MaxTokenFaults /\ tokenFaults' = tokenFaults + 1
    /\ ~ On(s, "idle")
    /\ To(s, NoCall)
    /\ IF s = Server THEN cached' = None /\ unwritten' = {} /\ usedNow' = {}
                     ELSE UNCHANGED server
    /\ UNCHANGED <<files, tokenHistory, calls>>

TokenNext ==
    \E s \in Stores :
      \/ BeginTokenCall(s) \/ StatFile(s) \/ ReadFile(s) \/ Restat(s)
      \/ UnlinkTmp(s) \/ OpenTmp(s) \/ WriteTmp(s) \/ RenameTmp(s) \/ Recache(s)
      \/ AnswerYes(s) \/ StoreFault(s) \/ Killed(s)

TokenSpec == TokenInit /\ [][TokenNext]_tokenVars

-----------------------------------------------------------------------------
(* Properties. *)

\* auth.rs:545, "subsequent authorization attempts fail": no request that
\* came after a revocation or deletion had returned is accepted.
RevocationHolds == \A s \in Stores : ~ (request[s].granted /\ request[s].late)

\* auth.rs:773, "a create/revoke/delete never loses them": a use the running
\* server accepted is in the file or still in the buffer, until the token is
\* deleted.
UsesKept ==
    \A t \in usedNow :
        \/ AliasOf[t] \in unwritten
        \/ \A r \in Recs(tokenFile) : r.token = t => r.used

\* The registry as TokenLedger has it, as long as calls do not overlap: the
\* cache, the buffer and the temporary file do not show.
Standing(t) ==
    IF t \in Listed(tokenFile)
      THEN IF \E r \in tokenFile.recs : r.token = t /\ ~ r.revoked THEN "live" ELSE "revoked"
      ELSE IF t \in erased THEN "gone" ELSE "unknown"

Ledger == INSTANCE TokenLedger WITH
    Callers <- Stores,
    status <- [t \in Tokens |-> Standing(t)],
    accepted <- {<<s, request[s].token>> : s \in {x \in Stores : request[x].granted}}

\* A token is issued once, revoked or deleted for good, and accepted only while
\* it is live, through every fault and restart between the steps.
ImplementsLedger == Ledger!LedgerSpec

=============================================================================
