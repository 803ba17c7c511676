--------------------------- MODULE TokenStoreProofs ---------------------------
(***************************************************************************)
(* Proofs about TokenStore, for every set of stores, tokens and aliases:   *)
(* while the calls of different stores do not overlap, the registry is the *)
(* ledger of TokenLedger, a revocation holds and no use is lost.           *)
(***************************************************************************)
EXTENDS TokenStore, TLAPS

(* The inductive invariant. *)

Edits == {"create", "revoke", "delete"}
SavingSteps == {"unlink", "open", "write", "rename"}

TokenTypeOK ==
    /\ tokenFile \in File \cup {None} /\ tmp \in File \cup {None}
    /\ cached \in Cache \cup {None}
    /\ request \in [Stores ->
         [pc : {"idle", "stat", "read", "restat", "recache", "answer"} \cup SavingSteps,
          op : {"authorize", "flush"} \cup Edits \cup {None}, token : Tokens \cup {None},
          recs : SUBSET Rec, granted : BOOLEAN, late : BOOLEAN]]
    /\ issued \subseteq Tokens /\ stamps \in Nat

\* The calls of different stores do not overlap.
Alone == \A s, o \in Stores : On(s, "idle") \/ On(o, "idle") \/ s = o

\* The file is whole, and no alias is in it twice.
Alias(r) == AliasOf[r.token]
Distinct(recs) == \A q, r \in recs : Alias(q) = Alias(r) => q = r
FileSound ==
    /\ tokenFile # None => tokenFile.whole /\ tokenFile.by = None /\ tokenFile.stamp <= stamps
    /\ Distinct(Recs(tokenFile))

\* A cache with the time stamp of the file has what the file has.
CacheSound ==
    cached # None =>
        /\ cached.stamp # None => cached.stamp <= stamps
        /\ cached.stamp = Stamp(tokenFile) => cached.recs = Recs(tokenFile)

\* What a call is going to save, from what the file holds.
Named(t, recs) == {r \in recs : Alias(r) = AliasOf[t]}
Edited(op, t, recs) ==
    CASE op = "create" -> recs \cup {[token |-> t, revoked |-> FALSE, used |-> FALSE]}
      [] op = "revoke" ->
           (recs \ Named(t, recs)) \cup {[r EXCEPT !.revoked = TRUE] : r \in Named(t, recs)}
      [] op = "delete" -> recs \ Named(t, recs)
      [] OTHER -> recs

Working(s) ==
    LET q == request[s]
    IN  /\ q.pc # "idle" => q.token \in issued
        /\ q.pc # "idle" => (s = Server <=> q.op \in {"authorize", "flush"})
        /\ q.granted => q.op = "authorize" /\ q.pc \in SavingSteps \cup {"recache", "answer"}
        /\ q.pc = "answer" => q.granted
        /\ q.op = "create" /\ q.pc \in {"stat", "read", "restat"} \cup SavingSteps =>
             q.token \notin Listed(tokenFile) \cup erased
        /\ q.pc = "restat" => q.recs = Recs(tokenFile)
        /\ q.pc \in SavingSteps =>
             /\ q.recs = Edited(q.op, q.token, Recs(tokenFile))
             /\ q.op = "create" => Named(q.token, Recs(tokenFile)) = {}
        /\ q.pc = "open" => tmp = None
        /\ q.pc \in {"write", "rename"} => tmp # None /\ tmp.recs = Overlaid(s, q.recs)
        /\ q.pc = "write" => tmp.by = s /\ tmp.stamp <= stamps
        /\ q.pc = "rename" =>
             /\ tmp.whole /\ tmp.by = None /\ tmp.stamp <= stamps
             /\ cached # None => cached.stamp # tmp.stamp
        /\ q.pc = "recache" => tokenFile # None /\ tokenFile.recs = Overlaid(s, q.recs)

\* What has happened to the tokens.
Past ==
    /\ Listed(tokenFile) \cup erased \subseteq issued
    /\ Listed(tokenFile) \cap erased = {}
    /\ usedNow \subseteq Listed(tokenFile) \cup erased

TInv ==
    /\ TokenTypeOK /\ Alone /\ FileSound /\ CacheSound
    /\ \A s \in Stores : Working(s)
    /\ Past /\ UsesKept

\* The tokens of a list of records, and those that may be used.
Toks(recs) == {r.token : r \in recs}
Lives(recs) == {r.token : r \in {x \in recs : ~x.revoked}}

\* A token whose revocation or deletion was acknowledged is dead for good.
DeadStays ==
    /\ dead \subseteq issued
    /\ dead \cap Lives(Recs(tokenFile)) = {}
    /\ \A s \in Stores :
         LET q == request[s]
         IN  /\ q.late => q.token \in dead
             /\ q.op = "create" /\ q.pc # "idle" => q.token \notin dead
             /\ q.op \in {"revoke", "delete"} /\ q.pc = "recache" =>
                  q.token \notin Lives(Recs(tokenFile))

-----------------------------------------------------------------------------
(* What saving does to the records. *)

LEMMA SameRec ==
    ASSUME NEW q \in Rec, NEW r \in Rec, q.token = r.token, q.revoked = r.revoked, q.used = r.used
    PROVE  q = r
BY DEF Rec

\* A record with the buffered use.
Over(s, r) == [r EXCEPT !.used = @ \/ (s = Server /\ AliasOf[r.token] \in unwritten)]

LEMMA OverShape ==
    ASSUME NEW s, NEW r \in Rec
    PROVE  /\ Over(s, r) \in Rec /\ Over(s, r).token = r.token /\ Over(s, r).revoked = r.revoked
           /\ Over(s, r).used = (r.used \/ (s = Server /\ AliasOf[r.token] \in unwritten))
BY DEF Over, Rec

LEMMA OverlaidShape ==
    ASSUME NEW s, NEW recs \in SUBSET Rec
    PROVE  /\ Overlaid(s, recs) \in SUBSET Rec
           /\ \A r \in recs : Over(s, r) \in Overlaid(s, recs)
           /\ \A q \in Overlaid(s, recs) : \E r \in recs : q = Over(s, r)
           /\ Distinct(recs) => Distinct(Overlaid(s, recs))
<1>1. Overlaid(s, recs) = {Over(s, r) : r \in recs}
  BY DEF Overlaid, Over
<1>2. /\ \A r \in recs : Over(s, r) \in Overlaid(s, recs)
      /\ \A q \in Overlaid(s, recs) : \E r \in recs : q = Over(s, r)
  BY <1>1
<1>3. Overlaid(s, recs) \in SUBSET Rec
  BY <1>2, OverShape
<1>4. ASSUME Distinct(recs), NEW p \in Overlaid(s, recs), NEW q \in Overlaid(s, recs), Alias(p) = Alias(q)
      PROVE  p = q
  <2>1. PICK a \in recs : p = Over(s, a)
    BY <1>2
  <2>2. PICK b \in recs : q = Over(s, b)
    BY <1>2
  <2>3. Alias(a) = Alias(b)
    BY <1>4, <2>1, <2>2, OverShape DEF Alias
  <2>4. a = b
    BY <1>4, <2>3 DEF Distinct
  <2>5. QED
    BY <2>1, <2>2, <2>4
<1>5. QED
  BY <1>2, <1>3, <1>4 DEF Distinct

LEMMA OverlaidToks ==
    ASSUME NEW s, NEW recs \in SUBSET Rec
    PROVE  Toks(Overlaid(s, recs)) = Toks(recs) /\ Lives(Overlaid(s, recs)) = Lives(recs)
BY OverlaidShape, OverShape DEF Toks, Lives

\* A record of a token with the alias of another.
Revoked(r) == [r EXCEPT !.revoked = TRUE]
LEMMA RevokedShape ==
    ASSUME NEW r \in Rec
    PROVE  /\ Revoked(r) \in Rec /\ Revoked(r).token = r.token /\ Revoked(r).revoked
           /\ Revoked(r).used = r.used
BY DEF Revoked, Rec

NewRec(t) == [token |-> t, revoked |-> FALSE, used |-> FALSE]

LEMMA EditedShape ==
    ASSUME NEW op, NEW t \in Tokens, NEW recs \in SUBSET Rec, Distinct(recs),
           op = "create" => Named(t, recs) = {}
    PROVE  /\ Edited(op, t, recs) \in SUBSET Rec /\ Distinct(Edited(op, t, recs))
           /\ \A q \in Edited(op, t, recs) :
                \/ q \in recs
                \/ op = "create" /\ q = NewRec(t)
                \/ op = "revoke" /\ \E r \in Named(t, recs) : q = Revoked(r)
<1>1. NewRec(t) \in Rec /\ NewRec(t).token = t
  BY DEF NewRec, Rec
<1>2. CASE op = "create"
  <2>1. Edited(op, t, recs) = recs \cup {NewRec(t)}
    BY <1>2 DEF Edited, NewRec
  <2>2. \A r \in recs : Alias(r) # AliasOf[t]
    BY <1>2 DEF Named
  <2>3. Alias(NewRec(t)) = AliasOf[t]
    BY <1>1 DEF Alias
  <2>4. QED
    BY <1>1, <1>2, <2>1, <2>2, <2>3 DEF Distinct
<1>3. CASE op = "revoke"
  <2>1. Edited(op, t, recs) = (recs \ Named(t, recs)) \cup {Revoked(r) : r \in Named(t, recs)}
    BY <1>3 DEF Edited, Revoked
  <2>2. \A r \in Named(t, recs) : r \in recs /\ Alias(r) = AliasOf[t] /\ Alias(Revoked(r)) = AliasOf[t]
                                  /\ Revoked(r) \in Rec
    BY RevokedShape DEF Named, Alias
  <2>3. \A r \in recs \ Named(t, recs) : Alias(r) # AliasOf[t]
    BY DEF Named
  <2>4. ASSUME NEW p \in Edited(op, t, recs), NEW q \in Edited(op, t, recs), Alias(p) = Alias(q)
        PROVE  p = q
    <3>1. CASE p \in recs \ Named(t, recs) /\ q \in recs \ Named(t, recs)
      BY <2>4, <3>1 DEF Distinct
    <3>2. CASE p \notin recs \ Named(t, recs) \/ q \notin recs \ Named(t, recs)
      <4>1. PICK a \in Named(t, recs) : p = Revoked(a)
        BY <2>1, <2>2, <2>3, <2>4, <3>2
      <4>2. PICK b \in Named(t, recs) : q = Revoked(b)
        BY <2>1, <2>2, <2>3, <2>4, <3>2
      <4>3. a = b
        BY <2>2 DEF Distinct
      <4>4. QED
        BY <4>1, <4>2, <4>3
    <3>3. QED
      BY <3>1, <3>2
  <2>5. QED
    BY <1>3, <2>1, <2>2, <2>4 DEF Distinct
<1>4. CASE op \notin {"create", "revoke"}
  <2>1. Edited(op, t, recs) \subseteq recs
    BY <1>4 DEF Edited
  <2>2. QED
    BY <2>1 DEF Distinct
<1>5. QED
  BY <1>2, <1>3, <1>4

-----------------------------------------------------------------------------
(* The invariant is inductive. *)

Call == [pc : {"idle", "stat", "read", "restat", "recache", "answer"} \cup SavingSteps,
         op : {"authorize", "flush"} \cup Edits \cup {None}, token : Tokens \cup {None},
         recs : SUBSET Rec, granted : BOOLEAN, late : BOOLEAN]

LEMMA NoCallShape ==
    /\ NoCall \in Call /\ NoCall.pc = "idle" /\ ~NoCall.granted /\ ~NoCall.late
BY DEF NoCall, Call

\* A store between two calls has nothing under way.
LEMMA IdleWorking ==
    ASSUME NEW s \in Stores, request[s].pc = "idle", ~request[s].granted
    PROVE  Working(s)
BY DEF Working, SavingSteps

LEMMA IdleWorkingNext ==
    ASSUME NEW s \in Stores, request'[s].pc = "idle", ~request'[s].granted
    PROVE  Working(s)'
BY DEF Working, SavingSteps

\* A step of one store while the others are between two calls.
LEMMA StepOf ==
    ASSUME TInv, NEW s \in Stores, ~On(s, "idle"), NEW new \in Call, To(s, new)
    PROVE  /\ request' \in [Stores -> Call] /\ request'[s] = new /\ Alone'
           /\ \A o \in Stores \ {s} : request'[o] = request[o] /\ Working(o)'
<1>1. request \in [Stores -> Call]
  BY DEF TInv, TokenTypeOK, Call
<1>2. /\ request' \in [Stores -> Call] /\ request'[s] = new
      /\ \A o \in Stores \ {s} : request'[o] = request[o]
  BY <1>1 DEF To
<1>3. ASSUME NEW o \in Stores \ {s} PROVE On(o, "idle") /\ ~request[o].granted
  <2>1. On(o, "idle")
    BY DEF TInv, Alone
  <2>2. Working(o)
    BY DEF TInv
  <2>3. QED
    BY <2>1, <2>2 DEF Working, On, SavingSteps
<1>4. Alone'
  BY <1>2, <1>3 DEF Alone, On
<1>5. \A o \in Stores \ {s} : Working(o)'
  BY <1>2, <1>3, IdleWorkingNext DEF On
<1>6. QED
  BY <1>2, <1>4, <1>5

\* What a step that leaves the file, the cache and the buffer alone keeps.
LEMMA Frame ==
    ASSUME TInv, UNCHANGED <<tokenFile, cached, unwritten, usedNow, erased>>,
           issued \subseteq issued', stamps' \in Nat, stamps <= stamps'
    PROVE  FileSound' /\ CacheSound' /\ Past' /\ UsesKept'
<1>1. stamps \in Nat /\ (tokenFile # None => tokenFile.stamp \in Nat)
      /\ (cached # None => cached.stamp = None \/ cached.stamp \in Nat)
  BY DEF TInv, TokenTypeOK, File, Cache
<1>2. FileSound'
  BY <1>1 DEF TInv, FileSound
<1>3. CacheSound'
  BY <1>1 DEF TInv, CacheSound
<1>4. Past' /\ UsesKept'
  BY DEF TInv, Past, UsesKept
<1>5. QED
  BY <1>2, <1>3, <1>4

\* A call that ends, well or badly.
LEMMA EndStep ==
    ASSUME TInv, NEW s \in Stores, ~On(s, "idle"), To(s, NoCall), tmp' = tmp,
           UNCHANGED <<tokenFile, cached, unwritten, usedNow, erased, issued, stamps>>
    PROVE  TInv'
<1>1. request' \in [Stores -> Call] /\ Alone' /\ \A o \in Stores : Working(o)'
  BY StepOf, NoCallShape, IdleWorkingNext
<1>2. TokenTypeOK'
  BY <1>1 DEF TInv, TokenTypeOK, Call
<1>3. QED
  BY <1>1, <1>2, Frame DEF TInv, TokenTypeOK

NewCall(op, t, late) == [NoCall EXCEPT !.pc = "stat", !.op = op, !.token = t, !.late = late]

LEMMA NewCallShape ==
    ASSUME NEW op \in {"authorize", "flush"} \cup Edits, NEW t \in Tokens, NEW late \in BOOLEAN
    PROVE  /\ NewCall(op, t, late) \in Call
           /\ NewCall(op, t, late).pc = "stat" /\ NewCall(op, t, late).op = op
           /\ NewCall(op, t, late).token = t /\ ~NewCall(op, t, late).granted
           /\ NewCall(op, t, late).late = late
BY DEF NewCall, NoCall, Call

LEMMA BeginKeeps ==
    ASSUME Serial, TInv, NEW s \in Stores, BeginTokenCall(s)
    PROVE  TInv'
<1>1. PICK t \in Tokens, op \in {"authorize", "flush", "create", "revoke", "delete"} :
        /\ s = Server <=> op \in {"authorize", "flush"}
        /\ op = "create" <=> t \notin issued
        /\ issued' = issued \cup {t}
        /\ To(s, [NoCall EXCEPT !.pc = "stat", !.op = op, !.token = t, !.late = t \in dead])
  BY DEF BeginTokenCall
<1>2. /\ \A o \in Stores : On(o, "idle")
      /\ UNCHANGED <<tokenFile, tmp, stamps, cached, unwritten, usedNow, erased>>
  BY DEF BeginTokenCall, files, server
<1>3. \A o \in Stores : request[o].pc = "idle" /\ ~request[o].granted
  BY <1>2 DEF On, TInv, Working, SavingSteps
<1>4. request \in [Stores -> Call]
  BY DEF TInv, TokenTypeOK, Call
<1> DEFINE new == NewCall(op, t, t \in dead)
<1>5. request' = [request EXCEPT ![s] = new]
  BY <1>1 DEF To, NewCall
<1>13. op \in {"authorize", "flush"} \cup Edits /\ (t \in dead) \in BOOLEAN
  BY DEF Edits
<1>15. /\ new \in Call /\ new.pc = "stat" /\ new.op = op /\ new.token = t /\ ~new.granted
  BY <1>13, NewCallShape
<1> HIDE DEF new
<1>6. request' \in [Stores -> Call] /\ request'[s] = new
      /\ \A o \in Stores \ {s} : request'[o] = request[o]
  BY <1>4, <1>5, <1>15
<1>7. Alone' /\ \A o \in Stores \ {s} : Working(o)'
  BY <1>3, <1>6, IdleWorkingNext DEF Alone, On
<1>8. op = "create" => t \notin Listed(tokenFile) \cup erased
  BY <1>1 DEF TInv, Past
<1>14. UNCHANGED <<tokenFile, erased>> /\ t \in issued'
  BY <1>1, <1>2
<1>9. Working(s)'
  BY <1>1, <1>14, <1>15, <1>6, <1>8 DEF Working, SavingSteps, Edits, Listed, Recs
<1>10. TokenTypeOK'
  BY <1>1, <1>2, <1>6 DEF TInv, TokenTypeOK, Call
<1>11. FileSound' /\ CacheSound' /\ Past' /\ UsesKept'
  BY <1>1, <1>2, Frame DEF TInv, TokenTypeOK
<1>12. QED
  BY <1>7, <1>9, <1>10, <1>11 DEF TInv

LEMMA ReadKeeps ==
    ASSUME TInv, NEW s \in Stores, ReadFile(s)
    PROVE  TInv'
<1>1. request[s].pc = "read" /\ ~On(s, "idle")
  BY DEF ReadFile, On
<1>2. UNCHANGED <<tokenFile, tmp, stamps, cached, unwritten, usedNow, issued, erased>>
  BY DEF ReadFile, files, server, tokenHistory
<1>3. request[s] \in Call /\ tokenFile \in File \cup {None}
  BY DEF TInv, TokenTypeOK, Call
<1>4. CASE To(s, NoCall)
  BY <1>1, <1>2, <1>4, EndStep
<1>5. CASE To(s, [request[s] EXCEPT !.pc = "restat", !.recs = Recs(tokenFile)])
  <2> DEFINE new == [request[s] EXCEPT !.pc = "restat", !.recs = Recs(tokenFile)]
  <2>1. /\ new \in Call /\ new.pc = "restat" /\ new.recs = Recs(tokenFile) /\ new.op = request[s].op
        /\ new.token = request[s].token /\ new.granted = request[s].granted
    BY <1>3 DEF Call, Recs, File
  <2>2. /\ request' \in [Stores -> Call] /\ request'[s] = new /\ Alone'
        /\ \A o \in Stores \ {s} : Working(o)'
    BY <1>1, <1>5, <2>1, StepOf
  <2>3. Working(s)
    BY DEF TInv
  <2>4. Working(s)'
    BY <1>1, <1>2, <2>1, <2>2, <2>3 DEF Working, SavingSteps, Listed, Recs
  <2>5. TokenTypeOK'
    BY <1>2, <2>2 DEF TInv, TokenTypeOK, Call
  <2>6. QED
    BY <1>2, <2>2, <2>4, <2>5, Frame DEF TInv, TokenTypeOK
<1>6. QED
  BY <1>4, <1>5 DEF ReadFile

\* A decision taken on what the file holds.
LEMMA DecideKeeps ==
    ASSUME TInv, NEW s \in Stores, request[s].pc \in {"stat", "restat"}, Decide(s, Recs(tokenFile)),
           CacheSound', cached' \in Cache \cup {None},
           UNCHANGED <<tokenFile, tmp, stamps, issued, erased>>
    PROVE  TInv'
<1> DEFINE t == request[s].token
           op == request[s].op
           recs == Recs(tokenFile)
<1>1. /\ request[s] \in Call /\ t \in Tokens /\ recs \in SUBSET Rec /\ ~On(s, "idle") /\ t \in issued
      /\ ~request[s].granted /\ Working(s) /\ Distinct(recs)
  BY DEF TInv, TokenTypeOK, Call, Recs, File, On, Working, FileSound, SavingSteps
<1>2. FileSound'
  BY DEF TInv, FileSound, Recs
<1>3. ASSUME request' \in [Stores -> Call], Alone', \A o \in Stores : Working(o)', Past', UsesKept'
      PROVE  TInv'
  BY <1>2, <1>3 DEF TInv, TokenTypeOK, Call
<1>4. ASSUME UNCHANGED <<unwritten, usedNow>> PROVE Past' /\ UsesKept'
  BY <1>4 DEF TInv, Past, UsesKept, Listed, Recs
<1>5. CASE To(s, NoCall) /\ UNCHANGED <<unwritten, usedNow>>
  <2>1. request' \in [Stores -> Call] /\ Alone' /\ \A o \in Stores : Working(o)'
    BY <1>1, <1>5, StepOf, NoCallShape, IdleWorkingNext
  <2>2. QED
    BY <1>3, <1>4, <1>5, <2>1
<1>6. CASE op = "authorize" /\ ~(To(s, NoCall) /\ UNCHANGED <<unwritten, usedNow>>)
  <2>1. /\ \E r \in recs : r.token = t
        /\ unwritten' = unwritten \cup {AliasOf[t]} /\ usedNow' = usedNow \cup {t}
    BY <1>6 DEF Decide, Authorize
  <2>2. PICK next \in {"unlink", "answer"} :
          To(s, [request[s] EXCEPT !.pc = next, !.recs = recs, !.granted = TRUE])
    BY <1>6 DEF Decide, Authorize
  <2> DEFINE new == [request[s] EXCEPT !.pc = next, !.recs = recs, !.granted = TRUE]
  <2>3. /\ new \in Call /\ new.pc = next /\ new.recs = recs /\ new.granted /\ new.op = op /\ new.token = t
    BY <1>1 DEF Call, SavingSteps
  <2>4. To(s, new)
    BY <2>2
  <2> HIDE DEF new
  <2>5. /\ request' \in [Stores -> Call] /\ request'[s] = new /\ Alone'
        /\ \A o \in Stores \ {s} : Working(o)'
    BY <1>1, <2>3, <2>4, StepOf
  <2>6. Edited(op, t, recs) = recs
    BY <1>6 DEF Edited
  <2>7. Working(s)'
    BY <1>1, <1>6, <2>3, <2>5, <2>6 DEF Working, SavingSteps, Recs
  <2>8. Past' /\ UsesKept'
    BY <2>1 DEF TInv, Past, UsesKept, Listed, Recs
  <2>9. QED
    BY <1>3, <2>5, <2>7, <2>8
<1>7. CASE op # "authorize" /\ ~(To(s, NoCall) /\ UNCHANGED <<unwritten, usedNow>>)
  <2> DEFINE edited == Edited(op, t, recs)
             new == [request[s] EXCEPT !.pc = "unlink", !.recs = edited]
  <2>1. UNCHANGED <<unwritten, usedNow>> /\ (op = "create" => Named(t, recs) = {}) /\ To(s, new)
    <3>1. Edit(s, recs)
      BY <1>7 DEF Decide
    <3>2. UNCHANGED <<unwritten, usedNow>>
      BY <3>1 DEF Edit
    <3>3. CASE op = "create"
      BY <1>7, <3>1, <3>2, <3>3 DEF Edit, Edited, Named, Alias
    <3>4. CASE op = "revoke"
      BY <1>7, <3>1, <3>2, <3>4 DEF Edit, Edited, Named, Alias
    <3>5. CASE op = "delete"
      BY <1>7, <3>1, <3>2, <3>5 DEF Edit, Edited, Named, Alias
    <3>6. CASE op \notin Edits
      BY <1>7, <3>1, <3>2, <3>6 DEF Edit, Edited, Named, Alias, Edits
    <3>7. QED
      BY <3>3, <3>4, <3>5, <3>6 DEF Edits
  <2>2. edited \in SUBSET Rec
    BY <1>1, <2>1, EditedShape
  <2> HIDE DEF edited
  <2>3. /\ new \in Call /\ new.pc = "unlink" /\ new.recs = edited /\ ~new.granted /\ new.op = op /\ new.token = t
    BY <1>1, <2>2 DEF Call, SavingSteps
  <2> HIDE DEF new
  <2>4. /\ request' \in [Stores -> Call] /\ request'[s] = new /\ Alone'
        /\ \A o \in Stores \ {s} : Working(o)'
    BY <1>1, <2>1, <2>3, StepOf
  <2>5. recs' = recs /\ Listed(tokenFile)' = Listed(tokenFile)
    BY DEF Recs, Listed
  <2>6. Working(s)'
    BY <1>1, <2>1, <2>3, <2>4, <2>5 DEF Working, SavingSteps, edited
  <2>7. QED
    BY <1>3, <1>4, <2>1, <2>4, <2>6
<1>8. QED
  BY <1>5, <1>6, <1>7

LEMMA StatKeeps ==
    ASSUME TInv, NEW s \in Stores, StatFile(s)
    PROVE  TInv'
<1>1. /\ request[s].pc = "stat" /\ ~On(s, "idle")
      /\ UNCHANGED <<tokenFile, tmp, stamps, cached, issued, erased>>
  BY DEF StatFile, On, files, tokenHistory
<1>2. CASE s = Server /\ cached # None /\ cached.stamp = Stamp(tokenFile)
  <2>1. Decide(s, Recs(tokenFile))
    BY <1>2 DEF StatFile, TInv, CacheSound
  <2>2. CacheSound' /\ cached' \in Cache \cup {None}
    BY <1>1 DEF TInv, TokenTypeOK, CacheSound, Stamp, Recs
  <2>3. QED
    BY <1>1, <2>1, <2>2, DecideKeeps
<1>3. CASE ~(s = Server /\ cached # None /\ cached.stamp = Stamp(tokenFile))
  <2> DEFINE new == [request[s] EXCEPT !.pc = "read"]
  <2>1. To(s, new) /\ UNCHANGED <<unwritten, usedNow>>
    BY <1>3 DEF StatFile, Goto
  <2>2. request[s] \in Call /\ Working(s)
    BY DEF TInv, TokenTypeOK, Call
  <2>3. /\ new \in Call /\ new.pc = "read" /\ new.op = request[s].op
        /\ new.token = request[s].token /\ new.granted = request[s].granted
    BY <2>2 DEF Call
  <2> HIDE DEF new
  <2>4. /\ request' \in [Stores -> Call] /\ request'[s] = new /\ Alone'
        /\ \A o \in Stores \ {s} : Working(o)'
    BY <1>1, <2>1, <2>3, StepOf
  <2>5. Working(s)'
    BY <1>1, <2>2, <2>3, <2>4 DEF Working, SavingSteps, Listed, Recs
  <2>6. TokenTypeOK'
    BY <1>1, <2>4 DEF TInv, TokenTypeOK, Call
  <2>7. QED
    BY <1>1, <2>1, <2>4, <2>5, <2>6, Frame DEF TInv, TokenTypeOK
<1>4. QED
  BY <1>2, <1>3

LEMMA RestatKeeps ==
    ASSUME TInv, NEW s \in Stores, Restat(s)
    PROVE  TInv'
<1>1. /\ request[s].pc = "restat" /\ ~On(s, "idle")
      /\ UNCHANGED <<tokenFile, tmp, stamps, issued, erased>>
  BY DEF Restat, On, files, tokenHistory
<1>2. request[s].recs = Recs(tokenFile)
  BY <1>1 DEF TInv, Working
<1>3. CacheSound' /\ cached' \in Cache \cup {None}
  <2>1. CASE s # Server
    <3>1. cached' = cached
      BY <2>1 DEF Restat
    <3>2. QED
      BY <1>1, <3>1 DEF TInv, TokenTypeOK, CacheSound, Stamp, Recs
  <2>2. CASE s = Server
    <3>1. cached' = [stamp |-> Stamp(tokenFile), recs |-> Recs(tokenFile)]
      BY <1>2, <2>2 DEF Restat
    <3>2. Stamp(tokenFile) \in Nat \cup {None} /\ Recs(tokenFile) \in SUBSET Rec
          /\ (Stamp(tokenFile) # None => Stamp(tokenFile) <= stamps)
      BY DEF TInv, TokenTypeOK, FileSound, Stamp, Recs, File
    <3>3. cached' \in Cache
      BY <3>1, <3>2 DEF Cache
    <3>4. CacheSound'
      BY <1>1, <3>1, <3>2 DEF CacheSound, Stamp, Recs
    <3>5. QED
      BY <3>3, <3>4
  <2>3. QED
    BY <2>1, <2>2
<1>4. QED
  BY <1>1, <1>2, <1>3, DecideKeeps DEF Restat

\* A call that goes on to its next access of the file system.
LEMMA GotoStep ==
    ASSUME TInv, NEW s \in Stores, ~On(s, "idle"),
           NEW pc \in SavingSteps \cup {"recache", "answer"}, Goto(s, pc)
    PROVE  /\ request' \in [Stores -> Call] /\ Alone' /\ \A o \in Stores \ {s} : Working(o)'
           /\ request'[s].pc = pc /\ request'[s].op = request[s].op
           /\ request'[s].token = request[s].token /\ request'[s].recs = request[s].recs
           /\ request'[s].granted = request[s].granted
<1> DEFINE new == [request[s] EXCEPT !.pc = pc]
<1>1. request[s] \in Call
  BY DEF TInv, TokenTypeOK, Call
<1>2. /\ new \in Call /\ new.pc = pc /\ new.op = request[s].op /\ new.token = request[s].token
      /\ new.recs = request[s].recs /\ new.granted = request[s].granted
  BY <1>1 DEF Call, SavingSteps
<1>3. To(s, new)
  BY DEF Goto
<1> HIDE DEF new
<1>4. QED
  BY <1>2, <1>3, StepOf

\* A call that gives its answer, or still has to.
LEMMA FailedKeeps ==
    ASSUME TInv, NEW s \in Stores, ~On(s, "idle"), Failed(s), tmp' = tmp,
           UNCHANGED <<tokenFile, cached, unwritten, usedNow, erased, issued, stamps>>
    PROVE  TInv'
<1>1. CASE ~request[s].granted
  BY <1>1, EndStep DEF Failed
<1>2. CASE request[s].granted
  <2>1. Goto(s, "answer")
    BY <1>2 DEF Failed, Goto
  <2>2. /\ request' \in [Stores -> Call] /\ Alone' /\ \A o \in Stores \ {s} : Working(o)'
        /\ request'[s].pc = "answer" /\ request'[s].op = request[s].op
        /\ request'[s].token = request[s].token /\ request'[s].granted = request[s].granted
    BY <2>1, GotoStep
  <2>3. Working(s)'
    BY <1>2, <2>2 DEF TInv, Working, SavingSteps, On, Listed, Recs
  <2>4. TokenTypeOK'
    BY <2>2 DEF TInv, TokenTypeOK, Call
  <2>5. QED
    BY <2>2, <2>3, <2>4, Frame DEF TInv, TokenTypeOK
<1>3. QED
  BY <1>1, <1>2

LEMMA UnlinkKeeps ==
    ASSUME TInv, NEW s \in Stores, UnlinkTmp(s)
    PROVE  TInv'
<1>1. /\ request[s].pc = "unlink" /\ ~On(s, "idle") /\ tmp' = None /\ Goto(s, "open")
      /\ UNCHANGED <<tokenFile, stamps, cached, unwritten, usedNow, issued, erased>>
  BY DEF UnlinkTmp, On, server, tokenHistory
<1>2. /\ request' \in [Stores -> Call] /\ Alone' /\ \A o \in Stores \ {s} : Working(o)'
      /\ request'[s].pc = "open" /\ request'[s].op = request[s].op
      /\ request'[s].token = request[s].token /\ request'[s].recs = request[s].recs
      /\ request'[s].granted = request[s].granted
  BY <1>1, GotoStep DEF SavingSteps
<1>3. Working(s)'
  BY <1>1, <1>2 DEF TInv, Working, SavingSteps, Listed, Recs
<1>4. TokenTypeOK'
  BY <1>1, <1>2 DEF TInv, TokenTypeOK, Call
<1>5. QED
  BY <1>1, <1>2, <1>3, <1>4, Frame DEF TInv, TokenTypeOK

LEMMA OpenKeeps ==
    ASSUME TInv, NEW s \in Stores, OpenTmp(s)
    PROVE  TInv'
<1>1. /\ request[s].pc = "open" /\ ~On(s, "idle") /\ tmp = None
      /\ UNCHANGED <<tokenFile, cached, unwritten, usedNow, issued, erased>>
  BY DEF OpenTmp, On, server, tokenHistory, TInv, Working
<1>2. /\ stamps' = stamps + 1 /\ Goto(s, "write")
      /\ tmp' = [recs |-> Overlaid(s, request[s].recs), whole |-> FALSE, by |-> s, stamp |-> stamps + 1]
  BY <1>1 DEF OpenTmp
<1>3. stamps \in Nat /\ Overlaid(s, request[s].recs) \in SUBSET Rec
  BY OverlaidShape DEF TInv, TokenTypeOK
<1>4. tmp' \in File /\ tmp' # None
  <2>1. stamps + 1 \in Nat /\ s \in Stores \cup {None} /\ FALSE \in BOOLEAN
    BY <1>3
  <2>2. tmp' \in File
    BY <1>2, <1>3, <2>1 DEF File
  <2>3. QED
    BY <2>2, NoneAssumption
<1>5. /\ request' \in [Stores -> Call] /\ Alone' /\ \A o \in Stores \ {s} : Working(o)'
      /\ request'[s].pc = "write" /\ request'[s].op = request[s].op
      /\ request'[s].token = request[s].token /\ request'[s].recs = request[s].recs
      /\ request'[s].granted = request[s].granted
  BY <1>1, <1>2, GotoStep DEF SavingSteps
<1>6. tmp'.recs = Overlaid(s, request[s].recs)' /\ tmp'.by = s /\ tmp'.stamp <= stamps'
  BY <1>1, <1>2, <1>3, <1>5 DEF Overlaid
<1>10. Working(s)
  BY DEF TInv
<1>7. Working(s)'
  BY <1>1, <1>4, <1>5, <1>6, <1>10 DEF Working, SavingSteps, Listed, Recs
<1>8. TokenTypeOK'
  BY <1>1, <1>2, <1>3, <1>4, <1>5 DEF TInv, TokenTypeOK, Call
<1>9. QED
  BY <1>1, <1>2, <1>3, <1>5, <1>7, <1>8, Frame DEF TInv

LEMMA WriteKeeps ==
    ASSUME TInv, NEW s \in Stores, WriteTmp(s)
    PROVE  TInv'
<1> DEFINE full == [tmp EXCEPT !.whole = TRUE, !.by = None, !.stamp = stamps + 1]
<1>1. /\ request[s].pc = "write" /\ ~On(s, "idle") /\ Working(s) /\ stamps \in Nat
      /\ stamps' = stamps + 1 /\ Goto(s, "rename")
      /\ UNCHANGED <<cached, unwritten, usedNow, issued, erased>>
  BY DEF WriteTmp, On, server, tokenHistory, TInv, TokenTypeOK
<1>2. /\ tmp \in File /\ tmp # None /\ tmp.by = s /\ tmp.recs = Overlaid(s, request[s].recs)
  BY <1>1 DEF Working, TInv, TokenTypeOK
<1>3. tokenFile' = tokenFile /\ tmp' = full
  BY <1>2, NoneAssumption DEF WriteTmp, TInv, FileSound
<1>4. full \in File /\ full.recs = tmp.recs /\ full.whole /\ full.by = None /\ full.stamp = stamps + 1
  <2>1. stamps + 1 \in Nat /\ None \in Stores \cup {None} /\ TRUE \in BOOLEAN
    BY <1>1
  <2>2. full \in File
    BY <1>2, <2>1 DEF File
  <2>3. QED
    BY <1>2, <2>2 DEF File
<1> HIDE DEF full
<1>5. /\ request' \in [Stores -> Call] /\ Alone' /\ \A o \in Stores \ {s} : Working(o)'
      /\ request'[s].pc = "rename" /\ request'[s].op = request[s].op
      /\ request'[s].token = request[s].token /\ request'[s].recs = request[s].recs
      /\ request'[s].granted = request[s].granted
  BY <1>1, GotoStep DEF SavingSteps
<1>6. tmp' # None /\ tmp'.recs = Overlaid(s, request[s].recs)'
  BY <1>1, <1>2, <1>3, <1>4, <1>5, NoneAssumption DEF Overlaid
<1>7. cached' # None => cached'.stamp # tmp'.stamp
  BY <1>1, <1>3, <1>4, NoneAssumption DEF TInv, TokenTypeOK, CacheSound, Cache
<1>8. Working(s)'
  BY <1>1, <1>3, <1>4, <1>5, <1>6, <1>7 DEF Working, SavingSteps, Listed, Recs
<1>9. TokenTypeOK'
  BY <1>1, <1>3, <1>4, <1>5 DEF TInv, TokenTypeOK, Call
<1>10. QED
  BY <1>1, <1>3, <1>5, <1>8, <1>9, Frame DEF TInv

\* The records a call saves are the file's, edited.
LEMMA SavedShape ==
    ASSUME TInv, NEW s \in Stores, request[s].pc = "rename"
    PROVE  /\ tmp \in File /\ tmp # None /\ Distinct(tmp.recs)
           /\ \A r \in tmp.recs :
                \/ r.token = request[s].token /\ request[s].op = "create"
                \/ \E x \in Recs(tokenFile) :
                     r.token = x.token /\ (x.used \/ (AliasOf[x.token] \in unwritten /\ s = Server) => r.used)
           /\ \A r \in tmp.recs : r.token \in issued
<1> DEFINE q == request[s]
           t == request[s].token
           recs == Recs(tokenFile)
<1>1. /\ Working(s) /\ t \in Tokens /\ t \in issued /\ recs \in SUBSET Rec /\ Distinct(recs)
      /\ tmp \in File \cup {None}
  BY DEF TInv, TokenTypeOK, FileSound, Working, Recs, File
<1>2. /\ tmp # None /\ tmp.recs = Overlaid(s, q.recs) /\ q.recs = Edited(q.op, t, recs)
      /\ q.op = "create" => Named(t, recs) = {}
  BY <1>1 DEF Working, SavingSteps
<1>3. /\ q.recs \in SUBSET Rec /\ Distinct(q.recs)
      /\ \A r \in q.recs :
           \/ r \in recs
           \/ q.op = "create" /\ r = NewRec(t)
           \/ q.op = "revoke" /\ \E x \in Named(t, recs) : r = Revoked(x)
  BY <1>1, <1>2, EditedShape
<1>4. Distinct(tmp.recs) /\ \A r \in tmp.recs : \E x \in q.recs : r = Over(s, x)
  BY <1>2, <1>3, OverlaidShape
<1>5. ASSUME NEW r \in tmp.recs
      PROVE  \/ r.token = t /\ q.op = "create"
             \/ \E x \in recs :
                  r.token = x.token /\ (x.used \/ (AliasOf[x.token] \in unwritten /\ s = Server) => r.used)
  <2>1. PICK y \in q.recs : r = Over(s, y)
    BY <1>4
  <2>2. y \in Rec /\ r.token = y.token
        /\ r.used = (y.used \/ (s = Server /\ AliasOf[y.token] \in unwritten))
    BY <1>3, <2>1, OverShape
  <2>3. CASE y \in recs
    BY <2>2, <2>3
  <2>4. CASE q.op = "create" /\ y = NewRec(t)
    BY <2>2, <2>4 DEF NewRec
  <2>5. CASE \E x \in Named(t, recs) : y = Revoked(x)
    <3>1. PICK x \in Named(t, recs) : y = Revoked(x)
      BY <2>5
    <3>2. x \in recs /\ y.token = x.token /\ y.used = x.used
      BY <1>1, <3>1, RevokedShape DEF Named
    <3>3. QED
      BY <2>2, <3>2
  <2>6. QED
    BY <1>3, <2>3, <2>4, <2>5
<1>6. \A r \in tmp.recs : r.token \in issued
  BY <1>1, <1>5 DEF TInv, Past, Listed
<1>7. QED
  BY <1>1, <1>2, <1>4, <1>5, <1>6

LEMMA RenameKeeps ==
    ASSUME TInv, NEW s \in Stores, RenameTmp(s)
    PROVE  TInv'
<1>1. /\ request[s].pc = "rename" /\ ~On(s, "idle") /\ Working(s)
      /\ UNCHANGED <<stamps, cached, unwritten, usedNow, issued>>
  BY DEF RenameTmp, On, server, TInv
<1>2. /\ tmp \in File /\ tmp # None /\ Distinct(tmp.recs)
      /\ \A r \in tmp.recs :
           \/ r.token = request[s].token /\ request[s].op = "create"
           \/ \E x \in Recs(tokenFile) :
                r.token = x.token /\ (x.used \/ (AliasOf[x.token] \in unwritten /\ s = Server) => r.used)
      /\ \A r \in tmp.recs : r.token \in issued
  BY <1>1, SavedShape
<1>3. /\ tokenFile' = tmp /\ tmp' = None /\ Goto(s, "recache")
      /\ erased' = erased \cup (Listed(tokenFile) \ Listed(tmp))
  BY <1>2 DEF RenameTmp
<1>4. tokenFile' # None /\ Recs(tokenFile)' = tmp.recs /\ Recs(tmp) = tmp.recs
  BY <1>2, <1>3 DEF Recs
<1>5. FileSound' /\ CacheSound'
  BY <1>1, <1>2, <1>3, <1>4 DEF TInv, FileSound, CacheSound, Stamp, Working
<1>6. request[s].op = "create" => request[s].token \notin Listed(tokenFile) \cup erased
  BY <1>1 DEF Working, SavingSteps
<1>7. Listed(tmp) \cap erased = {}
  BY <1>2, <1>4, <1>6 DEF TInv, Past, Listed
<1>8. Past'
  <2>1. Listed(tokenFile)' = Listed(tmp)
    BY <1>3 DEF Listed, Recs
  <2>2. Listed(tmp) \subseteq issued
    BY <1>2, <1>4 DEF Listed
  <2>3. QED
    BY <1>1, <1>3, <1>7, <2>1, <2>2 DEF TInv, Past
<1>9. UsesKept'
  <2>1. SUFFICES ASSUME NEW t \in usedNow, AliasOf[t] \notin unwritten, NEW r \in tmp.recs, r.token = t
                 PROVE  r.used
    BY <1>1, <1>4 DEF UsesKept
  <2>2. t \in Listed(tokenFile) \cup erased
    BY DEF TInv, Past
  <2>5. ~(r.token = request[s].token /\ request[s].op = "create")
    BY <1>6, <2>1, <2>2
  <2>3. PICK x \in Recs(tokenFile) : r.token = x.token /\ (x.used => r.used)
    BY <1>2, <2>5
  <2>4. QED
    BY <2>1, <2>3 DEF TInv, UsesKept
<1>10. /\ request' \in [Stores -> Call] /\ Alone' /\ \A o \in Stores \ {s} : Working(o)'
       /\ request'[s].pc = "recache" /\ request'[s].op = request[s].op
       /\ request'[s].token = request[s].token /\ request'[s].recs = request[s].recs
       /\ request'[s].granted = request[s].granted
  BY <1>1, <1>3, GotoStep
<1>11. tokenFile'.recs = Overlaid(s, request[s].recs)'
  BY <1>1, <1>3, <1>10 DEF Overlaid, Working
<1>12. Working(s)'
  BY <1>1, <1>4, <1>10, <1>11 DEF Working, SavingSteps
<1>13. TokenTypeOK'
  BY <1>1, <1>2, <1>3, <1>10 DEF TInv, TokenTypeOK, Call
<1>14. QED
  BY <1>5, <1>8, <1>9, <1>10, <1>12, <1>13 DEF TInv

LEMMA RecacheKeeps ==
    ASSUME TInv, NEW s \in Stores, Recache(s)
    PROVE  TInv'
<1>1. /\ request[s].pc = "recache" /\ ~On(s, "idle") /\ Working(s)
      /\ UNCHANGED <<tokenFile, tmp, stamps, usedNow, issued, erased>>
  BY DEF Recache, On, files, TInv
<1>2. Failed(s)
  BY DEF Recache, Acknowledge, Failed
<1>3. CASE s # Server
  BY <1>1, <1>2, <1>3, FailedKeeps DEF Recache
<1>4. CASE s = Server
  <2>1. /\ cached' = [stamp |-> Stamp(tokenFile), recs |-> Recs(tokenFile)] /\ unwritten' = {}
        /\ Recs(tokenFile) = Overlaid(s, request[s].recs)
    BY <1>1, <1>4 DEF Recache, Working, Recs
  <2>2. Stamp(tokenFile) \in Nat \cup {None} /\ Recs(tokenFile) \in SUBSET Rec
        /\ (Stamp(tokenFile) # None => Stamp(tokenFile) <= stamps)
    BY DEF TInv, TokenTypeOK, FileSound, Stamp, Recs, File
  <2>3. cached' \in Cache
    BY <2>1, <2>2 DEF Cache
  <2>4. CacheSound'
    BY <1>1, <2>1, <2>2 DEF CacheSound, Stamp, Recs
  <2>5. FileSound' /\ Past'
    BY <1>1 DEF TInv, FileSound, Past, Recs, Listed
  <2>6. UsesKept'
    <3>1. SUFFICES ASSUME NEW t \in usedNow, NEW r \in Recs(tokenFile), r.token = t PROVE r.used
      BY <1>1 DEF UsesKept, Recs
    <3>2. request[s].recs \in SUBSET Rec
      BY DEF TInv, TokenTypeOK
    <3>3. PICK y \in request[s].recs : r = Over(s, y)
      BY <2>1, <3>2, OverlaidShape
    <3>4. y \in Rec
      BY <3>2
    <3>5. r.token = y.token /\ r.used = (y.used \/ (s = Server /\ AliasOf[y.token] \in unwritten))
      BY <3>3, <3>4, OverShape
    <3>6. AliasOf[t] \in unwritten \/ r.used
      BY <3>1 DEF TInv, UsesKept
    <3>7. QED
      BY <1>4, <3>1, <3>5, <3>6
  <2>7. request' \in [Stores -> Call] /\ Alone' /\ \A o \in Stores : Working(o)'
    <3>1. CASE ~request[s].granted
      BY <1>1, <1>2, <3>1, StepOf, NoCallShape, IdleWorkingNext DEF Failed
    <3>2. CASE request[s].granted
      <4>1. Goto(s, "answer")
        BY <1>2, <3>2 DEF Failed, Goto
      <4>2. /\ request' \in [Stores -> Call] /\ Alone' /\ \A o \in Stores \ {s} : Working(o)'
            /\ request'[s].pc = "answer" /\ request'[s].op = request[s].op
            /\ request'[s].token = request[s].token /\ request'[s].granted = request[s].granted
        BY <1>1, <4>1, GotoStep
      <4>3. Working(s)'
        BY <1>1, <3>2, <4>2 DEF Working, SavingSteps
      <4>4. QED
        BY <4>2, <4>3
    <3>3. QED
      BY <3>1, <3>2
  <2>8. TokenTypeOK'
    BY <1>1, <2>3, <2>7 DEF TInv, TokenTypeOK, Call
  <2>9. QED
    BY <2>4, <2>5, <2>6, <2>7, <2>8 DEF TInv
<1>5. QED
  BY <1>3, <1>4

LEMMA KilledKeeps ==
    ASSUME TInv, NEW s \in Stores, Killed(s)
    PROVE  TInv'
<1>1. /\ ~On(s, "idle") /\ To(s, NoCall) /\ UNCHANGED <<tokenFile, tmp, stamps, issued, erased>>
  BY DEF Killed, files, tokenHistory
<1>2. CASE s # Server
  BY <1>1, <1>2, EndStep DEF Killed, server
<1>3. CASE s = Server
  <2>1. cached' = None /\ unwritten' = {} /\ usedNow' = {}
    BY <1>3 DEF Killed
  <2>2. request' \in [Stores -> Call] /\ Alone' /\ \A o \in Stores : Working(o)'
    BY <1>1, StepOf, NoCallShape, IdleWorkingNext
  <2>3. TokenTypeOK'
    BY <1>1, <2>1, <2>2 DEF TInv, TokenTypeOK, Call
  <2>4. FileSound' /\ CacheSound' /\ Past' /\ UsesKept'
    BY <1>1, <2>1 DEF TInv, FileSound, CacheSound, Past, UsesKept, Recs, Listed
  <2>5. QED
    BY <2>2, <2>3, <2>4 DEF TInv
<1>4. QED
  BY <1>2, <1>3

LEMMA TokenInductive ==
    ASSUME Serial, TInv, [TokenNext]_tokenVars
    PROVE  TInv'
<1>1. ASSUME NEW s \in Stores, AnswerYes(s) \/ StoreFault(s)
      PROVE  TInv'
  <2>1. ~On(s, "idle") /\ UNCHANGED <<tokenFile, tmp, stamps, cached, unwritten, usedNow, issued, erased>>
    BY <1>1 DEF AnswerYes, StoreFault, On, files, server, tokenHistory
  <2>2. CASE AnswerYes(s)
    BY <2>1, <2>2, EndStep DEF AnswerYes
  <2>3. CASE StoreFault(s)
    BY <2>1, <2>3, FailedKeeps DEF StoreFault
  <2>4. QED
    BY <1>1, <2>2, <2>3
<1>2. CASE TokenNext
  BY <1>1, <1>2, BeginKeeps, StatKeeps, ReadKeeps, RestatKeeps, UnlinkKeeps, OpenKeeps, WriteKeeps,
     RenameKeeps, RecacheKeeps, KilledKeeps DEF TokenNext
<1>3. CASE UNCHANGED tokenVars
  <2> USE <1>3 DEF tokenVars
  <2>1. TokenTypeOK' /\ Alone' /\ FileSound' /\ CacheSound'
    BY DEF TInv, TokenTypeOK, Alone, On, FileSound, CacheSound, Recs, Stamp
  <2>2. Past' /\ UsesKept'
    BY DEF TInv, Past, UsesKept, Listed, Recs
  <2>3. ASSUME NEW s \in Stores PROVE Working(s)'
    BY DEF TInv, Working, Listed, Recs, Overlaid
  <2>4. QED
    BY <2>1, <2>2, <2>3 DEF TInv
<1>4. QED
  BY <1>2, <1>3

LEMMA TokenInitial == TokenInit => TInv
<1> SUFFICES ASSUME TokenInit PROVE TInv
  OBVIOUS
<1>1. \A s \in Stores : request[s] = NoCall
  BY DEF TokenInit
<1>2. request \in [Stores -> Call]
  BY NoCallShape DEF TokenInit
<1>3. \A s \in Stores : Working(s)
  BY <1>1, NoCallShape, IdleWorking
<1>4. TokenTypeOK
  BY <1>2 DEF TokenInit, TokenTypeOK, Call
<1>5. Alone /\ FileSound /\ CacheSound /\ Past /\ UsesKept
  BY <1>1, NoCallShape
     DEF TokenInit, Alone, On, FileSound, CacheSound, Past, UsesKept, Distinct, Listed, Recs
<1>6. QED
  BY <1>3, <1>4, <1>5 DEF TInv

LEMMA TokenInvCorrect == ASSUME Serial PROVE TokenSpec => []TInv
<1>1. TInv /\ [TokenNext]_tokenVars => TInv'
  BY TokenInductive
<1>2. QED
  BY <1>1, TokenInitial, PTL DEF TokenSpec

\* While calls do not overlap, a use that the running server accepted is in
\* the file or in the buffer, whatever fails and whoever edits the file in the
\* meantime (UsesKept).
THEOREM UsesAreKept == ASSUME Serial PROVE TokenSpec => []UsesKept
<1>1. TInv => UsesKept
  BY DEF TInv
<1>2. QED
  BY <1>1, TokenInvCorrect, PTL

-----------------------------------------------------------------------------
(* What a call makes of the tokens. *)

LEMMA EditedToks ==
    ASSUME NEW op, NEW t \in Tokens, NEW recs \in SUBSET Rec, Distinct(recs)
    PROVE  LET E == Edited(op, t, recs)
               N == Toks(Named(t, recs))
           IN  /\ N \subseteq Toks(recs) /\ (t \in Toks(recs) => t \in N) /\ \A a, b \in N : a = b
               /\ op = "create" => Toks(E) = Toks(recs) \cup {t} /\ Lives(E) = Lives(recs) \cup {t}
               /\ op = "revoke" => Toks(E) = Toks(recs) /\ Lives(E) = Lives(recs) \ N
               /\ op = "delete" => Toks(E) = Toks(recs) \ N /\ Lives(E) = Lives(recs) \ N
               /\ op \notin Edits => E = recs
<1> DEFINE E == Edited(op, t, recs)
           named == Named(t, recs)
           N == Toks(named)
<1>1. \A r \in recs : r \in named <=> AliasOf[r.token] = AliasOf[t]
  BY DEF Named, Alias
<1>2. named \subseteq recs /\ \A q, r \in named : q = r
  BY DEF Named, Distinct
<1>3. N \subseteq Toks(recs) /\ (t \in Toks(recs) => t \in N) /\ \A a, b \in N : a = b
  BY <1>1, <1>2 DEF Toks
<1>4. \A r \in recs : r.token \in N <=> r \in named
  BY <1>1, <1>2 DEF Toks
<1>5. CASE op = "create"
  <2>1. NewRec(t).token = t /\ ~NewRec(t).revoked
    BY DEF NewRec
  <2>2. E = recs \cup {NewRec(t)}
    BY <1>5 DEF Edited, NewRec
  <2>3. Toks(E) = Toks(recs) \cup {t} /\ Lives(E) = Lives(recs) \cup {t}
    BY <2>1, <2>2 DEF Toks, Lives
  <2>4. QED
    BY <1>3, <1>5, <2>3 DEF Edits
<1>6. CASE op = "revoke"
  <2>1. E = (recs \ named) \cup {Revoked(r) : r \in named}
    BY <1>6 DEF Edited, Revoked
  <2>2. \A r \in named : r \in recs /\ Revoked(r).token = r.token /\ Revoked(r).revoked
    BY <1>2, RevokedShape
  <2>3. Toks(E) = Toks(recs)
    BY <1>2, <2>1, <2>2 DEF Toks
  <2>4. \A e \in E : (e \in recs /\ e \notin named) \/ e.revoked
    BY <2>1, <2>2
  <2>5. \A r \in recs : r \notin named => r \in E
    BY <2>1
  <2>6. Lives(E) = Lives(recs) \ N
    BY <1>4, <2>4, <2>5 DEF Lives
  <2>7. QED
    BY <1>3, <1>6, <2>3, <2>6 DEF Edits
<1>7. CASE op = "delete"
  <2>1. E = recs \ named
    BY <1>7 DEF Edited
  <2>2. Toks(E) = Toks(recs) \ N
    BY <1>4, <2>1 DEF Toks
  <2>3. Lives(E) = Lives(recs) \ N
    BY <1>4, <2>1 DEF Lives
  <2>4. QED
    BY <1>3, <1>7, <2>2, <2>3 DEF Edits
<1>8. CASE op \notin Edits
  <2>1. E = recs
    BY <1>8 DEF Edited, Edits
  <2>2. QED
    BY <1>3, <1>8, <2>1 DEF Edits
<1>9. QED
  BY <1>5, <1>6, <1>7, <1>8 DEF Edits

\* The tokens of the file before and after a rename.
LEMMA RenamedToks ==
    ASSUME TInv, NEW s \in Stores, RenameTmp(s),
           NEW N, N = Toks(Named(request[s].token, Recs(tokenFile)))
    PROVE  LET op == request[s].op
               t == request[s].token
               T == Toks(Recs(tokenFile))
               L == Lives(Recs(tokenFile))
               T1 == Toks(Recs(tokenFile'))
               L1 == Lives(Recs(tokenFile'))
           IN  /\ N \subseteq T /\ (t \in T => t \in N) /\ \A a, b \in N : a = b
               /\ t \in Tokens /\ L \subseteq T /\ T \subseteq Tokens
               /\ erased' = erased \cup (T \ T1)
               /\ op = "create" => T1 = T \cup {t} /\ L1 = L \cup {t} /\ t \notin T \cup erased
               /\ op = "revoke" => T1 = T /\ L1 = L \ N
               /\ op = "delete" => T1 = T \ N /\ L1 = L \ N
               /\ op \notin Edits => T1 = T /\ L1 = L
<1> DEFINE q == request[s]
           t == request[s].token
           recs == Recs(tokenFile)
           E == Edited(q.op, t, recs)
<1>1. request[s].pc = "rename" /\ Working(s)
  BY DEF RenameTmp, On, TInv
<1>2. /\ tmp \in File \cup {None} /\ tmp # None /\ tmp.recs = Overlaid(s, q.recs) /\ q.recs = E
      /\ q.op = "create" => t \notin Listed(tokenFile) \cup erased
  BY <1>1 DEF Working, SavingSteps, TInv, TokenTypeOK
<1>3. t \in Tokens /\ recs \in SUBSET Rec /\ Distinct(recs) /\ q.recs \in SUBSET Rec
  BY <1>1 DEF TInv, TokenTypeOK, FileSound, Working, Recs, File
<1>4. tokenFile' = tmp /\ erased' = erased \cup (Listed(tokenFile) \ Listed(tmp))
  BY <1>2 DEF RenameTmp
<1>5. Recs(tokenFile') = Overlaid(s, E) /\ Recs(tmp) = Overlaid(s, E)
  BY <1>2, <1>4 DEF Recs
<1>6. E \in SUBSET Rec
  BY <1>2, <1>3
<1> HIDE DEF E
<1>7. Toks(Recs(tokenFile')) = Toks(E) /\ Lives(Recs(tokenFile')) = Lives(E)
  BY <1>5, <1>6, OverlaidToks
<1>8. erased' = erased \cup (Toks(recs) \ Toks(Recs(tokenFile')))
  BY <1>4 DEF Listed, Toks
<1>9. Lives(recs) \subseteq Toks(recs) /\ Toks(recs) \subseteq Tokens
  BY <1>3 DEF Lives, Toks, Rec
<1>10. t \in Toks(recs) \cup erased => q.op # "create"
  BY <1>2 DEF Listed, Toks
<1>11. /\ N \subseteq Toks(recs) /\ (t \in Toks(recs) => t \in N) /\ \A a, b \in N : a = b
       /\ q.op = "create" => Toks(E) = Toks(recs) \cup {t} /\ Lives(E) = Lives(recs) \cup {t}
       /\ q.op = "revoke" => Toks(E) = Toks(recs) /\ Lives(E) = Lives(recs) \ N
       /\ q.op = "delete" => Toks(E) = Toks(recs) \ N /\ Lives(E) = Lives(recs) \ N
       /\ q.op \notin Edits => E = recs
  <2>1. t \in Tokens /\ recs \in SUBSET Rec /\ Distinct(recs) /\ N = Toks(Named(t, recs))
    BY <1>3
  <2> HIDE DEF q, recs, t
  <2>2. QED
    BY <2>1, EditedToks DEF E
<1>12. QED
  BY <1>3, <1>7, <1>8, <1>9, <1>10, <1>11

-----------------------------------------------------------------------------
(* The registry is the ledger. *)

\* The standing of a token, from the tokens in the file and those live in it.
LEMMA StandingIs ==
    ASSUME TInv, NEW t
    PROVE  Standing(t) = IF t \in Toks(Recs(tokenFile))
                           THEN IF t \in Lives(Recs(tokenFile)) THEN "live" ELSE "revoked"
                           ELSE IF t \in erased THEN "gone" ELSE "unknown"
<1>1. Listed(tokenFile) = Toks(Recs(tokenFile))
  BY DEF Listed, Toks
<1>2. ASSUME t \in Listed(tokenFile) PROVE tokenFile # None
  BY <1>2 DEF Listed, Recs
<1>3. tokenFile # None =>
        ((\E r \in tokenFile.recs : r.token = t /\ ~r.revoked) <=> t \in Lives(Recs(tokenFile)))
  BY DEF Lives, Recs
<1>4. QED
  BY <1>1, <1>2, <1>3 DEF Standing

LEMMA StandingNext ==
    TInv' => \A t : Standing(t)' = IF t \in Toks(Recs(tokenFile'))
                           THEN IF t \in Lives(Recs(tokenFile')) THEN "live" ELSE "revoked"
                           ELSE IF t \in erased' THEN "gone" ELSE "unknown"
<1>1. TInv => \A t : Standing(t) = IF t \in Toks(Recs(tokenFile))
                           THEN IF t \in Lives(Recs(tokenFile)) THEN "live" ELSE "revoked"
                           ELSE IF t \in erased THEN "gone" ELSE "unknown"
  BY StandingIs
<1>2. (TInv => \A t : Standing(t) = IF t \in Toks(Recs(tokenFile))
                           THEN IF t \in Lives(Recs(tokenFile)) THEN "live" ELSE "revoked"
                           ELSE IF t \in erased THEN "gone" ELSE "unknown")'
  BY <1>1, PTL
<1>3. QED
  BY <1>2 DEF Toks, Lives, Recs

Accepted == {<<s, request[s].token>> : s \in {x \in Stores : request[x].granted}}

\* A step that changes the file and the acceptances of no call.
LEMMA Quiet ==
    ASSUME UNCHANGED <<tokenFile, erased>>, Accepted' \subseteq Accepted
    PROVE  Ledger!Answer
<1>1. \A t \in Tokens : Standing(t)' = Standing(t)
  BY DEF Standing, Listed, Recs
<1>2. QED
  BY <1>1 DEF Ledger!Answer, Accepted

\* A call that accepts nothing new.
LEMMA NoneAccepted ==
    ASSUME TInv, NEW s \in Stores, NEW new, To(s, new),
           new.granted => request[s].granted /\ new.token = request[s].token
    PROVE  Accepted' \subseteq Accepted
<1>1. request'[s] = new /\ \A o \in Stores \ {s} : request'[o] = request[o]
  BY DEF TInv, TokenTypeOK, To
<1>2. QED
  BY <1>1 DEF Accepted

LEMMA DecideLedger ==
    ASSUME TInv, NEW s \in Stores, request[s].pc \in {"stat", "restat"}, Decide(s, Recs(tokenFile)),
           UNCHANGED <<tokenFile, erased>>
    PROVE  Ledger!LedgerNext
<1> DEFINE recs == Recs(tokenFile)
<1>1. /\ request[s].token \in Tokens /\ ~request[s].granted /\ \A o \in Stores \ {s} : ~request[o].granted
  BY DEF TInv, TokenTypeOK, Working, Alone, On, SavingSteps
<1>8. PICK t \in Tokens : t = request[s].token
  BY <1>1
<1>2. \A x \in Tokens : Standing(x)' = Standing(x)
  BY DEF Standing, Listed, Recs
<1>3. request \in [Stores -> Call]
  BY DEF TInv, TokenTypeOK, Call
<1>4. CASE To(s, NoCall)
  BY <1>4, NoneAccepted, NoCallShape, Quiet DEF Ledger!LedgerNext
<1>5. CASE request[s].op = "authorize" /\ ~To(s, NoCall)
  <2>1. PICK next \in {"unlink", "answer"} :
          To(s, [request[s] EXCEPT !.pc = next, !.recs = recs, !.granted = TRUE])
    BY <1>5 DEF Decide, Authorize
  <2>2. t \in Lives(recs) /\ t \in Toks(recs)
    BY <1>5, <1>8 DEF Decide, Authorize, Lives, Toks
  <2>3. request[s] \in Call
    BY <1>3
  <2>4. /\ request'[s].granted /\ request'[s].token = t
        /\ \A o \in Stores \ {s} : request'[o] = request[o]
    BY <1>3, <1>8, <2>1, <2>3 DEF To, Call
  <2>5. Accepted = {} /\ Accepted' = {<<s, t>>}
    BY <1>1, <2>4 DEF Accepted
  <2>6. Standing(t) = "live"
    BY <2>2, StandingIs
  <2>7. Ledger!Accept(s, t)
    BY <1>1, <1>2, <2>5, <2>6 DEF Ledger!Accept, Accepted
  <2>8. QED
    BY <2>7 DEF Ledger!LedgerNext
<1>6. CASE request[s].op # "authorize" /\ ~To(s, NoCall)
  <2>1. Edit(s, recs)
    BY <1>6 DEF Decide
  <2>2. PICK edited : To(s, [request[s] EXCEPT !.pc = "unlink", !.recs = edited])
    BY <1>6, <2>1 DEF Edit
  <2>3. request[s] \in Call
    BY <1>3
  <2>4. Accepted' \subseteq Accepted
    BY <1>1, <2>2, <2>3, NoneAccepted DEF Call
  <2>5. QED
    BY <2>4, Quiet DEF Ledger!LedgerNext
<1>7. QED
  BY <1>4, <1>5, <1>6

LEMMA RenameLedger ==
    ASSUME TInv, TInv', NEW s \in Stores, RenameTmp(s)
    PROVE  Ledger!LedgerNext
<1> DEFINE op == request[s].op
           t == request[s].token
           N == Toks(Named(t, Recs(tokenFile)))
           T == Toks(Recs(tokenFile))
           L == Lives(Recs(tokenFile))
           T1 == Toks(Recs(tokenFile'))
           L1 == Lives(Recs(tokenFile'))
           Now(x) == IF x \in T THEN IF x \in L THEN "live" ELSE "revoked"
                               ELSE IF x \in erased THEN "gone" ELSE "unknown"
           Then(x) == IF x \in T1 THEN IF x \in L1 THEN "live" ELSE "revoked"
                                ELSE IF x \in erased' THEN "gone" ELSE "unknown"
<1>1. /\ N \subseteq T /\ (t \in T => t \in N) /\ \A a, b \in N : a = b
      /\ t \in Tokens /\ L \subseteq T /\ T \subseteq Tokens
      /\ erased' = erased \cup (T \ T1)
      /\ op = "create" => T1 = T \cup {t} /\ L1 = L \cup {t} /\ t \notin T \cup erased
      /\ op = "revoke" => T1 = T /\ L1 = L \ N
      /\ op = "delete" => T1 = T \ N /\ L1 = L \ N
      /\ op \notin Edits => T1 = T /\ L1 = L
  BY RenamedToks
<1>2. \A x \in Tokens : Standing(x) = Now(x) /\ Standing(x)' = Then(x)
  BY StandingIs, StandingNext
<1>3. Accepted' = Accepted
  <2>1. /\ tmp # None /\ Goto(s, "recache")
    BY DEF RenameTmp, TInv, Working, On
  <2>2. request \in [Stores -> Call] /\ request[s] \in Call
    BY DEF TInv, TokenTypeOK, Call
  <2>3. /\ request'[s].token = t /\ request'[s].granted = request[s].granted
        /\ \A o \in Stores \ {s} : request'[o] = request[o]
    BY <2>1, <2>2 DEF Goto, To, Call
  <2>4. \A o \in Stores : request'[o].token = request[o].token /\ request'[o].granted = request[o].granted
    BY <2>3
  <2>5. QED
    BY <2>4 DEF Accepted
<1>4. T \cap erased = {}
  BY DEF TInv, Past, Listed, Toks
<1> HIDE DEF op, t, N, T, L, T1, L1
<1>5. ASSUME NEW x \in Tokens, NEW from, NEW to, Now(x) \in from, Then(x) = to,
             \A y \in Tokens \ {x} : Then(y) = Now(y)
      PROVE  Ledger!Change(x, from, to)
  <2>1. [y \in Tokens |-> Standing(y)]' = [[y \in Tokens |-> Standing(y)] EXCEPT ![x] = to]
    BY <1>2, <1>5
  <2>2. QED
    BY <1>2, <1>3, <1>5, <2>1 DEF Ledger!Change, Accepted
<1>6. ASSUME \A x \in Tokens : Then(x) = Now(x)
      PROVE  Ledger!Answer
  BY <1>2, <1>3, <1>6 DEF Ledger!Answer, Accepted
<1>7. CASE op = "create"
  <2>1. Now(t) = "unknown" /\ Then(t) = "live" /\ \A y \in Tokens \ {t} : Then(y) = Now(y)
    BY <1>1, <1>7
  <2>2. Ledger!Change(t, {"unknown"}, "live")
    BY <1>1, <1>5, <2>1
  <2>3. QED
    BY <1>1, <2>2 DEF Ledger!LedgerNext
<1>8. CASE op = "revoke" /\ N \cap L # {}
  <2>1. PICK x \in N : x \in L
    BY <1>8
  <2>2. x \in Tokens /\ N = {x}
    BY <1>1, <2>1
  <2>3. Now(x) = "live" /\ Then(x) = "revoked" /\ \A y \in Tokens \ {x} : Then(y) = Now(y)
    BY <1>1, <1>8, <2>1, <2>2
  <2>4. Ledger!Change(x, {"live"}, "revoked")
    BY <1>5, <2>2, <2>3
  <2>5. QED
    BY <2>2, <2>4 DEF Ledger!LedgerNext
<1>9. CASE op = "delete" /\ N # {}
  <2>1. PICK x \in N : TRUE
    BY <1>9
  <2>2. x \in Tokens /\ N = {x} /\ x \in T
    BY <1>1, <2>1
  <2>3. Now(x) \in {"live", "revoked"} /\ Then(x) = "gone" /\ \A y \in Tokens \ {x} : Then(y) = Now(y)
    BY <1>1, <1>9, <2>1, <2>2
  <2>4. Ledger!Change(x, {"live", "revoked"}, "gone")
    BY <1>5, <2>2, <2>3
  <2>5. QED
    BY <2>2, <2>4 DEF Ledger!LedgerNext
<1>10. CASE (op = "revoke" /\ N \cap L = {}) \/ (op = "delete" /\ N = {}) \/ op \notin Edits
  <2>1. T1 = T /\ L1 = L /\ erased' = erased
    BY <1>1, <1>10
  <2>2. \A x \in Tokens : Then(x) = Now(x)
    BY <2>1
  <2>3. QED
    BY <1>6, <2>2 DEF Ledger!LedgerNext
<1>11. QED
  BY <1>7, <1>8, <1>9, <1>10 DEF Edits

LEMMA LedgerStep ==
    ASSUME Serial, TInv, TInv', [TokenNext]_tokenVars
    PROVE  [Ledger!LedgerNext]_(Ledger!ledgerVars)
<1>1. ASSUME NEW s \in Stores, BeginTokenCall(s) PROVE Ledger!LedgerNext
  <2>1. PICK t \in Tokens, op \in {"authorize", "flush", "create", "revoke", "delete"} :
          To(s, NewCall(op, t, t \in dead))
    BY <1>1 DEF BeginTokenCall, NewCall
  <2>2. op \in {"authorize", "flush"} \cup Edits /\ (t \in dead) \in BOOLEAN
    BY DEF Edits
  <2>3. ~NewCall(op, t, t \in dead).granted
    BY <2>2, NewCallShape
  <2>4. UNCHANGED <<tokenFile, erased>>
    BY <1>1 DEF BeginTokenCall, files
  <2>5. QED
    BY <2>1, <2>3, <2>4, NoneAccepted, Quiet DEF Ledger!LedgerNext
<1>2. ASSUME NEW s \in Stores, StatFile(s) PROVE Ledger!LedgerNext
  <2>1. request[s].pc = "stat" /\ UNCHANGED <<tokenFile, erased>> /\ request[s] \in Call
    BY <1>2 DEF StatFile, On, files, tokenHistory, TInv, TokenTypeOK, Call
  <2>2. CASE s = Server /\ cached # None /\ cached.stamp = Stamp(tokenFile)
    BY <1>2, <2>1, <2>2, DecideLedger DEF StatFile, TInv, CacheSound
  <2>3. CASE ~(s = Server /\ cached # None /\ cached.stamp = Stamp(tokenFile))
    <3>1. To(s, [request[s] EXCEPT !.pc = "read"])
      BY <1>2, <2>3 DEF StatFile, Goto
    <3>2. QED
      BY <2>1, <3>1, NoneAccepted, Quiet DEF Ledger!LedgerNext, Call
  <2>4. QED
    BY <2>2, <2>3
<1>3. ASSUME NEW s \in Stores, Restat(s) PROVE Ledger!LedgerNext
  BY <1>3, DecideLedger DEF Restat, On, files, tokenHistory, TInv, Working
<1>4. ASSUME NEW s \in Stores, RenameTmp(s) PROVE Ledger!LedgerNext
  BY <1>4, RenameLedger
<1>5. ASSUME NEW s \in Stores,
             ReadFile(s) \/ UnlinkTmp(s) \/ OpenTmp(s) \/ WriteTmp(s) \/ Recache(s)
               \/ AnswerYes(s) \/ StoreFault(s) \/ Killed(s)
      PROVE  Ledger!LedgerNext
  <2>1. UNCHANGED <<tokenFile, erased>>
    <3>1. CASE WriteTmp(s)
      BY <3>1, NoneAssumption DEF WriteTmp, TInv, FileSound, tokenHistory
    <3>2. CASE ~WriteTmp(s)
      BY <1>5, <3>2 DEF ReadFile, UnlinkTmp, OpenTmp, Recache, AnswerYes, StoreFault, Killed,
                        files, tokenHistory
    <3>3. QED
      BY <3>1, <3>2
  <2>2. request[s] \in Call
    BY DEF TInv, TokenTypeOK, Call
  <2>3. PICK new : To(s, new) /\ (new.granted => request[s].granted /\ new.token = request[s].token)
    <3>1. CASE ReadFile(s)
      <4>1. \/ To(s, NoCall) \/ To(s, [request[s] EXCEPT !.pc = "restat", !.recs = Recs(tokenFile)])
        BY <3>1 DEF ReadFile
      <4>2. CASE To(s, NoCall)
        BY <4>2, NoCallShape
      <4>3. CASE ~To(s, NoCall)
        <5> DEFINE new == [request[s] EXCEPT !.pc = "restat", !.recs = Recs(tokenFile)]
        <5>1. new.granted = request[s].granted /\ new.token = request[s].token /\ To(s, new)
          BY <2>2, <4>1, <4>3 DEF Call
        <5> HIDE DEF new
        <5>2. QED
          BY <5>1
      <4>4. QED
        BY <4>2, <4>3
    <3>2. CASE ~ReadFile(s)
      <4>1. \/ To(s, NoCall)
            \/ \E pc : To(s, [request[s] EXCEPT !.pc = pc])
        BY <1>5, <3>2 DEF UnlinkTmp, OpenTmp, WriteTmp, Recache, AnswerYes, StoreFault, Killed,
                          Acknowledge, Failed, Goto
      <4>2. CASE To(s, NoCall)
        BY <4>2, NoCallShape
      <4>3. CASE ~To(s, NoCall)
        <5>1. PICK pc : To(s, [request[s] EXCEPT !.pc = pc])
          BY <4>1, <4>3
        <5> DEFINE new == [request[s] EXCEPT !.pc = pc]
        <5>2. new.granted = request[s].granted /\ new.token = request[s].token /\ To(s, new)
          BY <2>2, <5>1 DEF Call
        <5> HIDE DEF new
        <5>3. QED
          BY <5>2
      <4>4. QED
        BY <4>2, <4>3
    <3>3. QED
      BY <3>1, <3>2
  <2>4. QED
    BY <2>1, <2>3, NoneAccepted, Quiet DEF Ledger!LedgerNext
<1>6. CASE UNCHANGED tokenVars
  <2>1. \A t \in Tokens : Standing(t)' = Standing(t)
    BY <1>6 DEF tokenVars, Standing, Listed, Recs
  <2>2. QED
    BY <1>6, <2>1 DEF tokenVars, Ledger!ledgerVars
<1>7. QED
  BY <1>1, <1>2, <1>3, <1>4, <1>5, <1>6 DEF TokenNext

\* While calls do not overlap, the file, the cache, the buffer and the
\* temporary file together are the ledger, through every fault and restart: a
\* token is issued once, its revocation or deletion is final, and it is
\* accepted only while it is live (ImplementsLedger).
THEOREM LedgerImplemented == ASSUME Serial PROVE TokenSpec => ImplementsLedger
<1>1. TokenInit => Ledger!LedgerInit
  <2>1. ASSUME TokenInit PROVE \A t \in Tokens : Standing(t) = "unknown"
    BY <2>1 DEF TokenInit, Standing, Listed, Recs
  <2>2. ASSUME TokenInit PROVE \A s \in Stores : ~request[s].granted
    BY <2>2, NoCallShape DEF TokenInit
  <2>3. QED
    BY <2>1, <2>2 DEF Ledger!LedgerInit
<1>2. TInv /\ TInv' /\ [TokenNext]_tokenVars => [Ledger!LedgerNext]_(Ledger!ledgerVars)
  BY LedgerStep
<1>3. QED
  BY <1>1, <1>2, TokenInvCorrect, PTL DEF TokenSpec, ImplementsLedger, Ledger!LedgerSpec

-----------------------------------------------------------------------------
(* A revocation holds. *)

\* A step of one call that accepts nothing too late and puts nothing in the file.
LEMMA DeadFrame ==
    ASSUME TInv, DeadStays, RevocationHolds, NEW s \in Stores, NEW new, To(s, new),
           UNCHANGED <<tokenFile, dead>>, issued \subseteq issued',
           \/ new = NoCall
           \/ /\ request[s].pc # "idle" /\ new.pc # "recache" /\ ~(new.granted /\ new.late)
              /\ new.op = request[s].op /\ new.token = request[s].token /\ new.late = request[s].late
    PROVE  DeadStays' /\ RevocationHolds'
<1>1. request'[s] = new /\ \A o \in Stores \ {s} : request'[o] = request[o]
  BY DEF TInv, TokenTypeOK, To
<1>2. ASSUME NEW o \in Stores
      PROVE  /\ ~(request'[o].granted /\ request'[o].late)
             /\ request'[o].late => request'[o].token \in dead
             /\ request'[o].op = "create" /\ request'[o].pc # "idle" => request'[o].token \notin dead
             /\ request'[o].op \in {"revoke", "delete"} /\ request'[o].pc = "recache" =>
                  request'[o].token \notin Lives(Recs(tokenFile))
  <2>1. CASE o # s
    BY <1>1, <2>1 DEF DeadStays, RevocationHolds
  <2>2. CASE o = s /\ new = NoCall
    BY <1>1, <2>2, NoCallShape
  <2>3. CASE o = s /\ new # NoCall
    BY <1>1, <2>3 DEF DeadStays
  <2>4. QED
    BY <2>1, <2>2, <2>3
<1>3. RevocationHolds'
  BY <1>2 DEF RevocationHolds
<1>4. Lives(Recs(tokenFile))' = Lives(Recs(tokenFile))
  BY DEF Lives, Recs
<1>5. DeadStays'
  BY <1>2, <1>4 DEF DeadStays
<1>6. QED
  BY <1>3, <1>5

LEMMA DecideDead ==
    ASSUME TInv, DeadStays, RevocationHolds, NEW s \in Stores, request[s].pc \in {"stat", "restat"},
           Decide(s, Recs(tokenFile)), UNCHANGED <<tokenFile, dead, issued>>
    PROVE  DeadStays' /\ RevocationHolds'
<1>1. request[s] \in Call /\ ~request[s].granted
  BY DEF TInv, TokenTypeOK, Call, Working, SavingSteps
<1>2. CASE To(s, NoCall)
  BY <1>2, DeadFrame
<1>3. CASE request[s].op = "authorize" /\ ~To(s, NoCall)
  <2>1. PICK next \in {"unlink", "answer"} :
          To(s, [request[s] EXCEPT !.pc = next, !.recs = Recs(tokenFile), !.granted = TRUE])
    BY <1>3 DEF Decide, Authorize
  <2>2. request[s].token \in Lives(Recs(tokenFile))
    BY <1>3 DEF Decide, Authorize, Lives
  <2>3. ~request[s].late
    BY <2>2 DEF DeadStays
  <2> DEFINE new == [request[s] EXCEPT !.pc = next, !.recs = Recs(tokenFile), !.granted = TRUE]
  <2>4. /\ new.pc = next /\ new.op = request[s].op /\ new.token = request[s].token
        /\ new.late = request[s].late /\ To(s, new)
    BY <1>1, <2>1 DEF Call
  <2> HIDE DEF new
  <2>5. QED
    BY <2>3, <2>4, DeadFrame
<1>4. CASE request[s].op # "authorize" /\ ~To(s, NoCall)
  <2>1. Edit(s, Recs(tokenFile))
    BY <1>4 DEF Decide
  <2>2. PICK edited : To(s, [request[s] EXCEPT !.pc = "unlink", !.recs = edited])
    BY <1>4, <2>1 DEF Edit
  <2> DEFINE new == [request[s] EXCEPT !.pc = "unlink", !.recs = edited]
  <2>3. /\ new.pc = "unlink" /\ new.op = request[s].op /\ new.token = request[s].token
        /\ new.late = request[s].late /\ ~new.granted /\ To(s, new)
    BY <1>1, <2>2 DEF Call
  <2> HIDE DEF new
  <2>4. QED
    BY <2>3, DeadFrame
<1>5. QED
  BY <1>2, <1>3, <1>4

\* A rename puts no dead token back.
LEMMA RenameDead ==
    ASSUME TInv, DeadStays, RevocationHolds, NEW s \in Stores, RenameTmp(s)
    PROVE  DeadStays' /\ RevocationHolds'
<1> DEFINE op == request[s].op
           t == request[s].token
           N == Toks(Named(t, Recs(tokenFile)))
           T == Toks(Recs(tokenFile))
           L == Lives(Recs(tokenFile))
           T1 == Toks(Recs(tokenFile'))
           L1 == Lives(Recs(tokenFile'))
<1>1. /\ (t \in T => t \in N) /\ L \subseteq T
      /\ op = "create" => L1 = L \cup {t}
      /\ op = "revoke" => L1 = L \ N
      /\ op = "delete" => L1 = L \ N
      /\ op \notin Edits => L1 = L
  BY RenamedToks
<1>2. /\ request[s].pc = "rename" /\ tmp # None /\ Goto(s, "recache") /\ ~On(s, "idle")
      /\ dead' = dead /\ issued' = issued
  BY DEF RenameTmp, TInv, Working, On
<1>3. request \in [Stores -> Call] /\ request[s] \in Call
  BY DEF TInv, TokenTypeOK, Call
<1>4. /\ request'[s].pc = "recache" /\ request'[s].op = op /\ request'[s].token = t
      /\ request'[s].granted = request[s].granted /\ request'[s].late = request[s].late
      /\ \A o \in Stores \ {s} : request'[o] = request[o] /\ request[o].pc = "idle"
  BY <1>2, <1>3 DEF Goto, To, Call, TInv, Alone, On
<1>5. op = "create" => t \notin dead
  BY <1>2 DEF DeadStays
<1>6. dead \cap L1 = {}
  BY <1>1, <1>5 DEF DeadStays, Edits
<1>7. op \in {"revoke", "delete"} => t \notin L1
  BY <1>1
<1>8. Lives(Recs(tokenFile))' = L1
  BY DEF Lives, Recs
<1> HIDE DEF op, t, N, T, L, T1, L1
<1>9. RevocationHolds'
  BY <1>4 DEF RevocationHolds
<1>10. ASSUME NEW o \in Stores
       PROVE  /\ request'[o].late => request'[o].token \in dead
              /\ request'[o].op = "create" /\ request'[o].pc # "idle" => request'[o].token \notin dead
              /\ request'[o].op \in {"revoke", "delete"} /\ request'[o].pc = "recache" =>
                   request'[o].token \notin L1
  BY <1>4, <1>5, <1>7 DEF DeadStays, t
<1>11. DeadStays'
  BY <1>2, <1>6, <1>8, <1>10 DEF DeadStays
<1>12. QED
  BY <1>9, <1>11

LEMMA RecacheDead ==
    ASSUME TInv, DeadStays, RevocationHolds, NEW s \in Stores, Recache(s)
    PROVE  DeadStays' /\ RevocationHolds'
<1>1. request[s].pc = "recache" /\ request[s].token \in issued
      /\ UNCHANGED <<tokenFile, issued>> /\ (request[s].granted => request[s].op = "authorize")
  BY DEF Recache, On, files, TInv, Working
<1>2. request \in [Stores -> Call] /\ request[s] \in Call
  BY DEF TInv, TokenTypeOK, Call
<1>3. CASE request[s].op \notin {"revoke", "delete"}
  <2>1. dead' = dead
    BY <1>3 DEF Recache, Acknowledge
  <2>2. CASE To(s, NoCall)
    BY <1>1, <2>1, <2>2, DeadFrame
  <2>3. CASE ~To(s, NoCall)
    <3> DEFINE new == [request[s] EXCEPT !.pc = "answer"]
    <3>1. /\ new.pc = "answer" /\ new.op = request[s].op /\ new.token = request[s].token
          /\ new.late = request[s].late /\ new.granted = request[s].granted /\ To(s, new)
      BY <1>2, <2>3 DEF Recache, Acknowledge, Call
    <3> HIDE DEF new
    <3>2. ~(new.granted /\ new.late)
      BY <3>1 DEF RevocationHolds
    <3>3. QED
      BY <1>1, <2>1, <3>1, <3>2, DeadFrame
  <2>4. QED
    BY <2>2, <2>3
<1>4. CASE request[s].op \in {"revoke", "delete"}
  <2>1. To(s, NoCall) /\ dead' = dead \cup {request[s].token}
    BY <1>1, <1>4 DEF Recache, Acknowledge
  <2>2. request'[s] = NoCall /\ \A o \in Stores \ {s} : request'[o] = request[o] /\ request[o].pc = "idle"
    BY <1>1, <1>2, <2>1 DEF To, TInv, Alone, On
  <2>3. Lives(Recs(tokenFile))' = Lives(Recs(tokenFile))
    BY <1>1 DEF Lives, Recs
  <2>4. dead' \cap Lives(Recs(tokenFile)) = {} /\ dead' \subseteq issued
    BY <1>1, <1>4, <2>1 DEF DeadStays
  <2>5. RevocationHolds'
    BY <2>2, NoCallShape DEF RevocationHolds
  <2>6. \A o \in Stores : (request'[o].late => request'[o].token \in dead') /\ request'[o].pc = "idle"
    BY <2>1, <2>2, NoCallShape DEF DeadStays
  <2>7. DeadStays'
    BY <1>1, <2>3, <2>4, <2>6 DEF DeadStays
  <2>8. QED
    BY <2>5, <2>7
<1>5. QED
  BY <1>3, <1>4

LEMMA BeginDead ==
    ASSUME TInv, DeadStays, RevocationHolds, NEW s \in Stores, BeginTokenCall(s)
    PROVE  DeadStays' /\ RevocationHolds'
<1>1. PICK t \in Tokens, op \in {"authorize", "flush", "create", "revoke", "delete"} :
        /\ op = "create" <=> t \notin issued
        /\ issued' = issued \cup {t}
        /\ To(s, NewCall(op, t, t \in dead))
  BY DEF BeginTokenCall, NewCall
<1>2. UNCHANGED <<tokenFile, dead>>
  BY DEF BeginTokenCall, files
<1>3. op \in {"authorize", "flush"} \cup Edits /\ (t \in dead) \in BOOLEAN
  BY DEF Edits
<1>4. /\ NewCall(op, t, t \in dead).pc = "stat" /\ NewCall(op, t, t \in dead).op = op
      /\ NewCall(op, t, t \in dead).token = t /\ ~NewCall(op, t, t \in dead).granted
      /\ NewCall(op, t, t \in dead).late = (t \in dead)
  BY <1>3, NewCallShape
<1>5. request \in [Stores -> Call]
  BY DEF TInv, TokenTypeOK, Call
<1>6. /\ request'[s].pc = "stat" /\ request'[s].op = op /\ request'[s].token = t
      /\ ~request'[s].granted /\ request'[s].late = (t \in dead)
      /\ \A o \in Stores \ {s} : request'[o] = request[o]
  BY <1>1, <1>4, <1>5 DEF To
<1>7. op = "create" => t \notin dead
  BY <1>1 DEF DeadStays
<1>8. RevocationHolds'
  BY <1>6 DEF RevocationHolds
<1>9. ASSUME NEW o \in Stores
      PROVE  /\ request'[o].late => request'[o].token \in dead
             /\ request'[o].op = "create" /\ request'[o].pc # "idle" => request'[o].token \notin dead
             /\ request'[o].op \in {"revoke", "delete"} /\ request'[o].pc = "recache" =>
                  request'[o].token \notin Lives(Recs(tokenFile))
  BY <1>6, <1>7 DEF DeadStays
<1>10. Lives(Recs(tokenFile))' = Lives(Recs(tokenFile))
  BY <1>2 DEF Lives, Recs
<1>11. DeadStays'
  BY <1>1, <1>2, <1>9, <1>10 DEF DeadStays
<1>12. QED
  BY <1>8, <1>11

LEMMA DeadInductive ==
    ASSUME TInv, DeadStays, RevocationHolds, [TokenNext]_tokenVars
    PROVE  DeadStays' /\ RevocationHolds'
<1>1. ASSUME NEW s \in Stores, StatFile(s) PROVE DeadStays' /\ RevocationHolds'
  <2>1. request[s].pc = "stat" /\ UNCHANGED <<tokenFile, dead, issued>> /\ request[s] \in Call
    BY <1>1 DEF StatFile, On, files, tokenHistory, TInv, TokenTypeOK, Call
  <2>2. CASE s = Server /\ cached # None /\ cached.stamp = Stamp(tokenFile)
    BY <1>1, <2>1, <2>2, DecideDead DEF StatFile, TInv, CacheSound
  <2>3. CASE ~(s = Server /\ cached # None /\ cached.stamp = Stamp(tokenFile))
    <3> DEFINE new == [request[s] EXCEPT !.pc = "read"]
    <3>1. /\ new.pc = "read" /\ new.op = request[s].op /\ new.token = request[s].token
          /\ new.late = request[s].late /\ new.granted = request[s].granted /\ To(s, new)
      BY <1>1, <2>1, <2>3 DEF StatFile, Goto, Call
    <3> HIDE DEF new
    <3>2. QED
      BY <2>1, <3>1, DeadFrame DEF RevocationHolds
  <2>4. QED
    BY <2>2, <2>3
<1>2. ASSUME NEW s \in Stores, Restat(s) PROVE DeadStays' /\ RevocationHolds'
  BY <1>2, DecideDead DEF Restat, On, files, tokenHistory, TInv, Working
<1>3. ASSUME NEW s \in Stores,
             ReadFile(s) \/ UnlinkTmp(s) \/ OpenTmp(s) \/ WriteTmp(s) \/ AnswerYes(s)
               \/ StoreFault(s) \/ Killed(s)
      PROVE  DeadStays' /\ RevocationHolds'
  <2>1. UNCHANGED <<tokenFile, dead, issued>>
    <3>1. CASE WriteTmp(s)
      BY <3>1, NoneAssumption DEF WriteTmp, TInv, FileSound, tokenHistory
    <3>2. CASE ~WriteTmp(s)
      BY <1>3, <3>2 DEF ReadFile, UnlinkTmp, OpenTmp, AnswerYes, StoreFault, Killed, files, tokenHistory
    <3>3. QED
      BY <3>1, <3>2
  <2>2. request[s] \in Call /\ request[s].pc # "idle" /\ ~(request[s].granted /\ request[s].late)
    BY <1>3 DEF TInv, TokenTypeOK, Call, RevocationHolds, On, ReadFile, UnlinkTmp, OpenTmp, WriteTmp,
                AnswerYes, StoreFault, Killed
  <2>3. CASE To(s, NoCall)
    BY <2>1, <2>3, DeadFrame
  <2>4. CASE ~To(s, NoCall)
    <3>1. \/ To(s, [request[s] EXCEPT !.pc = "restat", !.recs = Recs(tokenFile)])
          \/ \E pc \in {"open", "write", "rename", "answer"} : To(s, [request[s] EXCEPT !.pc = pc])
      BY <1>3, <2>4 DEF ReadFile, UnlinkTmp, OpenTmp, WriteTmp, AnswerYes, StoreFault, Killed, Failed, Goto
    <3>2. PICK new : /\ To(s, new) /\ new.pc # "recache" /\ new.op = request[s].op
                     /\ new.token = request[s].token /\ new.late = request[s].late
                     /\ new.granted = request[s].granted
      <4>1. CASE To(s, [request[s] EXCEPT !.pc = "restat", !.recs = Recs(tokenFile)])
        <5> DEFINE new == [request[s] EXCEPT !.pc = "restat", !.recs = Recs(tokenFile)]
        <5>1. /\ To(s, new) /\ new.pc = "restat" /\ new.op = request[s].op /\ new.granted = request[s].granted
              /\ new.token = request[s].token /\ new.late = request[s].late
          BY <2>2, <4>1 DEF Call
        <5> HIDE DEF new
        <5>2. QED
          BY <5>1
      <4>2. ASSUME NEW pc \in {"open", "write", "rename", "answer"}, To(s, [request[s] EXCEPT !.pc = pc])
            PROVE  \E new : /\ To(s, new) /\ new.pc # "recache" /\ new.op = request[s].op
                            /\ new.token = request[s].token /\ new.late = request[s].late
                            /\ new.granted = request[s].granted
        <5> DEFINE new == [request[s] EXCEPT !.pc = pc]
        <5>1. /\ To(s, new) /\ new.pc = pc /\ new.op = request[s].op /\ new.granted = request[s].granted
              /\ new.token = request[s].token /\ new.late = request[s].late
          BY <2>2, <4>2 DEF Call
        <5> HIDE DEF new
        <5>2. QED
          BY <5>1
      <4>3. QED
        BY <3>1, <4>1, <4>2
    <3>3. QED
      BY <2>1, <2>2, <3>2, DeadFrame
  <2>5. QED
    BY <2>3, <2>4
<1>4. CASE UNCHANGED tokenVars
  BY <1>4 DEF tokenVars, DeadStays, RevocationHolds, Lives, Recs
<1>5. QED
  BY <1>1, <1>2, <1>3, <1>4, BeginDead, RenameDead, RecacheDead DEF TokenNext

\* While calls do not overlap, no request that came after a revocation or a
\* deletion had returned is accepted, whatever the cache of the server holds
\* (RevocationHolds; the calls of two processes do overlap, and then it fails).
THEOREM RevocationHoldsAlone == ASSUME Serial PROVE TokenSpec => []RevocationHolds
<1>1. TokenInit => DeadStays /\ RevocationHolds
  <2>1. TokenInit => \A s \in Stores : request[s] = NoCall
    BY DEF TokenInit
  <2>2. QED
    BY <2>1, NoCallShape DEF TokenInit, DeadStays, RevocationHolds
<1>2. TInv /\ DeadStays /\ RevocationHolds /\ [TokenNext]_tokenVars => DeadStays' /\ RevocationHolds'
  BY DeadInductive
<1>3. QED
  BY <1>1, <1>2, TokenInvCorrect, PTL DEF TokenSpec

================================================================================
