---------------------------- MODULE SidecarProofs ----------------------------
(***************************************************************************)
(* Proofs about a vector sidecar and what is made of it, for every number  *)
(* of thoughts, rebuilds, crashes and failures.  Its two files replay to   *)
(* what was flushed of it, and a load returns it (SidecarWal); no vector   *)
(* that is still to come is forgotten (EmbedPipeline); the overlay of      *)
(* implicit edges is the one a comparison of every pair would give         *)
(* (EdgeOverlay).                                                          *)
(*                                                                         *)
(* About the files: the log is a run of records of one generation up to    *)
(* the last that was written; the snapshot is of that generation and       *)
(* between the run's ends; so the records it covers are skipped and the    *)
(* others extend it.  A compaction must establish the same of what it is   *)
(* about to put in place, and a rebuild of the snapshot it leaves to be    *)
(* adopted, although neither holds derived_flush_lock all the time.        *)
(*                                                                         *)
(* About the overlay: a list cut to its nearest K and pushed to is the     *)
(* list of the nearest K of all that were pushed (NearestStep), so an      *)
(* overlay that takes thoughts in their order is right (AddedFits); and    *)
(* inline, from a scan or by a replay, thoughts are added in the order of  *)
(* the sidecar, because those that are still to come stand in one line,    *)
(* the items of the scan and then the queue (Due, InLine).                 *)
(***************************************************************************)
EXTENDS SidecarWal, EmbedPipeline, EdgeOverlay, Integers, TLAPS, SequenceTheorems,
        FiniteSetTheorems, WellFoundedInduction

-----------------------------------------------------------------------------

(* Digests. *)

LEMMA PairDigests ==
    ASSUME NEW gen, NEW count
    PROVE  /\ Gen(<<gen, count>>) = gen /\ Count(<<gen, count>>) = count
           /\ <<gen, count>> \in Digest <=> gen \in 0 .. MaxRebuilds /\ count \in 0 .. MaxEntries
  BY DEF Gen, Count, Digest

LEMMA DigestPairs ==
    ASSUME NEW d \in Digest
    PROVE  /\ d = <<Gen(d), Count(d)>>
           /\ Gen(d) \in 0 .. MaxRebuilds /\ Gen(d) \in Nat
           /\ Count(d) \in 0 .. MaxEntries /\ Count(d) \in Nat
           /\ d # Bad /\ d # NoDigest /\ d # Stub /\ d # Torn
  BY BoundAssumption DEF Gen, Count, Digest, Bad, NoDigest, Stub, Torn

LEMMA Marks ==
    /\ Gen(Stub) = MaxRebuilds + 3 /\ Gen(Torn) = MaxRebuilds + 4
    /\ MaxRebuilds \in Nat /\ MaxEntries \in Nat
  BY BoundAssumption DEF Gen, Stub, Torn

-----------------------------------------------------------------------------
(* Runs of records. *)

\* What a log may hold.
Record == Digest \cup {Stub, Torn}

\* The records of one generation, up to the one of that count.
EndsAt(log, gen, count) ==
    /\ log \in Seq(Digest)
    /\ \A i \in 1 .. Len(log) : log[i] = <<gen, count - Len(log) + i>>
\* The records of one generation that follow that count.
StartsAfter(log, gen, count) ==
    /\ log \in Seq(Digest)
    /\ \A i \in 1 .. Len(log) : log[i] = <<gen, count + i>>
Chained(log) ==
    /\ log \in Seq(Digest)
    /\ \A i \in 1 .. Len(log) : log[i] = <<Gen(log[1]), Count(log[1]) - 1 + i>>

LEMMA Suffix ==
    ASSUME NEW S, NEW log \in Seq(S), NEW k \in 0 .. Len(log)
    PROVE  /\ SubSeq(log, k + 1, Len(log)) \in Seq(S)
           /\ Len(SubSeq(log, k + 1, Len(log))) = Len(log) - k
           /\ \A i \in 1 .. Len(log) - k :
                 SubSeq(log, k + 1, Len(log))[i] = log[k + i] /\ k + i \in 1 .. Len(log)
<1>1. Len(log) \in Nat /\ \A i \in k + 1 .. Len(log) : log[i] \in S
  OBVIOUS
<1>2. /\ SubSeq(log, k + 1, Len(log)) \in Seq(S)
      /\ Len(SubSeq(log, k + 1, Len(log))) =
            IF k + 1 <= Len(log) THEN Len(log) - (k + 1) + 1 ELSE 0
  BY <1>1, SubSeqProperties
<1>3. Len(SubSeq(log, k + 1, Len(log))) = Len(log) - k
  BY <1>1, <1>2
<1>4. \A i \in 1 .. Len(log) - k :
         SubSeq(log, k + 1, Len(log))[i] = log[k + i] /\ k + i \in 1 .. Len(log)
  BY <1>1, <1>2, <1>3
<1>5. QED
  BY <1>2, <1>3, <1>4

LEMMA EmptyRuns ==
    ASSUME NEW gen, NEW count
    PROVE  /\ EndsAt(<<>>, gen, count) /\ StartsAfter(<<>>, gen, count) /\ Chained(<<>>)
           /\ Len(<<>>) = 0
  BY DEF EndsAt, StartsAfter, Chained

LEMMA EndsAtAppend ==
    ASSUME NEW gen, NEW count \in Int, NEW log, EndsAt(log, gen, count),
           <<gen, count + 1>> \in Digest
    PROVE  /\ EndsAt(Append(log, <<gen, count + 1>>), gen, count + 1)
           /\ Len(Append(log, <<gen, count + 1>>)) = Len(log) + 1
<1> DEFINE d == <<gen, count + 1>>
           t == Append(log, d)
<1>1. log \in Seq(Digest) /\ \A i \in 1 .. Len(log) : log[i] = <<gen, count - Len(log) + i>>
  BY DEF EndsAt
<1>d. d \in Digest
  OBVIOUS
<1> HIDE DEF d
<1>2. /\ t \in Seq(Digest) /\ Len(t) = Len(log) + 1 /\ t[Len(log) + 1] = d
      /\ \A i \in 1 .. Len(log) : t[i] = log[i]
  BY <1>1, <1>d
<1>3. ASSUME NEW i \in 1 .. Len(t)
      PROVE  t[i] = <<gen, (count + 1) - Len(t) + i>>
  <2>1. Len(log) \in Nat
    BY <1>1
  <2>2. CASE i = Len(log) + 1
    <3>1. (count + 1) - Len(t) + i = count + 1
      BY <2>1, <2>2, <1>2
    <3>2. QED
      BY <3>1, <2>2, <1>2 DEF d
  <2>3. CASE i \in 1 .. Len(log)
    <3>1. (count + 1) - Len(t) + i = count - Len(log) + i
      BY <2>1, <2>3, <1>2
    <3>2. QED
      BY <3>1, <2>3, <1>1, <1>2
  <2>4. QED
    BY <1>2, <2>1, <2>2, <2>3
<1>4. QED
  BY <1>2, <1>3 DEF EndsAt, d

LEMMA EndsAtChained ==
    ASSUME NEW gen, NEW count \in Int, NEW log, EndsAt(log, gen, count)
    PROVE  /\ Chained(log) /\ Len(log) \in Nat
           /\ log # <<>> => /\ Gen(log[1]) = gen /\ Count(log[1]) = count - Len(log) + 1
                            /\ log[1] \in Digest
<1>1. /\ log \in Seq(Digest) /\ Len(log) \in Nat
      /\ \A i \in 1 .. Len(log) : log[i] = <<gen, count - Len(log) + i>>
  BY DEF EndsAt
<1>2. CASE log = <<>>
  BY <1>2, EmptyRuns, <1>1
<1>3. CASE log # <<>>
  <2>1. 1 \in 1 .. Len(log) /\ log[1] \in Digest
    BY <1>1, <1>3
  <2>2. Gen(log[1]) = gen /\ Count(log[1]) = count - Len(log) + 1
    BY <1>1, <2>1, PairDigests
  <2>3. \A i \in 1 .. Len(log) : Count(log[1]) - 1 + i = count - Len(log) + i
    BY <2>2, <1>1
  <2>4. QED
    BY <1>1, <2>1, <2>2, <2>3 DEF Chained
<1>4. QED
  BY <1>2, <1>3

\* A chained log seen from its end.
LEMMA ChainedEndsAt ==
    ASSUME NEW log, Chained(log), log # <<>>
    PROVE  /\ EndsAt(log, Gen(log[1]), Count(log[1]) - 1 + Len(log))
           /\ Gen(log[1]) \in 0 .. MaxRebuilds /\ Count(log[1]) \in Nat /\ Len(log) \in Nat \ {0}
           /\ log[1] \in Digest
<1>1. log \in Seq(Digest) /\ Len(log) \in Nat \ {0} /\ log[1] \in Digest
  BY DEF Chained
<1>2. Count(log[1]) \in Nat /\ Gen(log[1]) \in 0 .. MaxRebuilds
  BY <1>1, DigestPairs
<1>3. \A i \in 1 .. Len(log) :
        Count(log[1]) - 1 + i = (Count(log[1]) - 1 + Len(log)) - Len(log) + i
  BY <1>1, <1>2
<1>4. QED
  BY <1>1, <1>2, <1>3 DEF Chained, EndsAt

LEMMA EndsAtSuffix ==
    ASSUME NEW gen, NEW count \in Int, NEW log, EndsAt(log, gen, count), NEW k \in 0 .. Len(log)
    PROVE  /\ EndsAt(SubSeq(log, k + 1, Len(log)), gen, count)
           /\ Len(SubSeq(log, k + 1, Len(log))) = Len(log) - k
<1> DEFINE t == SubSeq(log, k + 1, Len(log))
<1>1. /\ log \in Seq(Digest) /\ Len(log) \in Nat
      /\ \A i \in 1 .. Len(log) : log[i] = <<gen, count - Len(log) + i>>
  BY DEF EndsAt
<1>2. /\ t \in Seq(Digest) /\ Len(t) = Len(log) - k
      /\ \A i \in 1 .. Len(log) - k : t[i] = log[k + i]
  BY <1>1, Suffix
<1> HIDE DEF t
<1>3. ASSUME NEW i \in 1 .. Len(t)
      PROVE  t[i] = <<gen, count - Len(t) + i>>
  <2>1. k + i \in 1 .. Len(log) /\ count - Len(log) + (k + i) = count - Len(t) + i
    BY <1>1, <1>2
  <2>2. QED
    BY <2>1, <1>1, <1>2
<1>4. QED
  BY <1>2, <1>3 DEF EndsAt, t

LEMMA ChainedPrefix ==
    ASSUME NEW log, Chained(log), NEW head \in Seq(Record), IsPrefix(head, log)
    PROVE  /\ Chained(head) /\ Len(head) \in 0 .. Len(log)
           /\ head # <<>> => head[1] = log[1] /\ log # <<>>
<1>1. /\ log \in Seq(Digest) /\ Len(log) \in Nat
      /\ \A i \in 1 .. Len(log) : log[i] = <<Gen(log[1]), Count(log[1]) - 1 + i>>
  BY DEF Chained
<1>2. log \in Seq(Record)
  BY <1>1, SeqMonotonic DEF Record
<1>3. Len(head) \in Nat /\ Len(head) <= Len(log) /\ \A i \in 1 .. Len(head) : head[i] = log[i]
  <2>1. SubSeq(head, 1, Len(head)) = head /\ Len(head) \in Nat
    OBVIOUS
  <2>2. Len(head) <= Len(log) /\ head = SubSeq(log, 1, Len(head))
    BY <2>1 DEF IsPrefix
  <2>3. \A i \in 1 .. Len(head) : SubSeq(log, 1, Len(head))[i] = log[i]
    BY <1>1, <2>1, <2>2
  <2>4. QED
    BY <2>1, <2>2, <2>3
<1>4. \A i \in 1 .. Len(head) : head[i] \in Digest
  BY <1>1, <1>3
<1>5. head \in Seq(Digest)
  BY <1>4
<1>6. QED
  BY <1>1, <1>3, <1>5 DEF Chained

LEMMA StartsAfterTail ==
    ASSUME NEW gen, NEW count \in Int, NEW log, StartsAfter(log, gen, count), log # <<>>
    PROVE  /\ Head(log) = <<gen, count + 1>> /\ Head(log) \in Digest
           /\ StartsAfter(Tail(log), gen, count + 1) /\ Len(Tail(log)) = Len(log) - 1
           /\ Len(log) \in Nat \ {0}
<1>1. /\ log \in Seq(Digest) /\ Len(log) \in Nat \ {0}
      /\ \A i \in 1 .. Len(log) : log[i] = <<gen, count + i>>
  BY DEF StartsAfter
<1>2. Head(log) = <<gen, count + 1>> /\ Head(log) \in Digest
  BY <1>1
<1>3. /\ Tail(log) \in Seq(Digest) /\ Len(Tail(log)) = Len(log) - 1
      /\ \A i \in 1 .. Len(log) - 1 : Tail(log)[i] = log[i + 1]
  BY <1>1
<1>4. \A i \in 1 .. Len(Tail(log)) : i + 1 \in 1 .. Len(log) /\ (count + 1) + i = count + (i + 1)
  BY <1>1, <1>3
<1>5. QED
  BY <1>1, <1>2, <1>3, <1>4 DEF StartsAfter

LEMMA StartsAfterAppend ==
    ASSUME NEW gen, NEW count \in Int, NEW log, StartsAfter(log, gen, count), NEW d \in Digest,
           d = <<gen, count + Len(log) + 1>>
    PROVE  StartsAfter(Append(log, d), gen, count) /\ Len(Append(log, d)) = Len(log) + 1
<1>1. /\ log \in Seq(Digest) /\ Len(log) \in Nat
      /\ \A i \in 1 .. Len(log) : log[i] = <<gen, count + i>>
  BY DEF StartsAfter
<1>2. /\ Append(log, d) \in Seq(Digest) /\ Len(Append(log, d)) = Len(log) + 1
      /\ \A i \in 1 .. Len(log) : Append(log, d)[i] = log[i]
      /\ Append(log, d)[Len(log) + 1] = d
  BY <1>1
<1>3. ASSUME NEW i \in 1 .. Len(log) + 1
      PROVE  Append(log, d)[i] = <<gen, count + i>>
  <2>1. CASE i \in 1 .. Len(log)
    BY <2>1, <1>1, <1>2
  <2>2. CASE i = Len(log) + 1
    <3>1. count + Len(log) + 1 = count + i
      BY <2>2, <1>1
    <3>2. QED
      BY <3>1, <2>2, <1>2
  <2>3. QED
    BY <2>1, <2>2, <1>1
<1>4. QED
  BY <1>2, <1>3 DEF StartsAfter

LEMMA StartsAfterConcat ==
    ASSUME NEW gen, NEW count \in Int, NEW mid \in Int, NEW s, NEW t,
           StartsAfter(s, gen, count), StartsAfter(t, gen, mid), mid = count + Len(s)
    PROVE  StartsAfter(s \o t, gen, count) /\ Len(s \o t) = Len(s) + Len(t)
<1>1. /\ s \in Seq(Digest) /\ Len(s) \in Nat /\ t \in Seq(Digest) /\ Len(t) \in Nat
      /\ \A i \in 1 .. Len(s) : s[i] = <<gen, count + i>>
      /\ \A i \in 1 .. Len(t) : t[i] = <<gen, count + Len(s) + i>>
  BY DEF StartsAfter
<1>2. /\ s \o t \in Seq(Digest) /\ Len(s \o t) = Len(s) + Len(t)
      /\ \A i \in 1 .. Len(s) + Len(t) :
            (s \o t)[i] = IF i <= Len(s) THEN s[i] ELSE t[i - Len(s)]
  BY <1>1, ConcatProperties
<1>3. ASSUME NEW i \in 1 .. Len(s) + Len(t)
      PROVE  (s \o t)[i] = <<gen, count + i>>
  <2>1. CASE i <= Len(s)
    BY <2>1, <1>1, <1>2
  <2>2. CASE ~(i <= Len(s))
    <3>1. i - Len(s) \in 1 .. Len(t) /\ count + Len(s) + (i - Len(s)) = count + i
      BY <2>2, <1>1
    <3>2. QED
      BY <3>1, <2>2, <1>1, <1>2
  <2>3. QED
    BY <2>1, <2>2
<1>4. QED
  BY <1>2, <1>3 DEF StartsAfter

-----------------------------------------------------------------------------
(* Replaying a log. *)

LEMMA Replay ==
    ASSUME NEW snap \in Digest, NEW log \in Seq(Record)
    PROVE  /\ EndsTorn(log) => Front(log) \in Seq(Record)
           /\ ~EndsTorn(log) =>
                \/ Covered(snap, log) = {} /\ ReplayLog(snap, log) = Bad
                \/ \E k \in Covered(snap, log) :
                      ReplayLog(snap, log) = <<Gen(snap), Count(snap) + (Len(log) - k)>>
           /\ EndsTorn(log) =>
                \/ Covered(snap, Front(log)) = {} /\ ReplayLog(snap, log) = Bad
                \/ \E k \in Covered(snap, Front(log)) :
                      ReplayLog(snap, log) = <<Gen(snap), Count(snap) + (Len(Front(log)) - k)>>
<1>1. EndsTorn(log) => Front(log) \in Seq(Record)
  BY DEF Front, EndsTorn
<1> DEFINE whole == IF EndsTorn(log) THEN Front(log) ELSE log
<1> HIDE DEF whole
<1>2. ReplayLog(snap, log) =
        IF Covered(snap, whole) = {} THEN Bad
        ELSE <<Gen(snap), Count(snap) + (Len(whole) - CHOOSE k \in Covered(snap, whole) : TRUE)>>
  BY DEF ReplayLog, whole
<1>3. Covered(snap, whole) # {} =>
        (CHOOSE k \in Covered(snap, whole) : TRUE) \in Covered(snap, whole)
  OBVIOUS
<1>4. \/ Covered(snap, whole) = {} /\ ReplayLog(snap, log) = Bad
      \/ \E k \in Covered(snap, whole) :
            ReplayLog(snap, log) = <<Gen(snap), Count(snap) + (Len(whole) - k)>>
  BY <1>2, <1>3
<1>5. QED
  BY <1>1, <1>4 DEF whole

\* What a replay gives is of the generation of the snapshot.
LEMMA CoveredDigest ==
    ASSUME NEW snap \in Digest, NEW log \in Seq(Record), NEW k \in Covered(snap, log)
    PROVE  /\ <<Gen(snap), Count(snap) + (Len(log) - k)>> \in Digest
           /\ k \in 0 .. Len(log) /\ Len(log) \in Nat
<1>1. /\ k \in 0 .. Len(log) /\ Len(log) \in Nat
      /\ \A i \in k + 1 .. Len(log) : log[i] = <<Gen(snap), Count(snap) + (i - k)>>
  BY DEF Covered
<1>2. CASE k = Len(log)
  <2>1. Count(snap) + (Len(log) - k) = Count(snap)
    BY <1>1, <1>2, DigestPairs
  <2>2. QED
    BY <1>1, <2>1, DigestPairs
<1>3. CASE k # Len(log)
  <2>1. Len(log) \in k + 1 .. Len(log) /\ Len(log) \in 1 .. Len(log)
    BY <1>1, <1>3
  <2>2. log[Len(log)] = <<Gen(snap), Count(snap) + (Len(log) - k)>> /\ log[Len(log)] \in Record
    BY <1>1, <2>1
  <2>3. Gen(log[Len(log)]) \in 0 .. MaxRebuilds
    BY <2>2, DigestPairs, PairDigests
  <2>4. log[Len(log)] # Stub /\ log[Len(log)] # Torn
    BY <2>3, Marks
  <2>5. QED
    BY <1>1, <2>2, <2>4 DEF Record
<1>4. QED
  BY <1>1, <1>2, <1>3

LEMMA ReplayTyped ==
    ASSUME NEW snap \in Digest, NEW log \in Seq(Record)
    PROVE  \/ ReplayLog(snap, log) = Bad
           \/ ReplayLog(snap, log) \in Digest /\ Gen(ReplayLog(snap, log)) = Gen(snap)
<1>1. CASE EndsTorn(log)
  <2>1. Front(log) \in Seq(Record)
    BY <1>1, Replay
  <2>2. \A k \in Covered(snap, Front(log)) :
           <<Gen(snap), Count(snap) + (Len(Front(log)) - k)>> \in Digest
    BY <2>1, CoveredDigest
  <2>3. QED
    BY <1>1, <2>2, Replay, PairDigests
<1>2. CASE ~EndsTorn(log)
  BY <1>2, Replay, CoveredDigest, PairDigests
<1>3. QED
  BY <1>1, <1>2

\* Nothing to replay.
LEMMA ReplayNothing ==
    ASSUME NEW snap \in Digest
    PROVE  ReplayLog(snap, <<>>) = snap
<1> DEFINE e == <<>>
<1>1. e \in Seq(Record) /\ Len(e) = 0 /\ ~EndsTorn(e)
  BY DEF EndsTorn
<1> HIDE DEF e
<1>2. 0 \in Covered(snap, e)
  BY <1>1 DEF Covered
<1>3. PICK k \in Covered(snap, e) :
            ReplayLog(snap, e) = <<Gen(snap), Count(snap) + (Len(e) - k)>>
  BY <1>1, <1>2, Replay
<1>4. k = 0
  BY <1>1 DEF Covered
<1>5. QED
  BY <1>1, <1>3, <1>4, DigestPairs DEF e

\* A log of records does not end in a stub.
LEMMA RecordsDoNotTear ==
    ASSUME NEW log \in Seq(Digest)
    PROVE  ~EndsTorn(log) /\ log \in Seq(Record)
<1>1. log # <<>> => log[Len(log)] \in Digest
  OBVIOUS
<1>2. log \in Seq(Record)
  BY SeqMonotonic DEF Record
<1>3. QED
  BY <1>1, <1>2, DigestPairs DEF EndsTorn, Last

\* A run that reaches from at most the snapshot to at least the snapshot replays
\* to its end.
LEMMA RunReplays ==
    ASSUME NEW snap \in Digest, NEW log, NEW count \in Nat, EndsAt(log, Gen(snap), count),
           count - Len(log) <= Count(snap), Count(snap) <= count
    PROVE  ReplayLog(snap, log) = <<Gen(snap), count>>
<1> DEFINE g == Gen(snap)
           s == Count(snap)
           base == count - Len(log)
<1>1. /\ log \in Seq(Digest) /\ Len(log) \in Nat
      /\ \A i \in 1 .. Len(log) : log[i] = <<g, base + i>>
  BY DEF EndsAt
<1>s. s \in Nat /\ g \in Nat /\ snap = <<g, s>> /\ base \in Int /\ count = base + Len(log)
      /\ base <= s /\ s <= count
  BY <1>1, DigestPairs
<1> HIDE DEF g, s, base
<1>2. /\ \A i \in 1 .. Len(log) : Gen(log[i]) = g /\ Count(log[i]) = base + i /\ log[i] \in Digest
      /\ Gen(snap) = g /\ Count(snap) = s
  <2>1. ASSUME NEW i \in 1 .. Len(log)
        PROVE  Gen(log[i]) = g /\ Count(log[i]) = base + i /\ log[i] \in Digest
    <3>1. log[i] = <<g, base + i>> /\ log[i] \in Digest
      BY <1>1
    <3>2. QED
      BY <3>1, PairDigests
  <2>2. QED
    BY <2>1 DEF g, s
<1> DEFINE k == s - base
<1>3. k \in 0 .. Len(log)
  BY <1>1, <1>s
<1>4. k \in Covered(snap, log)
  <2>1. ASSUME NEW i \in 1 .. k
        PROVE  /\ log[i] \in Digest /\ PrevDigest(log[i]) # snap /\ Count(log[i]) <= Count(snap)
               /\ i > 1 => log[i] = NextDigest(log[i - 1])
    <3>1. i \in 1 .. Len(log) /\ base + i <= s
      <4>1. i \in Nat \ {0} /\ i <= s - base /\ s - base <= Len(log)
        BY <1>3, <1>1, <1>s
      <4>2. QED
        BY <4>1, <1>1, <1>s
    <3>2. PrevDigest(log[i]) = <<g, base + i - 1>> /\ base + i - 1 # s
      BY <3>1, <1>2, <1>s, <1>1 DEF PrevDigest
    <3>3. PrevDigest(log[i]) # snap
      BY <3>2, <1>2, PairDigests
    <3>4. ASSUME i > 1
          PROVE  log[i] = NextDigest(log[i - 1])
      <4>1. i - 1 \in 1 .. Len(log) /\ base + (i - 1) + 1 = base + i
        BY <3>1, <3>4, <1>1, <1>s
      <4>2. QED
        BY <4>1, <3>1, <1>1, <1>2 DEF NextDigest
    <3>5. QED
      BY <3>1, <3>3, <3>4, <1>2
  <2>2. k > 0 => log[k] = snap
    <3>1. base + k = s /\ (k > 0 => k \in 1 .. Len(log))
      BY <1>3, <1>s, <1>1
    <3>2. QED
      BY <3>1, <1>1, <1>s
  <2>3. ASSUME NEW i \in k + 1 .. Len(log)
        PROVE  log[i] = <<Gen(snap), Count(snap) + (i - k)>>
    <3>1. i \in 1 .. Len(log) /\ s + (i - k) = base + i
      BY <1>3, <1>s, <1>1
    <3>2. QED
      BY <3>1, <1>1, <1>2
  <2> HIDE DEF k
  <2>4. QED
    BY <1>3, <2>1, <2>2, <2>3 DEF Covered
<1>5. ~EndsTorn(log) /\ log \in Seq(Record)
  BY <1>1, RecordsDoNotTear
<1>6. PICK j \in Covered(snap, log) :
            ReplayLog(snap, log) = <<Gen(snap), Count(snap) + (Len(log) - j)>>
  BY <1>4, <1>5, Replay
<1>7. j = k
  <2>1. /\ j \in 0 .. Len(log) /\ (j > 0 => log[j] = snap)
        /\ \A i \in j + 1 .. Len(log) : log[i] = <<Gen(snap), Count(snap) + (i - j)>>
    BY DEF Covered
  <2>2. CASE j > 0
    <3>1. j \in 1 .. Len(log)
      BY <2>1, <2>2, <1>1
    <3>2. base + j = s
      BY <3>1, <2>1, <2>2, <1>2
    <3>3. QED
      BY <3>1, <3>2, <1>s, <1>1
  <2>3. CASE j = 0 /\ Len(log) > 0
    <3>1. 1 \in j + 1 .. Len(log) /\ 1 \in 1 .. Len(log)
      BY <2>3, <1>1
    <3>2. log[1] = <<Gen(snap), Count(snap) + (1 - j)>>
      BY <3>1, <2>1
    <3>3. base + 1 = s + (1 - j)
      <4>1. Count(log[1]) = Count(snap) + (1 - j)
        BY <3>2, PairDigests
      <4>2. QED
        BY <4>1, <3>1, <1>2
    <3>4. QED
      BY <3>3, <2>3, <1>s, <1>1
  <2>4. CASE j = 0 /\ Len(log) = 0
    BY <2>4, <1>3
  <2>5. QED
    BY <2>1, <2>2, <2>3, <2>4, <1>1
<1>8. s + (Len(log) - k) = count
  BY <1>s, <1>1
<1>9. QED
  BY <1>6, <1>7, <1>8, <1>2

\* Only a log with a record of the snapshot's generation replays, if there is
\* anything in it.
LEMMA ReplayMeets ==
    ASSUME NEW snap \in Digest, NEW log \in Seq(Record), ~EndsTorn(log), log # <<>>,
           ReplayLog(snap, log) # Bad
    PROVE  \E i \in 1 .. Len(log) : log[i] \in Digest /\ Gen(log[i]) = Gen(snap)
<1>1. PICK k \in Covered(snap, log) : TRUE
  BY Replay
<1>2. /\ k \in 0 .. Len(log) /\ (k > 0 => log[k] = snap) /\ Len(log) \in Nat \ {0}
      /\ \A i \in k + 1 .. Len(log) : log[i] = <<Gen(snap), Count(snap) + (i - k)>>
  BY DEF Covered
<1>3. CASE k > 0
  BY <1>2, <1>3
<1>4. CASE k = 0
  <2>1. 1 \in 1 .. Len(log) /\ log[1] = <<Gen(snap), Count(snap) + (1 - k)>>
    BY <1>2, <1>4
  <2>2. Gen(log[1]) = Gen(snap) /\ log[1] \in Record
    BY <2>1, PairDigests
  <2>3. log[1] # Stub /\ log[1] # Torn
    BY <2>2, DigestPairs, Marks
  <2>4. QED
    BY <2>1, <2>2, <2>3 DEF Record
<1>5. QED
  BY <1>2, <1>3, <1>4

\* A run that replays covers the snapshot.
LEMMA ReplayedRun ==
    ASSUME NEW snap \in Digest, NEW log, Chained(log), log # <<>>, ReplayLog(snap, log) # Bad
    PROVE  /\ Gen(log[1]) = Gen(snap)
           /\ Count(log[1]) - 1 <= Count(snap) /\ Count(snap) <= Count(log[1]) - 1 + Len(log)
           /\ ReplayLog(snap, log) = <<Gen(snap), Count(log[1]) - 1 + Len(log)>>
<1>1. /\ log \in Seq(Digest) /\ Len(log) \in Nat \ {0} /\ log[1] \in Digest
      /\ \A i \in 1 .. Len(log) : log[i] = <<Gen(log[1]), Count(log[1]) - 1 + i>>
  BY ChainedEndsAt DEF Chained
<1>2. Count(log[1]) \in Nat /\ Count(snap) \in Nat
  BY <1>1, DigestPairs
<1>3. ~EndsTorn(log) /\ log \in Seq(Record)
  BY <1>1, RecordsDoNotTear
<1>4. PICK k \in Covered(snap, log) :
            ReplayLog(snap, log) = <<Gen(snap), Count(snap) + (Len(log) - k)>>
  BY <1>3, Replay
<1>5. /\ k \in 0 .. Len(log) /\ (k > 0 => log[k] = snap)
      /\ \A i \in k + 1 .. Len(log) : log[i] = <<Gen(snap), Count(snap) + (i - k)>>
  BY DEF Covered
<1>6. Gen(log[1]) = Gen(snap) /\ Count(log[1]) - 1 + k = Count(snap)
  <2>1. CASE k > 0
    <3>0. k \in 1 .. Len(log)
      BY <2>1, <1>1, <1>5
    <3>1. snap = <<Gen(log[1]), Count(log[1]) - 1 + k>>
      BY <3>0, <2>1, <1>1, <1>5
    <3>2. QED
      BY <3>1, PairDigests
  <2>2. CASE k = 0
    <3>1. 1 \in k + 1 .. Len(log)
      BY <2>2, <1>1
    <3>2. log[1] = <<Gen(snap), Count(snap) + (1 - k)>>
      BY <3>1, <1>5
    <3>3. Gen(log[1]) = Gen(snap) /\ Count(log[1]) = Count(snap) + (1 - k)
      BY <3>2, PairDigests
    <3>4. QED
      BY <3>3, <2>2, <1>2
  <2>3. QED
    BY <2>1, <2>2, <1>5, <1>1
<1>7. Count(snap) + (Len(log) - k) = Count(log[1]) - 1 + Len(log)
  BY <1>1, <1>2, <1>5, <1>6
<1>8. QED
  BY <1>1, <1>2, <1>4, <1>5, <1>6, <1>7

-----------------------------------------------------------------------------
(* The inductive invariant. *)

Compaction ==
    [pc : {"idle", "stamp", "read", "copy", "fold", "check", "swap", "tail"},
     stamp : Nat, merged : Digest \cup {NoDigest}, folded : Seq(Record), tail : Seq(Record)]

SidecarTyped ==
    /\ SidecarTypeOK
    /\ generation \in 0 .. MaxRebuilds
    /\ compactor \in Compaction
    /\ compactor.stamp <= version
    /\ compactor.pc \in {"copy", "fold", "check", "swap", "tail"} => compactor.merged \in Digest
    /\ rebuild \in [pc : {"idle", "remove", "replace", "adopt"}, digest : Digest \cup {NoDigest}]
    /\ rebuild.pc # "idle" =>
          /\ rebuild.digest \in Digest
          /\ Gen(rebuild.digest) = generation /\ Count(rebuild.digest) <= chainLength

\* How many of the sidecar's records have been written.
Flushed == Count(sidecar) - Len(pending) - Len(batch)

\* What waits to be written is the records that follow those.
Waiting ==
    IF sidecar = NoDigest
      THEN /\ pending = <<>> /\ batch = <<>> /\ wanted = "no" /\ taken = "no"
           /\ compactor.pc = "idle"
      ELSE /\ Flushed \in Nat
           /\ StartsAfter(batch, Gen(sidecar), Flushed)
           /\ StartsAfter(pending, Gen(sidecar), Flushed + Len(batch))

\* Nothing but a rebuilt snapshot is of a rebuild that is under way.
Newest == IF rebuild.pc = "idle" THEN generation ELSE generation - 1
UpTo(log, gen) == \A i \in 1 .. Len(log) : log[i] \in Digest => Gen(log[i]) <= gen
Generations ==
    /\ Gen(snapshot) <= generation
    /\ sidecar # NoDigest => Gen(sidecar) <= Newest
    /\ compactor.merged \in Digest => Gen(compactor.merged) <= generation
    /\ UpTo(wal, Newest) /\ UpTo(compactor.folded, Newest) /\ UpTo(compactor.tail, Newest)

\* The log is a run of records, up to the last that was written.
LogRuns ==
    "write" \notin damaged =>
       /\ Chained(wal)
       /\ sidecar # NoDigest => EndsAt(wal, Gen(sidecar), Flushed)

\* It starts at the snapshot, or before it, unless a rebuild is replacing it.
SteadyFiles == damaged = {} /\ rebuild.pc \in {"idle", "remove"}
Meets(snap, log) ==
    /\ Gen(snap) = Gen(sidecar)
    /\ Flushed - Len(log) <= Count(snap) /\ Count(snap) <= Flushed
FilesMeet == SteadyFiles /\ sidecar # NoDigest => Meets(snapshot, wal)

\* A rebuilt snapshot waits to be adopted.
Rebuilt == rebuild.pc = "adopt" /\ "race" \notin damaged => snapshot = rebuild.digest

\* What a compaction has read is of the snapshot whose stamp it read.
Folding ==
    /\ compactor.pc \in {"copy", "fold"} /\ version = compactor.stamp =>
          compactor.merged = snapshot
    /\ compactor.pc = "check" /\ version = compactor.stamp =>
          ReplayLog(snapshot, compactor.folded) = compactor.merged
    /\ compactor.pc = "check" => ~EndsTorn(compactor.folded)

\* What a compaction is about to put in place meets as the files do.
Swapping ==
    compactor.pc \in {"swap", "tail"} =>
       /\ "write" \notin damaged => EndsAt(compactor.tail, Gen(sidecar), Flushed)
       /\ SteadyFiles => Len(compactor.tail) <= Len(wal)
       /\ compactor.pc = "tail" /\ SteadyFiles => Meets(snapshot, compactor.tail)
       /\ compactor.pc = "swap" =>
             /\ SteadyFiles => Meets(compactor.merged, compactor.tail)
             /\ rebuild.pc # "adopt" => version = compactor.stamp
             /\ rebuild.pc = "adopt" /\ "race" \notin damaged /\ version = compactor.stamp =>
                   compactor.merged = rebuild.digest

SidecarInv ==
    /\ SidecarTyped /\ Waiting /\ Generations /\ LogRuns /\ FilesMeet /\ Rebuilt
    /\ Folding /\ Swapping

-----------------------------------------------------------------------------
(* Steps. *)

LEMMA UpToFacts ==
    ASSUME NEW log \in Seq(Record), NEW gen \in Int, UpTo(log, gen)
    PROVE  /\ \A more \in Int : gen <= more => UpTo(log, more)
           /\ \A d \in Record : (d \in Digest => Gen(d) <= gen) => UpTo(Append(log, d), gen)
           /\ \A k \in 0 .. Len(log) : UpTo(SubSeq(log, k + 1, Len(log)), gen)
           /\ UpTo(<<>>, gen)
<1>1. ASSUME NEW more \in Int, gen <= more
      PROVE  UpTo(log, more)
  <2>1. \A i \in 1 .. Len(log) : log[i] \in Digest => Gen(log[i]) \in Int
    BY DigestPairs
  <2>2. QED
    BY <1>1, <2>1 DEF UpTo
<1>2. ASSUME NEW d \in Record, d \in Digest => Gen(d) <= gen
      PROVE  UpTo(Append(log, d), gen)
  <2>1. /\ Len(Append(log, d)) = Len(log) + 1 /\ Append(log, d)[Len(log) + 1] = d
        /\ \A i \in 1 .. Len(log) : Append(log, d)[i] = log[i]
        /\ Len(log) \in Nat
    OBVIOUS
  <2>2. QED
    BY <1>2, <2>1 DEF UpTo
<1>3. ASSUME NEW k \in 0 .. Len(log)
      PROVE  UpTo(SubSeq(log, k + 1, Len(log)), gen)
  BY Suffix DEF UpTo
<1>4. QED
  BY <1>1, <1>2, <1>3 DEF UpTo

LEMMA SidecarNumbers ==
    ASSUME SidecarTyped
    PROVE  /\ version \in Nat /\ generation \in Nat /\ chainLength \in Nat /\ Newest \in Int
           /\ Newest <= generation
           /\ Len(wal) \in Nat /\ Len(pending) \in Nat /\ Len(batch) \in Nat
           /\ compactor.stamp \in Nat /\ compactor.folded \in Seq(Record)
           /\ compactor.tail \in Seq(Record) /\ Len(compactor.tail) \in Nat
           /\ wal \in Seq(Record) /\ snapshot \in Digest
           /\ Gen(snapshot) \in Nat /\ Count(snapshot) \in Nat
           /\ sidecar # NoDigest => sidecar \in Digest /\ Gen(sidecar) \in Nat /\ Count(sidecar) \in Nat
           /\ sidecar # NoDigest => Flushed \in Int
           /\ rebuild.digest \in Digest => Count(rebuild.digest) \in Nat
           /\ MaxRebuilds \in Nat /\ MaxEntries \in Nat
<1>1. /\ version \in Nat /\ generation \in 0 .. MaxRebuilds /\ chainLength \in 0 .. MaxEntries
      /\ wal \in Seq(Record) /\ snapshot \in Digest /\ sidecar \in Digest \cup {NoDigest}
      /\ pending \in Seq(Digest) /\ batch \in Seq(Digest)
      /\ compactor.stamp \in Nat /\ compactor.folded \in Seq(Record)
      /\ compactor.tail \in Seq(Record)
  BY DEF SidecarTyped, SidecarTypeOK, Compaction, Record
<1>2. Len(wal) \in Nat /\ Len(pending) \in Nat /\ Len(batch) \in Nat /\ Len(compactor.tail) \in Nat
  BY <1>1
<1>3. MaxRebuilds \in Nat /\ MaxEntries \in Nat
  BY BoundAssumption
<1>4. /\ Gen(snapshot) \in Nat /\ Count(snapshot) \in Nat
      /\ rebuild.digest \in Digest => Count(rebuild.digest) \in Nat
  BY <1>1, DigestPairs
<1>5. ASSUME sidecar # NoDigest
      PROVE  sidecar \in Digest /\ Gen(sidecar) \in Nat /\ Count(sidecar) \in Nat /\ Flushed \in Int
  BY <1>1, <1>2, <1>5, DigestPairs DEF Flushed
<1>6. generation \in Nat /\ Newest \in Int /\ Newest <= generation
  BY <1>1, <1>3 DEF Newest
<1>7. QED
  BY <1>1, <1>2, <1>3, <1>4, <1>5, <1>6

LEMMA SidecarStarts == SidecarInit => SidecarInv
<1> SUFFICES ASSUME SidecarInit PROVE SidecarInv
  OBVIOUS
<1> USE DEF SidecarInit
<1>1. <<0, 0>> \in Digest /\ Gen(<<0, 0>>) = 0 /\ Count(<<0, 0>>) = 0 /\ <<0, 0>> # NoDigest
  BY BoundAssumption, PairDigests, DigestPairs
<1>2. NoDigest \notin Digest
  BY DigestPairs
<1>3. Len(<<>>) = 0 /\ <<>> \in Seq(Digest) /\ <<>> \in Seq(Record)
  OBVIOUS
<1>4. SidecarTyped
  BY <1>1, <1>3, BoundAssumption
     DEF SidecarTyped, SidecarTypeOK, Compaction, NoCompaction, NoSidecarRebuild
<1>5. Flushed = 0
  BY <1>1, <1>3 DEF Flushed
<1>6. Waiting /\ LogRuns
  BY <1>1, <1>5, EmptyRuns DEF Waiting, LogRuns
<1>7. Generations
  BY <1>1, <1>2, <1>3, BoundAssumption DEF Generations, Newest, UpTo, NoCompaction, NoSidecarRebuild
<1>8. FilesMeet /\ Rebuilt /\ Folding /\ Swapping
  BY <1>1, <1>3, <1>5
     DEF FilesMeet, Meets, Rebuilt, Folding, Swapping, NoCompaction, NoSidecarRebuild
<1>9. QED
  BY <1>4, <1>6, <1>7, <1>8 DEF SidecarInv

LEMMA IndexThoughtKeeps ==
    ASSUME SidecarInv, IndexThought
    PROVE  SidecarInv'
<1>t. SidecarTyped
  BY DEF SidecarInv
<1>n. /\ snapshot' = snapshot /\ version' = version /\ wal' = wal /\ batch' = batch
      /\ taken' = taken /\ lock' = lock /\ compactor' = compactor /\ rebuild' = rebuild
      /\ damaged' = damaged /\ generation' = generation
      /\ chainLength' = chainLength + 1 /\ chainLength < MaxEntries
  BY DEF IndexThought, bounds
<1>c. /\ chainLength' \in 0 .. MaxEntries
      /\ rebuild.digest \in Digest => Count(rebuild.digest) \in Nat /\ chainLength \in Nat
  BY <1>t, <1>n, SidecarNumbers
<1> DEFINE next == NextDigest(sidecar)
<1>1. CASE ~(Fresh(sidecar) /\ rebuild.pc = "idle")
  <2>1. sidecar' = sidecar /\ pending' = pending /\ wanted' = wanted
    BY <1>1 DEF IndexThought
  <2>2. Flushed' = Flushed /\ Newest' = Newest
    BY <1>n, <2>1 DEF Flushed, Newest
  <2>3. SidecarTyped'
    BY <1>n, <1>t, <1>c, <2>1 DEF SidecarTyped, SidecarTypeOK
  <2>4. QED
    BY <1>n, <2>1, <2>2, <2>3 DEF SidecarInv, Waiting, Generations, LogRuns, FilesMeet,
       SteadyFiles, Meets, Rebuilt, Folding, Swapping
<1>2. CASE Fresh(sidecar) /\ rebuild.pc = "idle"
  <2>1. /\ sidecar' = next /\ pending' = Append(pending, next) /\ wanted' \in {wanted, "yes"}
        /\ sidecar # NoDigest /\ Count(sidecar) = chainLength
    BY <1>2 DEF IndexThought, Fresh
  <2>2. /\ next = <<Gen(sidecar), Count(sidecar) + 1>> /\ next \in Digest /\ next # NoDigest
        /\ Gen(next) = Gen(sidecar) /\ Count(next) = Count(sidecar) + 1
    <3>1. sidecar \in Digest /\ Count(sidecar) + 1 \in 0 .. MaxEntries
      BY SMTT(30), <1>t, <1>n, <2>1, SidecarNumbers
    <3>2. next = <<Gen(sidecar), Count(sidecar) + 1>>
      BY DEF NextDigest
    <3>3. next \in Digest
      BY <3>1, <3>2, DigestPairs, PairDigests
    <3>4. QED
      BY <3>2, <3>3, DigestPairs, PairDigests
  <2>3. pending \in Seq(Digest) /\ Len(Append(pending, next)) = Len(pending) + 1
    BY <1>t, <2>2 DEF SidecarTyped, SidecarTypeOK
  <2> HIDE DEF next
  <2>4. Flushed' = Flushed /\ Newest' = Newest /\ Gen(sidecar') = Gen(sidecar) /\ sidecar' # NoDigest
    BY <1>t, <1>n, <2>1, <2>2, <2>3, SidecarNumbers DEF Flushed, Newest
  <2>5. SidecarTyped'
    BY <1>n, <1>t, <1>c, <2>1, <2>2, <2>3 DEF SidecarTyped, SidecarTypeOK
  <2>6. Waiting'
    <3>1. /\ Flushed \in Nat /\ StartsAfter(batch, Gen(sidecar), Flushed)
          /\ StartsAfter(pending, Gen(sidecar), Flushed + Len(batch))
      BY <2>1 DEF SidecarInv, Waiting
    <3>2. Count(sidecar) + 1 = (Flushed + Len(batch)) + Len(pending) + 1
      BY SMTT(30), <1>t, <2>1, SidecarNumbers DEF Flushed
    <3>3. StartsAfter(Append(pending, next), Gen(sidecar), Flushed + Len(batch))
      BY <3>1, <3>2, <2>2, <1>t, SidecarNumbers, StartsAfterAppend
    <3>4. QED
      BY <1>n, <2>1, <2>4, <3>1, <3>3 DEF Waiting
  <2>7. QED
    BY <1>n, <2>1, <2>4, <2>5, <2>6 DEF SidecarInv, Generations, LogRuns, FilesMeet,
       SteadyFiles, Meets, Rebuilt, Folding, Swapping
<1>3. QED
  BY <1>1, <1>2

LEMMA StartFlushKeeps ==
    ASSUME SidecarInv, StartFlush
    PROVE  SidecarInv'
<1>t. SidecarTyped
  BY DEF SidecarInv
<1>n. /\ snapshot' = snapshot /\ version' = version /\ wal' = wal /\ chainLength' = chainLength
      /\ sidecar' = sidecar /\ compactor' = compactor /\ rebuild' = rebuild
      /\ damaged' = damaged /\ generation' = generation
      /\ lock = "free" /\ lock' = "flush" /\ batch' = pending /\ pending' = <<>>
      /\ taken' = wanted /\ wanted' = "no" /\ (pending # <<>> \/ wanted = "yes")
  BY DEF StartFlush, disk, bounds
<1>1. batch = <<>> /\ Len(batch) = 0 /\ pending \in Seq(Digest) /\ Len(pending') = 0
  BY <1>t, <1>n DEF SidecarTyped, SidecarTypeOK
<1>2. sidecar # NoDigest
  BY <1>n DEF SidecarInv, Waiting
<1>3. Flushed' = Flushed /\ Newest' = Newest
  BY <1>t, <1>n, <1>1, <1>2, SidecarNumbers DEF Flushed, Newest
<1>4. SidecarTyped'
  BY <1>t, <1>n, <1>1 DEF SidecarTyped, SidecarTypeOK
<1>5. Waiting'
  <2>1. /\ Flushed \in Nat /\ StartsAfter(pending, Gen(sidecar), Flushed)
    BY <1>1, <1>2 DEF SidecarInv, Waiting
  <2>2. QED
    BY <2>1, <1>n, <1>2, <1>3, EmptyRuns DEF Waiting
<1>6. QED
  BY <1>n, <1>3, <1>4, <1>5 DEF SidecarInv, Generations, LogRuns, FilesMeet,
     SteadyFiles, Meets, Rebuilt, Folding, Swapping

LEMMA WriteRecordKeeps ==
    ASSUME SidecarInv, WriteRecord
    PROVE  SidecarInv'
<1>t. SidecarTyped
  BY DEF SidecarInv
<1>n. /\ snapshot' = snapshot /\ version' = version /\ chainLength' = chainLength
      /\ sidecar' = sidecar /\ pending' = pending /\ wanted' = wanted /\ taken' = taken
      /\ lock' = lock /\ compactor' = compactor /\ rebuild' = rebuild
      /\ damaged' = damaged /\ generation' = generation
      /\ lock = "flush" /\ batch # <<>> /\ wal' = Append(wal, Head(batch)) /\ batch' = Tail(batch)
  BY DEF WriteRecord, bounds
<1>1. sidecar # NoDigest
  BY <1>n DEF SidecarInv, Waiting
<1>2. /\ Flushed \in Nat /\ StartsAfter(batch, Gen(sidecar), Flushed)
      /\ StartsAfter(pending, Gen(sidecar), Flushed + Len(batch))
  BY <1>1 DEF SidecarInv, Waiting
<1> DEFINE d == Head(batch)
           rest == Tail(batch)
<1>3. /\ d = <<Gen(sidecar), Flushed + 1>> /\ d \in Digest
      /\ StartsAfter(rest, Gen(sidecar), Flushed + 1) /\ Len(rest) = Len(batch) - 1
  BY <1>2, <1>n, StartsAfterTail
<1>r. batch' = rest /\ wal' = Append(wal, d) /\ rest \in Seq(Digest)
  BY <1>n, <1>3 DEF StartsAfter
<1> HIDE DEF d, rest
<1>4. /\ wal' \in Seq(Record) /\ Len(wal') = Len(wal) + 1 /\ d \in Record /\ batch' \in Seq(Digest)
  <2>1. d \in Record /\ wal \in Seq(Record)
    BY <1>3, <1>t, SidecarNumbers DEF Record
  <2>2. QED
    BY <2>1, <1>r
<1>5. Flushed' = Flushed + 1 /\ Newest' = Newest
  BY SMTT(30), <1>t, <1>n, <1>r, <1>1, <1>3, SidecarNumbers DEF Flushed, Newest
<1>6. SidecarTyped'
  BY <1>t, <1>n, <1>4 DEF SidecarTyped, SidecarTypeOK, Record
<1>7. Waiting'
  <2>1. (Flushed + 1) + Len(rest) = Flushed + Len(batch) /\ Flushed + 1 \in Nat
    <3>1. Len(batch) \in Nat
      BY <1>t, SidecarNumbers
    <3>2. QED
      BY <3>1, <1>2, <1>3
  <2>2. QED
    BY <2>1, <1>n, <1>r, <1>1, <1>2, <1>3, <1>5 DEF Waiting
<1>8. Generations'
  <2>1. Gen(d) = Gen(sidecar) /\ Gen(sidecar) <= Newest
    BY <1>1, <1>3, PairDigests DEF SidecarInv, Generations
  <2>2. UpTo(wal, Newest) /\ Newest \in Int /\ wal \in Seq(Record)
    BY <1>t, SidecarNumbers DEF SidecarInv, Generations
  <2>3. UpTo(Append(wal, d), Newest)
    BY <2>1, <2>2, <1>4, UpToFacts
  <2>4. QED
    BY <2>3, <1>n, <1>r, <1>5 DEF SidecarInv, Generations
<1>9. LogRuns'
  <2>1. ASSUME "write" \notin damaged
        PROVE  Chained(wal') /\ EndsAt(wal', Gen(sidecar), Flushed + 1)
    <3>1. EndsAt(wal, Gen(sidecar), Flushed)
      BY <2>1, <1>1 DEF SidecarInv, LogRuns
    <3>2. EndsAt(Append(wal, <<Gen(sidecar), Flushed + 1>>), Gen(sidecar), Flushed + 1)
      BY <3>1, <1>2, <1>3, EndsAtAppend
    <3>3. EndsAt(wal', Gen(sidecar), Flushed + 1)
      BY <3>2, <1>3, <1>r
    <3>4. QED
      BY <3>3, <1>2, EndsAtChained
  <2>2. QED
    BY <2>1, <1>n, <1>5 DEF LogRuns
<1>10. FilesMeet'
  <2>1. Meets(snapshot, wal) => Meets(snapshot, wal)'
    BY <1>t, <1>n, <1>4, <1>5, <1>2, SidecarNumbers DEF Meets
  <2>2. QED
    BY <2>1, <1>n, <1>1 DEF SidecarInv, FilesMeet, SteadyFiles
<1>11. compactor.pc \notin {"swap", "tail"}
  BY <1>t, <1>n DEF SidecarTyped, SidecarTypeOK
<1>12. QED
  BY <1>n, <1>5, <1>6, <1>7, <1>8, <1>9, <1>10, <1>11
     DEF SidecarInv, Rebuilt, Folding, Swapping

LEMMA WriteFailsKeeps ==
    ASSUME SidecarInv, WriteFails
    PROVE  SidecarInv'
<1>t. SidecarTyped
  BY DEF SidecarInv
<1>n. /\ snapshot' = snapshot /\ version' = version /\ chainLength' = chainLength
      /\ sidecar' = sidecar /\ compactor' = compactor /\ rebuild' = rebuild
      /\ damaged' = damaged \cup {"write"} /\ generation' = generation
      /\ lock = "flush" /\ batch # <<>> /\ batch' = <<>> /\ lock' = "free"
      /\ wal' \in {wal, Append(wal, Stub), Append(wal, Torn)}
      /\ pending' = Tail(batch) \o pending /\ taken' = "no"
      /\ wanted' = IF taken = "yes" THEN "yes" ELSE wanted
  BY DEF WriteFails
<1>1. sidecar # NoDigest
  BY <1>n DEF SidecarInv, Waiting
<1>2. /\ Flushed \in Nat /\ StartsAfter(batch, Gen(sidecar), Flushed)
      /\ StartsAfter(pending, Gen(sidecar), Flushed + Len(batch))
  BY <1>1 DEF SidecarInv, Waiting
<1> DEFINE rest == Tail(batch)
<1>3. /\ StartsAfter(rest, Gen(sidecar), Flushed + 1) /\ Len(rest) = Len(batch) - 1
  BY <1>2, <1>n, StartsAfterTail
<1>r. pending' = rest \o pending
  BY <1>n
<1> HIDE DEF rest
<1>4. /\ StartsAfter(pending', Gen(sidecar), Flushed + 1)
      /\ Len(pending') = Len(batch) - 1 + Len(pending) /\ Len(batch') = 0
  <2>1. (Flushed + 1) + Len(rest) = Flushed + Len(batch) /\ Flushed + 1 \in Int
    <3>1. Len(batch) \in Nat
      BY <1>t, SidecarNumbers
    <3>2. QED
      BY <3>1, <1>2, <1>3
  <2>2. Flushed + Len(batch) \in Int
    BY <1>2, <1>t, SidecarNumbers
  <2>3. /\ StartsAfter(rest \o pending, Gen(sidecar), Flushed + 1)
        /\ Len(rest \o pending) = Len(rest) + Len(pending)
    BY <2>1, <2>2, <1>2, <1>3, StartsAfterConcat
  <2>4. QED
    BY <2>3, <1>3, <1>n, <1>r
<1>5. Flushed' = Flushed + 1 /\ Newest' = Newest
  BY <1>t, <1>n, <1>1, <1>4, SidecarNumbers DEF Flushed, Newest
<1>6. wal' \in Seq(Record) /\ pending' \in Seq(Digest)
  <2>1. wal \in Seq(Record) /\ Stub \in Record /\ Torn \in Record
    BY <1>t, SidecarNumbers DEF Record
  <2>2. QED
    <3>1. pending' \in Seq(Digest)
      BY <1>4 DEF StartsAfter
    <3>2. Append(wal, Stub) \in Seq(Record) /\ Append(wal, Torn) \in Seq(Record)
      BY <2>1
    <3>3. QED
      BY <2>1, <3>1, <3>2, <1>n
<1>7. SidecarTyped'
  BY <1>t, <1>n, <1>6 DEF SidecarTyped, SidecarTypeOK, Record
<1>8. Waiting'
  BY <1>n, <1>1, <1>2, <1>4, <1>5, EmptyRuns DEF Waiting
<1>9. Generations'
  <2>1. UpTo(wal, Newest) /\ Newest \in Int /\ wal \in Seq(Record)
    BY <1>t, SidecarNumbers DEF SidecarInv, Generations
  <2>2. Stub \in Record \ Digest /\ Torn \in Record \ Digest
    BY DigestPairs DEF Record
  <2>3. UpTo(wal', Newest)
    BY <2>1, <2>2, <1>n, UpToFacts
  <2>4. QED
    BY <2>3, <1>n, <1>5 DEF SidecarInv, Generations
<1>10. LogRuns' /\ FilesMeet'
  BY <1>n DEF LogRuns, FilesMeet, SteadyFiles
<1>11. compactor.pc \notin {"swap", "tail"}
  BY <1>t, <1>n DEF SidecarTyped, SidecarTypeOK
<1>12. QED
  BY <1>n, <1>5, <1>7, <1>8, <1>9, <1>10, <1>11
     DEF SidecarInv, Rebuilt, Folding, Swapping

LEMMA EndFlushKeeps ==
    ASSUME SidecarInv, EndFlush
    PROVE  SidecarInv'
<1>t. SidecarTyped
  BY DEF SidecarInv
<1>n. /\ snapshot' = snapshot /\ version' = version /\ chainLength' = chainLength /\ wal' = wal
      /\ sidecar' = sidecar /\ rebuild' = rebuild /\ pending' = pending /\ wanted' = wanted
      /\ batch' = batch /\ damaged' = damaged /\ generation' = generation
      /\ lock = "flush" /\ batch = <<>> /\ lock' = "free" /\ taken' = "no"
      /\ compactor' = IF taken = "yes" /\ compactor.pc = "idle"
                        THEN [compactor EXCEPT !.pc = "stamp"] ELSE compactor
  BY DEF EndFlush, disk, bounds
<1>1. compactor.pc \notin {"swap", "tail"}
  BY <1>t, <1>n DEF SidecarTyped, SidecarTypeOK
<1>2. /\ compactor'.stamp = compactor.stamp /\ compactor'.merged = compactor.merged
      /\ compactor'.folded = compactor.folded /\ compactor'.tail = compactor.tail
      /\ \/ compactor'.pc = compactor.pc
         \/ compactor'.pc = "stamp" /\ taken = "yes"
      /\ compactor' \in Compaction
  BY <1>t, <1>n DEF SidecarTyped, Compaction
<1>3. Flushed' = Flushed /\ Newest' = Newest
  BY <1>n DEF Flushed, Newest
<1>4. SidecarTyped'
  BY <1>t, <1>n, <1>1, <1>2 DEF SidecarTyped, SidecarTypeOK
<1>5. Waiting'
  BY <1>n, <1>2, <1>3 DEF SidecarInv, Waiting
<1>6. Folding' /\ Swapping'
  BY <1>n, <1>1, <1>2 DEF SidecarInv, Folding, Swapping
<1>7. QED
  BY <1>n, <1>2, <1>3, <1>4, <1>5, <1>6
     DEF SidecarInv, Generations, LogRuns, FilesMeet, SteadyFiles, Meets, Rebuilt

\* What a step of the compaction that only reads leaves as it was.
LEMMA CompactorReads ==
    ASSUME SidecarInv, CompactorOnly, Untouched
    PROVE  /\ Flushed' = Flushed /\ Newest' = Newest
           /\ LogRuns' /\ FilesMeet' /\ Rebuilt'
           /\ snapshot' = snapshot /\ version' = version /\ wal' = wal
           /\ chainLength' = chainLength /\ sidecar' = sidecar /\ rebuild' = rebuild
           /\ pending' = pending /\ wanted' = wanted /\ batch' = batch /\ taken' = taken
           /\ damaged' = damaged /\ generation' = generation
<1>n. /\ snapshot' = snapshot /\ version' = version /\ wal' = wal
      /\ chainLength' = chainLength /\ sidecar' = sidecar /\ rebuild' = rebuild
      /\ pending' = pending /\ wanted' = wanted /\ batch' = batch /\ taken' = taken
      /\ damaged' = damaged /\ generation' = generation
  BY DEF CompactorOnly, Untouched, queued, bounds
<1>1. Flushed' = Flushed /\ Newest' = Newest
  BY <1>n DEF Flushed, Newest
<1>2. QED
  BY <1>n, <1>1 DEF SidecarInv, LogRuns, FilesMeet, SteadyFiles, Meets, Rebuilt

\* A compaction that ends leaves nothing behind.
LEMMA CompactorStops ==
    ASSUME SidecarInv, CompactorOnly, Untouched, compactor' = NoCompaction,
           compactor.pc \notin {"swap", "tail"}, lock' = lock
    PROVE  SidecarInv'
<1>t. SidecarTyped
  BY DEF SidecarInv
<1>1. /\ compactor'.pc = "idle" /\ compactor'.stamp = 0 /\ compactor'.merged = NoDigest
      /\ compactor'.folded = <<>> /\ compactor'.tail = <<>> /\ compactor' \in Compaction
      /\ NoDigest \notin Digest
  BY DigestPairs DEF NoCompaction, Compaction
<1>2. lock # "compact" /\ 0 <= version
  BY <1>t, SidecarNumbers DEF SidecarTyped, SidecarTypeOK
<1>3. SidecarTyped'
  <2>1. SidecarTypeOK'
    <3>1. /\ snapshot' = snapshot /\ version' = version /\ wal' = wal
          /\ chainLength' = chainLength /\ sidecar' = sidecar /\ pending' = pending
          /\ wanted' = wanted /\ batch' = batch /\ taken' = taken /\ damaged' = damaged
      BY CompactorReads
    <3>2. lock' = lock /\ (lock' = "compact") = FALSE /\ (compactor'.pc \in {"swap", "tail"}) = FALSE
      BY <1>1, <1>2
    <3>3. QED
      BY <1>t, <3>1, <3>2 DEF SidecarTyped, SidecarTypeOK
  <2>2. QED
    BY <1>t, <1>1, <1>2, <2>1, CompactorReads DEF SidecarTyped, Compaction
<1>4. Waiting'
  BY <1>1, CompactorReads DEF SidecarInv, Waiting
<1>5. Generations'
  BY <1>1, CompactorReads DEF SidecarInv, Generations, UpTo
<1>6. Folding' /\ Swapping'
  BY <1>1 DEF Folding, Swapping, EndsTorn
<1>7. QED
  BY <1>3, <1>4, <1>5, <1>6, CompactorReads DEF SidecarInv

\* One that goes on is of a sidecar.
LEMMA CompactorGoesOn ==
    ASSUME SidecarInv, CompactorOnly, Untouched, compactor.pc # "idle",
           compactor' \in Compaction, compactor'.pc # "idle",
           compactor'.stamp <= version,
           compactor'.pc \in {"copy", "fold", "check", "swap", "tail"} => compactor'.merged \in Digest,
           (lock' = "compact") = (compactor'.pc \in {"swap", "tail"}),
           lock' \in {"free", "flush", "compact"}, batch # <<>> => lock' = "flush"
    PROVE  SidecarTyped' /\ Waiting'
<1>1. SidecarTyped'
  BY CompactorReads DEF SidecarInv, SidecarTyped, SidecarTypeOK, Compaction
<1>2. Waiting'
  BY CompactorReads DEF SidecarInv, Waiting
<1>3. QED
  BY <1>1, <1>2

LEMMA ReadStampKeeps ==
    ASSUME SidecarInv, ReadStamp
    PROVE  SidecarInv'
<1>t. SidecarTyped
  BY DEF SidecarInv
<1>n. /\ CompactorOnly /\ Untouched /\ lock' = lock /\ compactor.pc = "stamp"
      /\ compactor' = [compactor EXCEPT !.pc = "read", !.stamp = version]
  BY DEF ReadStamp, Compacting
<1>1. /\ compactor' \in Compaction /\ compactor'.pc = "read" /\ compactor'.stamp = version
      /\ compactor'.merged = compactor.merged /\ compactor'.folded = compactor.folded
      /\ compactor'.tail = compactor.tail
  BY <1>t, <1>n, SidecarNumbers DEF SidecarTyped, Compaction
<1>2. SidecarTyped' /\ Waiting'
  BY <1>t, <1>n, <1>1, SidecarNumbers, CompactorGoesOn DEF SidecarTyped, SidecarTypeOK
<1>3. Generations'
  BY <1>n, <1>1, CompactorReads DEF SidecarInv, Generations
<1>4. Folding' /\ Swapping'
  BY <1>1 DEF Folding, Swapping
<1>5. QED
  BY <1>n, <1>2, <1>3, <1>4, CompactorReads DEF SidecarInv

LEMMA ReadSnapshotKeeps ==
    ASSUME SidecarInv, ReadSnapshot
    PROVE  SidecarInv'
<1>t. SidecarTyped
  BY DEF SidecarInv
<1>n. /\ CompactorOnly /\ Untouched /\ lock' = lock /\ compactor.pc = "read"
      /\ compactor' = [compactor EXCEPT !.pc = "copy", !.merged = snapshot]
  BY DEF ReadSnapshot, Compacting
<1>1. /\ compactor' \in Compaction /\ compactor'.pc = "copy" /\ compactor'.stamp = compactor.stamp
      /\ compactor'.merged = snapshot /\ compactor'.folded = compactor.folded
      /\ compactor'.tail = compactor.tail
  BY <1>t, <1>n, SidecarNumbers DEF SidecarTyped, Compaction
<1>2. SidecarTyped' /\ Waiting'
  BY <1>t, <1>n, <1>1, SidecarNumbers, CompactorGoesOn DEF SidecarTyped, SidecarTypeOK
<1>3. Generations'
  BY <1>n, <1>1, CompactorReads DEF SidecarInv, Generations
<1>4. Folding' /\ Swapping'
  BY <1>n, <1>1, CompactorReads DEF Folding, Swapping
<1>5. QED
  BY <1>n, <1>2, <1>3, <1>4, CompactorReads DEF SidecarInv

LEMMA CopyWalKeeps ==
    ASSUME SidecarInv, CopyWal
    PROVE  SidecarInv'
<1>t. SidecarTyped
  BY DEF SidecarInv
<1>n. /\ CompactorOnly /\ Untouched /\ lock' = lock /\ compactor.pc = "copy"
      /\ compactor' = [compactor EXCEPT !.pc = "fold", !.folded = wal]
  BY DEF CopyWal, Compacting
<1>1. /\ compactor' \in Compaction /\ compactor'.pc = "fold" /\ compactor'.stamp = compactor.stamp
      /\ compactor'.merged = compactor.merged /\ compactor'.folded = wal
      /\ compactor'.tail = compactor.tail
  BY <1>t, <1>n, SidecarNumbers DEF SidecarTyped, Compaction
<1>2. SidecarTyped' /\ Waiting'
  BY <1>t, <1>n, <1>1, SidecarNumbers, CompactorGoesOn DEF SidecarTyped, SidecarTypeOK
<1>3. Generations'
  BY <1>n, <1>1, CompactorReads DEF SidecarInv, Generations
<1>4. Folding' /\ Swapping'
  BY <1>n, <1>1, CompactorReads DEF SidecarInv, Folding, Swapping
<1>5. QED
  BY <1>n, <1>2, <1>3, <1>4, CompactorReads DEF SidecarInv

LEMMA FoldKeeps ==
    ASSUME SidecarInv, Fold
    PROVE  SidecarInv'
<1>t. SidecarTyped
  BY DEF SidecarInv
<1> DEFINE head == ReplayLog(compactor.merged, compactor.folded)
<1>n. /\ CompactorOnly /\ Untouched /\ lock' = lock /\ compactor.pc = "fold"
      /\ compactor' = IF ~EndsTorn(compactor.folded) /\ head # Bad
                        THEN [compactor EXCEPT !.pc = "check", !.merged = head]
                        ELSE NoCompaction
  BY DEF Fold, Compacting
<1>m. compactor.merged \in Digest /\ compactor.folded \in Seq(Record)
  BY <1>t, <1>n DEF SidecarTyped, Compaction
<1>h. head = Bad \/ (head \in Digest /\ Gen(head) = Gen(compactor.merged))
  BY <1>m, ReplayTyped
<1> HIDE DEF head
<1>1. CASE compactor' = NoCompaction
  BY <1>n, <1>1, CompactorStops
<1>2. CASE ~EndsTorn(compactor.folded) /\ head # Bad
  <2>1. /\ compactor' \in Compaction /\ compactor'.pc = "check"
        /\ compactor'.stamp = compactor.stamp
        /\ compactor'.merged = head /\ compactor'.folded = compactor.folded
        /\ compactor'.tail = compactor.tail
    BY <1>t, <1>n, <1>h, <1>2, SidecarNumbers DEF SidecarTyped, Compaction
  <2>2. SidecarTyped' /\ Waiting'
    BY <1>t, <1>n, <1>h, <1>2, <2>1, SidecarNumbers, CompactorGoesOn
       DEF SidecarTyped, SidecarTypeOK
  <2>3. Generations'
    BY <1>n, <1>m, <1>h, <1>2, <2>1, CompactorReads DEF SidecarInv, Generations
  <2>4. Swapping'
    BY <2>1 DEF Swapping
  <2>5. Folding'
    <3>1. version = compactor.stamp => compactor.merged = snapshot
      BY <1>n DEF SidecarInv, Folding
    <3>2. QED
      BY <1>n, <1>2, <2>1, <3>1, CompactorReads DEF Folding, head
  <2>6. QED
    BY <1>n, <2>2, <2>3, <2>4, <2>5, CompactorReads DEF SidecarInv
<1>3. QED
  BY <1>n, <1>1, <1>2

LEMMA CheckKeeps ==
    ASSUME SidecarInv, Check
    PROVE  SidecarInv'
<1>t. SidecarTyped
  BY DEF SidecarInv
<1> DEFINE n == Len(compactor.folded)
           rest == SubSeq(wal, n + 1, Len(wal))
<1>1. CASE ~(version = compactor.stamp /\ IsPrefix(compactor.folded, wal))
  <2>1. /\ CompactorOnly /\ Untouched /\ compactor.pc = "check"
        /\ lock' = lock /\ compactor' = NoCompaction
    BY <1>1 DEF Check, Compacting
  <2>2. QED
    BY <2>1, CompactorStops
<1>2. CASE version = compactor.stamp /\ IsPrefix(compactor.folded, wal)
  <2>n. /\ CompactorOnly /\ Untouched /\ compactor.pc = "check" /\ lock = "free"
        /\ lock' = "compact" /\ compactor' = [compactor EXCEPT !.pc = "swap", !.tail = rest]
    BY <1>2 DEF Check, Compacting
  <2>m. /\ compactor.folded \in Seq(Record) /\ compactor.merged \in Digest /\ wal \in Seq(Record)
        /\ n \in Nat /\ n <= Len(wal) /\ Len(wal) \in Nat
        /\ ReplayLog(snapshot, compactor.folded) = compactor.merged
        /\ ~EndsTorn(compactor.folded) /\ batch = <<>>
    BY <1>t, <1>2, <2>n, SidecarNumbers
       DEF SidecarInv, SidecarTyped, SidecarTypeOK, Folding, IsPrefix
  <2>s. sidecar # NoDigest
    BY <2>n DEF SidecarInv, Waiting
  <2>r. rest \in Seq(Record) /\ Len(rest) = Len(wal) - n
    <3>1. n \in 0 .. Len(wal)
      BY <2>m
    <3>2. QED
      BY <2>m, <3>1, Suffix
  <2>u. UpTo(rest, Newest)
    BY <1>t, <2>m, SidecarNumbers, UpToFacts DEF SidecarInv, Generations
  <2>e. "write" \notin damaged => EndsAt(rest, Gen(sidecar), Flushed)
    <3>1. "write" \notin damaged => EndsAt(wal, Gen(sidecar), Flushed)
      BY <2>s DEF SidecarInv, LogRuns
    <3>2. Flushed \in Int /\ n \in 0 .. Len(wal)
      BY <1>t, <2>m, <2>s, SidecarNumbers
    <3>3. QED
      BY <3>1, <3>2, EndsAtSuffix
  <2>a. compactor.folded = <<>> => compactor.merged = snapshot
    BY <2>m, <1>t, SidecarNumbers, ReplayNothing
  <2> HIDE DEF n, rest
  <2>1. /\ compactor' \in Compaction /\ compactor'.pc = "swap" /\ compactor'.stamp = compactor.stamp
        /\ compactor'.merged = compactor.merged /\ compactor'.folded = compactor.folded
        /\ compactor'.tail = rest
    BY <1>t, <2>n, <2>r DEF SidecarTyped, Compaction
  <2>2. SidecarTyped' /\ Waiting'
    BY <1>t, <2>n, <2>m, <2>1, CompactorGoesOn DEF SidecarTyped
  <2>3. Generations'
    BY <2>n, <2>u, <2>1, CompactorReads DEF SidecarInv, Generations
  <2>4. Folding'
    BY <2>1 DEF Folding
  <2>5. ASSUME SteadyFiles
        PROVE  Meets(compactor.merged, rest)
    <3>1. /\ Meets(snapshot, wal) /\ Chained(wal) /\ EndsAt(wal, Gen(sidecar), Flushed)
          /\ Flushed \in Int
      BY <2>5, <2>s, <1>t, SidecarNumbers DEF SidecarInv, FilesMeet, LogRuns, SteadyFiles
    <3>2. CASE compactor.folded = <<>>
      <4>1. n = 0 /\ Len(rest) = Len(wal)
        BY <3>2, <2>m, <2>r DEF n
      <4>2. QED
        BY <3>1, <3>2, <4>1, <2>a DEF Meets
    <3>3. CASE compactor.folded # <<>>
      <4> DEFINE folded == compactor.folded
      <4>1. Chained(folded) /\ folded[1] = wal[1] /\ wal # <<>>
        BY <3>1, <3>3, <2>m, <1>2, ChainedPrefix
      <4>2. Gen(wal[1]) = Gen(sidecar) /\ Count(wal[1]) = Flushed - Len(wal) + 1
        BY <3>1, <4>1, EndsAtChained
      <4>3. snapshot \in Digest /\ compactor.merged # Bad
        BY <2>m, <1>t, SidecarNumbers, DigestPairs
      <4>4. /\ Gen(folded[1]) = Gen(snapshot)
            /\ ReplayLog(snapshot, folded) = <<Gen(snapshot), Count(folded[1]) - 1 + Len(folded)>>
        BY <4>1, <4>3, <3>3, <2>m, ReplayedRun
      <4>5. Gen(compactor.merged) = Gen(sidecar) /\ Count(compactor.merged) = Flushed - Len(wal) + n
        <5>1. Len(folded) = n /\ Count(folded[1]) = Flushed - Len(wal) + 1
          BY <4>1, <4>2 DEF n
        <5> HIDE DEF folded
        <5>2. Flushed \in Int /\ Len(wal) \in Nat /\ n \in Nat
          BY <3>1, <2>m
        <5>3. Count(folded[1]) - 1 + Len(folded) = Flushed - Len(wal) + n
          BY <5>1, <5>2
        <5>4. compactor.merged = <<Gen(snapshot), Flushed - Len(wal) + n>>
          BY <4>4, <5>3, <2>m DEF folded
        <5>5. QED
          BY <4>1, <4>2, <4>4, <5>4, PairDigests
      <4>6. QED
        BY <4>5, <3>1, <2>m, <2>r DEF Meets
    <3>4. QED
      BY <3>2, <3>3
  <2>6. ASSUME rebuild.pc = "adopt", "race" \notin damaged
        PROVE  compactor.merged = rebuild.digest
    <3>1. snapshot = rebuild.digest /\ Gen(snapshot) = generation /\ Newest = generation - 1
      BY <2>6, <1>t DEF SidecarInv, Rebuilt, SidecarTyped, Newest
    <3>2. compactor.folded = <<>>
      <4>1. SUFFICES ASSUME compactor.folded # <<>> PROVE FALSE
        OBVIOUS
      <4>2. snapshot \in Digest /\ compactor.merged # Bad /\ generation \in Nat
        BY <2>m, <1>t, SidecarNumbers, DigestPairs
      <4>3. PICK i \in 1 .. Len(compactor.folded) :
              /\ compactor.folded[i] \in Digest
              /\ Gen(compactor.folded[i]) = Gen(snapshot)
        BY <4>1, <4>2, <2>m, ReplayMeets
      <4>4. Gen(compactor.folded[i]) <= generation - 1
        BY <3>1, <4>3 DEF SidecarInv, Generations, UpTo
      <4>5. QED
        BY <3>1, <4>2, <4>3, <4>4
    <3>3. QED
      BY <3>1, <3>2, <2>a
  <2>7. Swapping'
    BY <1>2, <2>n, <2>1, <2>e, <2>5, <2>6, <2>r, <2>m, CompactorReads
       DEF Swapping, SteadyFiles, Meets
  <2>8. QED
    BY <2>n, <2>2, <2>3, <2>4, <2>7, CompactorReads DEF SidecarInv
<1>3. QED
  BY <1>1, <1>2

LEMMA SwapSnapshotKeeps ==
    ASSUME SidecarInv, SwapSnapshot
    PROVE  SidecarInv'
<1>t. SidecarTyped
  BY DEF SidecarInv
<1>n. /\ compactor.pc = "swap" /\ snapshot' = compactor.merged /\ version' = version + 1
      /\ damaged' = IF version = compactor.stamp THEN damaged ELSE damaged \cup {"race"}
      /\ compactor' = [compactor EXCEPT !.pc = "tail"]
      /\ wal' = wal /\ lock' = lock /\ chainLength' = chainLength /\ sidecar' = sidecar
      /\ pending' = pending /\ wanted' = wanted /\ batch' = batch /\ taken' = taken
      /\ rebuild' = rebuild /\ generation' = generation
  BY DEF SwapSnapshot, Compacting, CompactorOnly, queued, bounds
<1>1. /\ compactor' \in Compaction /\ compactor'.pc = "tail" /\ compactor'.stamp = compactor.stamp
      /\ compactor'.merged = compactor.merged /\ compactor'.folded = compactor.folded
      /\ compactor'.tail = compactor.tail /\ compactor.merged \in Digest
      /\ version + 1 \in Nat /\ compactor.stamp <= version + 1
  <2>1. /\ version + 1 \in Nat /\ compactor.stamp <= version + 1
    BY <1>t, SidecarNumbers DEF SidecarTyped
  <2>2. QED
    BY <1>t, <1>n, <2>1 DEF SidecarTyped, Compaction
<1>s. sidecar # NoDigest
  BY <1>n DEF SidecarInv, Waiting
<1>2. Flushed' = Flushed /\ Newest' = Newest
  BY <1>n DEF Flushed, Newest
<1>3. SidecarTyped'
  <2>1. SidecarTypeOK'
    BY <1>t, <1>n, <1>1 DEF SidecarTyped, SidecarTypeOK
  <2>2. QED
    BY <1>t, <1>n, <1>1, <2>1 DEF SidecarTyped, Compaction
<1>4. Waiting'
  BY <1>n, <1>1, <1>2, <1>s DEF SidecarInv, Waiting
<1>5. Generations'
  BY <1>n, <1>1, <1>2 DEF SidecarInv, Generations
<1>6. LogRuns'
  BY <1>n, <1>2 DEF SidecarInv, LogRuns
<1>7. SteadyFiles' => /\ SteadyFiles /\ Meets(compactor.merged, compactor.tail)
                      /\ Len(compactor.tail) <= Len(wal)
  BY <1>n DEF SidecarInv, Swapping, SteadyFiles
<1>8. FilesMeet'
  <2>1. SteadyFiles' => Meets(compactor.merged, wal)
    <3>1. Flushed \in Int /\ Len(wal) \in Nat /\ Len(compactor.tail) \in Nat
      BY <1>t, <1>s, SidecarNumbers
    <3>2. Count(compactor.merged) \in Nat
      BY <1>1, DigestPairs
    <3>3. QED
      BY <1>7, <3>1, <3>2 DEF Meets
  <2>2. QED
    BY <2>1, <1>n, <1>2 DEF FilesMeet, Meets
<1>9. Rebuilt'
  BY <1>n DEF SidecarInv, Swapping, Rebuilt
<1>10. Folding'
  BY <1>1 DEF Folding
<1>11. Swapping'
  <2>1. /\ "write" \notin damaged' => EndsAt(compactor.tail, Gen(sidecar), Flushed)
        /\ SteadyFiles' => Meets(compactor.merged, compactor.tail)'
    BY <1>n, <1>1, <1>2, <1>7 DEF SidecarInv, Swapping, Meets
  <2>2. QED
    BY <2>1, <1>n, <1>1, <1>2, <1>7 DEF Swapping, Meets
<1>12. QED
  BY <1>3, <1>4, <1>5, <1>6, <1>8, <1>9, <1>10, <1>11 DEF SidecarInv

LEMMA SwapTailKeeps ==
    ASSUME SidecarInv, SwapTail
    PROVE  SidecarInv'
<1>t. SidecarTyped
  BY DEF SidecarInv
<1>n. /\ compactor.pc = "tail" /\ snapshot' = snapshot /\ version' = version
      /\ damaged' = damaged /\ compactor' = NoCompaction
      /\ wal' = compactor.tail /\ lock' = "free" /\ chainLength' = chainLength
      /\ sidecar' = sidecar
      /\ pending' = pending /\ wanted' = wanted /\ batch' = batch /\ taken' = taken
      /\ rebuild' = rebuild /\ generation' = generation
  BY DEF SwapTail, EndCompaction, Compacting, CompactorOnly, queued, bounds
<1>1. /\ compactor'.pc = "idle" /\ compactor'.stamp = 0 /\ compactor'.merged = NoDigest
      /\ compactor'.folded = <<>> /\ compactor'.tail = <<>> /\ compactor' \in Compaction
      /\ NoDigest \notin Digest /\ 0 <= version /\ compactor.tail \in Seq(Record)
      /\ batch = <<>>
  <2>1. NoDigest \notin Digest /\ 0 <= version /\ compactor.tail \in Seq(Record)
    BY <1>t, SidecarNumbers, DigestPairs
  <2>2. batch = <<>>
    BY <1>t, <1>n DEF SidecarTyped, SidecarTypeOK
  <2>3. QED
    BY <1>n, <2>1, <2>2 DEF NoCompaction, Compaction
<1>s. sidecar # NoDigest
  BY <1>n DEF SidecarInv, Waiting
<1>2. Flushed' = Flushed /\ Newest' = Newest
  BY <1>n DEF Flushed, Newest
<1>3. SidecarTyped'
  <2>1. SidecarTypeOK'
    BY <1>t, <1>n, <1>1 DEF SidecarTyped, SidecarTypeOK, Record
  <2>2. QED
    BY <1>t, <1>n, <1>1, <2>1 DEF SidecarTyped, Compaction
<1>4. Waiting'
  BY <1>n, <1>1, <1>2, <1>s DEF SidecarInv, Waiting
<1>5. Generations'
  BY <1>n, <1>1, <1>2 DEF SidecarInv, Generations, UpTo
<1>6. LogRuns'
  <2>1. "write" \notin damaged =>
           EndsAt(compactor.tail, Gen(sidecar), Flushed) /\ Chained(compactor.tail)
    BY <1>n, <1>t, <1>s, SidecarNumbers, EndsAtChained DEF SidecarInv, Swapping
  <2>2. QED
    BY <2>1, <1>n, <1>2 DEF LogRuns
<1>7. FilesMeet'
  <2>1. SteadyFiles => Meets(snapshot, compactor.tail)
    BY <1>n DEF SidecarInv, Swapping
  <2>2. QED
    BY <2>1, <1>n, <1>2 DEF FilesMeet, SteadyFiles, Meets
<1>8. Rebuilt' /\ Folding' /\ Swapping'
  BY <1>n, <1>1 DEF SidecarInv, Rebuilt, Folding, Swapping, EndsTorn
<1>9. QED
  BY <1>3, <1>4, <1>5, <1>6, <1>7, <1>8 DEF SidecarInv

LEMMA ScheduleKeeps ==
    ASSUME SidecarInv, Schedule
    PROVE  SidecarInv'
<1>t. SidecarTyped
  BY DEF SidecarInv
<1>n. /\ snapshot' = snapshot /\ version' = version /\ wal' = wal /\ chainLength' = chainLength
      /\ sidecar' = sidecar /\ pending' = pending /\ wanted' = wanted /\ batch' = batch
      /\ taken' = taken /\ lock' = lock /\ compactor' = compactor /\ damaged' = damaged
      /\ rebuild.pc = "idle" /\ generation < MaxRebuilds /\ generation' = generation + 1
      /\ rebuild' = [pc |-> "remove", digest |-> <<generation + 1, chainLength>>]
  BY DEF Schedule, disk, queued
<1>1. /\ <<generation + 1, chainLength>> \in Digest
      /\ Gen(<<generation + 1, chainLength>>) = generation + 1
      /\ Count(<<generation + 1, chainLength>>) = chainLength
      /\ generation + 1 \in 0 .. MaxRebuilds
      /\ rebuild'.pc = "remove" /\ rebuild'.digest = <<generation + 1, chainLength>>
      /\ chainLength <= chainLength
  <2>1. generation + 1 \in 0 .. MaxRebuilds /\ chainLength \in 0 .. MaxEntries
    BY <1>t, <1>n, SidecarNumbers DEF SidecarTyped, SidecarTypeOK
  <2>2. QED
    BY <1>n, <2>1, PairDigests, SidecarNumbers, <1>t
<1>2. Flushed' = Flushed /\ Newest' = Newest
  BY <1>t, <1>n, <1>1, SidecarNumbers DEF Flushed, Newest
<1>3. SidecarTyped'
  <2>1. SidecarTypeOK'
    BY <1>t, <1>n DEF SidecarTyped, SidecarTypeOK
  <2>2. QED
    BY <1>t, <1>n, <1>1, <2>1 DEF SidecarTyped
<1>4. Generations'
  <2>1. /\ Gen(snapshot) <= generation + 1
        /\ compactor.merged \in Digest => Gen(compactor.merged) <= generation + 1
    <3>1. compactor.merged \in Digest => Gen(compactor.merged) \in Nat
      BY DigestPairs
    <3>2. QED
      BY <3>1, <1>t, SidecarNumbers DEF SidecarInv, Generations
  <2>2. QED
    BY <2>1, <1>n, <1>2 DEF SidecarInv, Generations
<1>5. QED
  BY <1>n, <1>1, <1>2, <1>3, <1>4
     DEF SidecarInv, Waiting, LogRuns, FilesMeet, SteadyFiles, Meets, Rebuilt, Folding, Swapping

LEMMA RebuildFailsKeeps ==
    ASSUME SidecarInv, RebuildFails
    PROVE  SidecarInv'
<1>t. SidecarTyped
  BY DEF SidecarInv
<1>n. /\ snapshot' = snapshot /\ version' = version /\ wal' = wal /\ chainLength' = chainLength
      /\ sidecar' = sidecar /\ pending' = pending /\ wanted' = wanted /\ batch' = batch
      /\ taken' = taken /\ lock' = lock /\ compactor' = compactor /\ damaged' = damaged
      /\ rebuild.pc = "remove" /\ generation' = generation
      /\ rebuild' = NoSidecarRebuild
  BY DEF RebuildFails, disk, queued
<1>1. rebuild'.pc = "idle" /\ rebuild'.digest = NoDigest /\ Flushed' = Flushed
  BY <1>n DEF NoSidecarRebuild, Flushed
<1>2. Newest' = generation /\ Newest \in Int /\ Newest <= generation
  BY <1>n, <1>1, <1>t, SidecarNumbers DEF Newest
<1>3. SidecarTyped'
  <2>1. SidecarTypeOK'
    BY <1>t, <1>n DEF SidecarTyped, SidecarTypeOK
  <2>2. QED
    BY <1>t, <1>n, <1>1, <2>1 DEF SidecarTyped, NoSidecarRebuild
<1>4. Generations'
  <2>1. sidecar # NoDigest => Gen(sidecar) <= generation
    BY <1>2, <1>t, SidecarNumbers DEF SidecarInv, Generations
  <2>2. UpTo(wal, generation) /\ UpTo(compactor.folded, generation) /\ UpTo(compactor.tail, generation)
    BY <1>2, <1>t, SidecarNumbers, UpToFacts DEF SidecarInv, Generations
  <2>3. QED
    BY <2>1, <2>2, <1>n, <1>2 DEF SidecarInv, Generations
<1>5. QED
  BY <1>n, <1>1, <1>3, <1>4
     DEF SidecarInv, Waiting, LogRuns, FilesMeet, SteadyFiles, Meets, Rebuilt, Folding, Swapping

LEMMA RemoveWalKeeps ==
    ASSUME SidecarInv, RemoveWal
    PROVE  SidecarInv'
<1>t. SidecarTyped
  BY DEF SidecarInv
<1>n. /\ snapshot' = snapshot /\ version' = version /\ wal' = <<>> /\ chainLength' = chainLength
      /\ sidecar' = sidecar /\ pending' = pending /\ wanted' = wanted /\ batch' = batch
      /\ taken' = taken /\ lock' = lock /\ compactor' = compactor /\ damaged' = damaged
      /\ rebuild.pc = "remove" /\ generation' = generation
      /\ rebuild' = [rebuild EXCEPT !.pc = "replace"]
  BY DEF RemoveWal, queued, bounds
<1>1. /\ rebuild'.pc = "replace" /\ rebuild'.digest = rebuild.digest
      /\ Flushed' = Flushed /\ Newest' = Newest
  BY <1>t, <1>n DEF SidecarTyped, Flushed, Newest
<1>3. SidecarTyped'
  <2>1. SidecarTypeOK'
    BY <1>t, <1>n DEF SidecarTyped, SidecarTypeOK
  <2>2. QED
    BY <1>t, <1>n, <1>1, <2>1 DEF SidecarTyped
<1>4. Generations' /\ LogRuns'
  BY <1>n, <1>1, EmptyRuns DEF SidecarInv, Generations, LogRuns, UpTo
<1>5. ~SteadyFiles'
  BY <1>1 DEF SteadyFiles
<1>6. QED
  BY <1>n, <1>1, <1>3, <1>4, <1>5
     DEF SidecarInv, Waiting, FilesMeet, Rebuilt, Folding, Swapping

LEMMA ReplaceSnapshotKeeps ==
    ASSUME SidecarInv, ReplaceSnapshot
    PROVE  SidecarInv'
<1>t. SidecarTyped
  BY DEF SidecarInv
<1>n. /\ snapshot' = rebuild.digest /\ version' = version + 1 /\ wal' = wal
      /\ chainLength' = chainLength
      /\ sidecar' = sidecar /\ pending' = pending /\ wanted' = wanted /\ batch' = batch
      /\ taken' = taken /\ lock' = lock /\ compactor' = compactor
      /\ damaged' = damaged \ {"race"}
      /\ rebuild.pc = "replace" /\ generation' = generation
      /\ rebuild' = [rebuild EXCEPT !.pc = "adopt"]
  BY DEF ReplaceSnapshot, queued, bounds
<1>1. /\ rebuild'.pc = "adopt" /\ rebuild'.digest = rebuild.digest
      /\ Flushed' = Flushed /\ Newest' = Newest
      /\ rebuild.digest \in Digest /\ Gen(rebuild.digest) = generation
  BY <1>t, <1>n DEF SidecarTyped, Flushed, Newest
<1>2. version + 1 \in Nat /\ compactor.stamp <= version + 1 /\ compactor.stamp # version + 1
      /\ generation <= generation
  BY SMTT(30), <1>t, SidecarNumbers DEF SidecarTyped
<1>3. SidecarTyped'
  <2>1. SidecarTypeOK'
    BY <1>t, <1>n, <1>1, <1>2 DEF SidecarTyped, SidecarTypeOK
  <2>2. QED
    BY <1>t, <1>n, <1>1, <1>2, <2>1 DEF SidecarTyped
<1>4. Generations' /\ LogRuns'
  BY <1>n, <1>1, <1>2 DEF SidecarInv, Generations, LogRuns
<1>5. ~SteadyFiles'
  BY <1>1 DEF SteadyFiles
<1>6. Folding'
  BY <1>n, <1>2 DEF SidecarInv, Folding
<1>7. Swapping'
  BY <1>n, <1>1, <1>2, <1>5 DEF SidecarInv, Swapping
<1>8. QED
  BY <1>n, <1>1, <1>3, <1>4, <1>5, <1>6, <1>7
     DEF SidecarInv, Waiting, FilesMeet, Rebuilt

LEMMA FreshRun ==
    ASSUME NEW gen \in 0 .. MaxRebuilds, NEW count \in Nat, NEW n \in Nat,
           count + n <= MaxEntries
    PROVE  LET t == [i \in 1 .. n |-> <<gen, count + i>>]
           IN  StartsAfter(t, gen, count) /\ Len(t) = n /\ <<>> \o t = t /\ t \in Seq(Digest)
<1> DEFINE t == [i \in 1 .. n |-> <<gen, count + i>>]
<1>1. ASSUME NEW i \in 1 .. n
      PROVE  <<gen, count + i>> \in Digest
  <2>1. count + i \in 0 .. MaxEntries
    BY BoundAssumption
  <2>2. QED
    BY <2>1, PairDigests
<1>2. t \in Seq(Digest) /\ Len(t) = n
  BY <1>1
<1>3. \A i \in 1 .. n : t[i] = <<gen, count + i>>
  OBVIOUS
<1> HIDE DEF t
<1>4. <<>> \o t = t
  BY <1>2, ConcatEmptySeq
<1>5. StartsAfter(t, gen, count)
  BY <1>2, <1>3 DEF StartsAfter
<1>6. QED
  BY <1>2, <1>4, <1>5 DEF t

LEMMA AdoptKeeps ==
    ASSUME SidecarInv, Adopt
    PROVE  SidecarInv'
<1>t. SidecarTyped
  BY DEF SidecarInv
<1> DEFINE g == Gen(rebuild.digest)
           c == Count(rebuild.digest)
           n == chainLength - c
           t == [i \in 1 .. n |-> <<g, c + i>>]
<1>n. /\ snapshot' = snapshot /\ version' = version /\ wal' = <<>> /\ chainLength' = chainLength
      /\ sidecar' = <<g, chainLength>> /\ pending' = <<>> \o t
      /\ wanted' = wanted /\ batch' = batch /\ taken' = taken /\ lock' = lock
      /\ compactor' = compactor /\ damaged' = damaged \ {"write"}
      /\ rebuild.pc = "adopt" /\ lock = "free" /\ generation' = generation
      /\ rebuild' = NoSidecarRebuild
  BY DEF Adopt, AdoptWith, bounds
<1>g. /\ rebuild.digest \in Digest /\ g = generation /\ c \in Nat /\ c <= chainLength
      /\ chainLength \in 0 .. MaxEntries /\ generation \in 0 .. MaxRebuilds
      /\ batch = <<>> /\ compactor.pc \notin {"swap", "tail"}
  BY <1>t, <1>n, DigestPairs DEF SidecarTyped, SidecarTypeOK
<1>c. n \in Nat /\ c + n = chainLength /\ c + n <= MaxEntries
  BY <1>g, <1>t, SidecarNumbers
<1>1. StartsAfter(t, g, c) /\ Len(t) = n /\ pending' = t /\ t \in Seq(Digest)
  <2> DEFINE m == n
  <2>1. m \in Nat /\ c + m <= MaxEntries /\ g \in 0 .. MaxRebuilds /\ c \in Nat
    BY <1>c, <1>g
  <2>2. LET u == [i \in 1 .. m |-> <<g, c + i>>]
        IN  StartsAfter(u, g, c) /\ Len(u) = m /\ <<>> \o u = u /\ u \in Seq(Digest)
    <3> HIDE DEF m, g, c
    <3>1. QED
      BY <2>1, FreshRun
  <2>3. QED
    BY <2>2, <1>n
<1>2. /\ <<g, chainLength>> \in Digest /\ Gen(sidecar') = g /\ Count(sidecar') = chainLength
      /\ sidecar' \in Digest /\ sidecar' # NoDigest
  BY <1>n, <1>g, PairDigests, DigestPairs
<1> HIDE DEF g, c, n, t
<1>3. rebuild'.pc = "idle" /\ rebuild'.digest = NoDigest /\ Newest' = generation
  BY <1>n DEF NoSidecarRebuild, Newest
<1>4. Flushed' = c
  <2>1. Len(batch') = 0 /\ Len(pending') = n
    BY <1>n, <1>g, <1>1
  <2>2. QED
    BY <2>1, <1>2, <1>c, <1>g DEF Flushed
<1>5. SidecarTyped'
  <2>1. SidecarTypeOK'
    BY <1>t, <1>n, <1>1, <1>2 DEF SidecarTyped, SidecarTypeOK
  <2>2. QED
    BY <1>t, <1>n, <1>3, <2>1 DEF SidecarTyped, NoSidecarRebuild
<1>6. Waiting'
  <2>1. c + Len(batch') = c
    BY <1>n, <1>g
  <2>2. StartsAfter(batch', g, c)
    BY <1>n, <1>g, EmptyRuns
  <2>3. QED
    BY <2>1, <2>2, <1>1, <1>2, <1>4, <1>g DEF Waiting
<1>7. Generations'
  <2>1. Newest \in Int /\ generation \in Int /\ Newest <= generation
    BY <1>t, SidecarNumbers
  <2>2. UpTo(compactor.folded, generation) /\ UpTo(compactor.tail, generation)
    BY <2>1, <1>t, SidecarNumbers, UpToFacts DEF SidecarInv, Generations
  <2>3. UpTo(<<>>, generation)
    BY DEF UpTo
  <2>4. QED
    BY <2>1, <2>2, <2>3, <1>n, <1>g, <1>2, <1>3 DEF SidecarInv, Generations
<1>8. LogRuns'
  BY <1>n, EmptyRuns DEF LogRuns
<1>9. FilesMeet'
  <2>1. SteadyFiles' => snapshot = rebuild.digest
    BY <1>n DEF SteadyFiles, SidecarInv, Rebuilt
  <2>2. Len(wal') = 0 /\ c - 0 <= c /\ c <= c
    BY <1>n, <1>g
  <2>3. QED
    BY <2>1, <2>2, <1>n, <1>2, <1>4 DEF FilesMeet, Meets, g, c
<1>10. Rebuilt' /\ Folding' /\ Swapping'
  BY <1>n, <1>3, <1>g DEF SidecarInv, Rebuilt, Folding, Swapping
<1>11. QED
  BY <1>5, <1>6, <1>7, <1>8, <1>9, <1>10 DEF SidecarInv

LEMMA CrashKeeps ==
    ASSUME SidecarInv, Crash
    PROVE  SidecarInv'
<1>t. SidecarTyped
  BY DEF SidecarInv
<1> DEFINE loaded == ReplayLog(snapshot, wal')
<1>n. /\ snapshot' = snapshot /\ version' = version /\ chainLength' = chainLength
      /\ sidecar' = IF Fresh(loaded) THEN loaded ELSE NoDigest
      /\ pending' = <<>> /\ wanted' = "no" /\ batch' = <<>> /\ taken' = "no" /\ lock' = "free"
      /\ compactor' = NoCompaction /\ rebuild' = NoSidecarRebuild /\ generation' = generation
      /\ \/ wal' = wal /\ damaged' = damaged
         \/ wal' \in {Append(wal, Stub), Append(wal, Torn)} /\ damaged' = damaged \cup {"write"}
  BY DEF Crash
<1>1. wal' \in Seq(Record) /\ UpTo(wal', Newest) /\ snapshot \in Digest
  <2>1. wal \in Seq(Record) /\ Stub \in Record /\ Torn \in Record /\ UpTo(wal, Newest)
        /\ Newest \in Int /\ snapshot \in Digest
    BY <1>t, SidecarNumbers DEF Record, SidecarInv, Generations
  <2>2. Append(wal, Stub) \in Seq(Record) /\ Append(wal, Torn) \in Seq(Record)
    BY <2>1
  <2>3. Stub \notin Digest /\ Torn \notin Digest
    BY DigestPairs
  <2>4. UpTo(Append(wal, Stub), Newest) /\ UpTo(Append(wal, Torn), Newest)
    BY <2>1, <2>3, UpToFacts
  <2>5. QED
    BY <2>1, <2>2, <2>4, <1>n
<1>2. sidecar' # NoDigest => /\ sidecar' = loaded /\ loaded # Bad /\ sidecar' \in Digest
                             /\ Gen(sidecar') = Gen(snapshot) /\ Count(sidecar') \in Nat
  <2>1. loaded = Bad \/ (loaded \in Digest /\ Gen(loaded) = Gen(snapshot))
    BY <1>1, ReplayTyped
  <2>2. sidecar' # NoDigest => sidecar' = loaded /\ loaded # Bad
    BY <1>n DEF Fresh
  <2>3. QED
    BY <2>1, <2>2, DigestPairs
<1> HIDE DEF loaded
<1>3. /\ compactor'.pc = "idle" /\ compactor'.stamp = 0 /\ compactor'.merged = NoDigest
      /\ compactor'.folded = <<>> /\ compactor'.tail = <<>> /\ compactor' \in Compaction
      /\ rebuild'.pc = "idle" /\ rebuild'.digest = NoDigest
      /\ NoDigest \notin Digest /\ 0 <= version /\ Newest' = generation
  <2>1. NoDigest \notin Digest /\ 0 <= version
    BY <1>t, SidecarNumbers, DigestPairs
  <2>2. QED
    BY <1>n, <2>1 DEF NoCompaction, NoSidecarRebuild, Compaction, Newest
<1>4. sidecar' # NoDigest => Flushed' = Count(sidecar')
  <2>1. Len(pending') = 0 /\ Len(batch') = 0
    BY <1>n
  <2>2. QED
    BY <1>2, <2>1 DEF Flushed
<1>5. SidecarTyped'
  <2>1. SidecarTypeOK'
    <3>1. sidecar' \in Digest \cup {NoDigest} /\ damaged' \subseteq {"write", "race"}
      BY <1>t, <1>n, <1>2 DEF SidecarTyped, SidecarTypeOK
    <3>2. /\ wal' \in Seq(Digest \cup {Stub, Torn}) /\ pending' \in Seq(Digest)
          /\ batch' \in Seq(Digest)
      BY <1>n, <1>1 DEF Record
    <3>3. (lock' = "compact") = (compactor'.pc \in {"swap", "tail"})
      BY <1>n, <1>3
    <3>4. QED
      BY <1>t, <1>n, <3>1, <3>2, <3>3 DEF SidecarTyped, SidecarTypeOK
  <2>2. QED
    BY <1>t, <1>n, <1>3, <2>1 DEF SidecarTyped, Compaction, NoSidecarRebuild
<1>6. Waiting'
  BY <1>n, <1>2, <1>3, <1>4, EmptyRuns DEF Waiting
<1>7. Generations'
  <2>1. generation \in Int /\ Newest \in Int /\ Newest <= generation
    BY <1>t, SidecarNumbers
  <2>2. UpTo(wal', generation)
    BY <2>1, <1>1, UpToFacts
  <2>3. UpTo(<<>>, generation)
    BY DEF UpTo
  <2>4. QED
    BY <2>1, <2>2, <2>3, <1>n, <1>2, <1>3 DEF SidecarInv, Generations
<1>8. ASSUME "write" \notin damaged', sidecar' # NoDigest
      PROVE  EndsAt(wal', Gen(sidecar'), Count(sidecar')) /\ Meets(snapshot, wal)'
  <2>1. wal' = wal /\ Chained(wal)
    BY <1>8, <1>n DEF SidecarInv, LogRuns
  <2>2. CASE wal = <<>>
    <3>1. sidecar' = snapshot
      BY <1>1, <1>2, <1>8, <2>1, <2>2, ReplayNothing DEF loaded
    <3>2. Len(wal') = 0 /\ Count(snapshot) \in Nat
      BY <1>1, <2>1, <2>2, DigestPairs
    <3>3. Count(snapshot) - 0 <= Count(snapshot) /\ Count(snapshot) <= Count(snapshot)
      BY <3>2
    <3>4. QED
      BY <3>1, <3>2, <3>3, <1>n, <1>4, <1>8, <2>1, <2>2, EmptyRuns DEF Meets
  <2>3. CASE wal # <<>>
    <3>1. /\ Gen(wal[1]) = Gen(snapshot)
          /\ Count(wal[1]) - 1 <= Count(snapshot) /\ Count(snapshot) <= Count(wal[1]) - 1 + Len(wal)
          /\ sidecar' = <<Gen(snapshot), Count(wal[1]) - 1 + Len(wal)>>
      BY <1>1, <1>2, <1>8, <2>1, <2>3, ReplayedRun DEF loaded
    <3>2. /\ EndsAt(wal, Gen(wal[1]), Count(wal[1]) - 1 + Len(wal))
          /\ Count(wal[1]) \in Nat /\ Len(wal) \in Nat
      BY <2>1, <2>3, ChainedEndsAt
    <3>3. Gen(sidecar') = Gen(snapshot) /\ Count(sidecar') = Count(wal[1]) - 1 + Len(wal)
      BY <3>1, PairDigests
    <3>4. (Count(wal[1]) - 1 + Len(wal)) - Len(wal) = Count(wal[1]) - 1
      BY <3>2
    <3>5. QED
      BY <3>1, <3>2, <3>3, <3>4, <1>n, <1>4, <1>8, <2>1 DEF Meets
  <2>4. QED
    BY <2>2, <2>3
<1>9. LogRuns'
  <2>1. "write" \notin damaged' => Chained(wal')
    BY <1>n DEF SidecarInv, LogRuns
  <2>2. QED
    BY <2>1, <1>4, <1>8 DEF LogRuns
<1>10. FilesMeet'
  BY <1>8 DEF FilesMeet, SteadyFiles
<1>11. Rebuilt' /\ Folding' /\ Swapping'
  BY <1>3 DEF Rebuilt, Folding, Swapping, EndsTorn
<1>12. QED
  BY <1>5, <1>6, <1>7, <1>9, <1>10, <1>11 DEF SidecarInv

\* A load only reads.
LEMMA LoadKeeps ==
    ASSUME SidecarInv, Load \/ UNCHANGED sidecarVars
    PROVE  SidecarInv'
<1>n. /\ snapshot' = snapshot /\ version' = version /\ wal' = wal /\ chainLength' = chainLength
      /\ sidecar' = sidecar /\ pending' = pending /\ wanted' = wanted /\ batch' = batch
      /\ taken' = taken /\ lock' = lock /\ compactor' = compactor /\ rebuild' = rebuild
      /\ damaged' = damaged /\ generation' = generation
  BY DEF Load, StartLoad, LoadSnapshot, LoadLog, Settle, EndLoad, ReaderOnly, sidecarVars,
         disk, queued, bounds
<1>1. Flushed' = Flushed /\ Newest' = Newest
  BY <1>n DEF Flushed, Newest
<1>2. SidecarTyped'
  BY <1>n DEF SidecarInv, SidecarTyped, SidecarTypeOK
<1>3. QED
  BY <1>n, <1>1, <1>2 DEF SidecarInv, Waiting, Generations, LogRuns, FilesMeet, SteadyFiles,
     Meets, Rebuilt, Folding, Swapping

LEMMA SidecarSteps == SidecarInv /\ [SidecarNext]_sidecarVars => SidecarInv'
<1> SUFFICES ASSUME SidecarInv, [SidecarNext]_sidecarVars PROVE SidecarInv'
  OBVIOUS
<1>1. CASE IndexThought
  BY <1>1, IndexThoughtKeeps
<1>2. CASE Flush
  BY <1>2, StartFlushKeeps, WriteRecordKeeps, WriteFailsKeeps, EndFlushKeeps DEF Flush
<1>3. CASE Compact
  BY <1>3, ReadStampKeeps, ReadSnapshotKeeps, CopyWalKeeps, FoldKeeps, CheckKeeps,
     SwapSnapshotKeeps, SwapTailKeeps DEF Compact
<1>4. CASE Rebuild
  BY <1>4, ScheduleKeeps, RemoveWalKeeps, ReplaceSnapshotKeeps, AdoptKeeps, RebuildFailsKeeps
     DEF Rebuild
<1>5. CASE Load \/ UNCHANGED sidecarVars
  BY <1>5, LoadKeeps
<1>6. CASE Crash
  BY <1>6, CrashKeeps
<1>7. QED
  BY <1>1, <1>2, <1>3, <1>4, <1>5, <1>6 DEF SidecarNext

-----------------------------------------------------------------------------
\* Whenever the process dies, the pair of files replays to exactly what has been
\* flushed of the sidecar in memory, unless a log write has failed since the log
\* was started, a rebuild is replacing the pair, or a compaction has put an old
\* snapshot over a rebuilt one.
THEOREM FilesReplayToWhatWasFlushed == SidecarSpec => []DiskIsWhole
<1>1. SidecarInv => DiskIsWhole
  <2> SUFFICES ASSUME SidecarInv, rebuild.pc = "idle", sidecar # NoDigest, damaged = {}
               PROVE  Whole
    BY DEF DiskIsWhole
  <2>1. /\ EndsAt(wal, Gen(snapshot), Flushed) /\ Flushed \in Nat
        /\ Flushed - Len(wal) <= Count(snapshot) /\ Count(snapshot) <= Flushed
        /\ Gen(snapshot) = Gen(sidecar)
    BY DEF SidecarInv, LogRuns, FilesMeet, SteadyFiles, Meets, Waiting
  <2>2. snapshot \in Digest
    BY SidecarNumbers DEF SidecarInv
  <2>3. ReplayLog(snapshot, wal) = <<Gen(snapshot), Flushed>>
    BY <2>1, <2>2, RunReplays
  <2>4. QED
    BY <2>1, <2>3 DEF Whole, Flushed
<1>2. QED
  BY <1>1, SidecarStarts, SidecarSteps, PTL DEF SidecarSpec

-----------------------------------------------------------------------------
(* Loads.  While there has been no rebuild, a load that has read a snapshot    *)
(* which still stands, and then the log, has everything the pair held when it  *)
(* began: a compaction takes out of the log only what it has put into the      *)
(* snapshot.                                                                   *)

\* A pair of files has a record of at least that count.
Reaches(snap, log, count) ==
    \/ count <= Count(snap)
    \/ \E i \in 1 .. Len(log) : log[i] \in Digest /\ count <= Count(log[i])

\* Whatever replays at all has everything that is in the pair, and no more.
LEMMA ReplayReaches ==
    ASSUME NEW snap \in Digest, NEW log \in Seq(Record), NEW count \in Nat,
           ReplayLog(snap, log) # Bad
    PROVE  /\ Reaches(snap, log, count) => count <= Count(ReplayLog(snap, log))
           /\ Count(snap) <= Count(ReplayLog(snap, log))
           /\ \A i \in 1 .. Len(log) :
                 log[i] \in Digest => Count(log[i]) <= Count(ReplayLog(snap, log))
           /\ Reaches(snap, log, Count(ReplayLog(snap, log)))
<1> DEFINE whole == IF EndsTorn(log) THEN Front(log) ELSE log
<1>1. /\ whole \in Seq(Record) /\ Len(whole) \in Nat /\ Len(whole) <= Len(log)
      /\ \A i \in 1 .. Len(whole) : whole[i] = log[i]
      /\ \A i \in 1 .. Len(log) : log[i] \in Digest => i \in 1 .. Len(whole)
  <2>1. CASE EndsTorn(log)
    <3>1. Len(log) \in Nat \ {0} /\ log[Len(log)] = Stub
      BY <2>1 DEF EndsTorn, Last
    <3>2. /\ Front(log) \in Seq(Record) /\ Len(Front(log)) = Len(log) - 1
          /\ \A i \in 1 .. Len(log) - 1 : Front(log)[i] = log[i]
      <4>1. \A i \in 1 .. Len(log) - 1 : log[i] \in Record
        BY <3>1
      <4>2. /\ Front(log) \in Seq(Record)
            /\ Len(Front(log)) = IF 1 <= Len(log) - 1 THEN (Len(log) - 1) - 1 + 1 ELSE 0
        BY <3>1, <4>1, SubSeqProperties DEF Front
      <4>3. Len(Front(log)) = Len(log) - 1
        <5>1. CASE Len(log) = 1
          BY <4>2, <5>1
        <5>2. CASE Len(log) # 1
          BY <3>1, <4>2, <5>2
        <5>3. QED
          BY <5>1, <5>2
      <4>4. \A i \in 1 .. Len(log) - 1 : Front(log)[i] = log[i]
        <5> DEFINE short == SubSeq(log, 1, Len(log) - 1)
        <5>1. short = Front(log)
          BY DEF Front
        <5>2. \A i \in 1 .. Len(log) - 1 : short[i] = log[1 + i - 1]
          BY <3>1, <4>1, SubSeqProperties
        <5>3. \A i \in 1 .. Len(log) - 1 : 1 + i - 1 = i
          BY <3>1
        <5> HIDE DEF short
        <5>4. QED
          BY <5>1, <5>2, <5>3
      <4>5. QED
        BY <4>2, <4>3, <4>4
    <3>3. Stub \notin Digest
      BY DigestPairs
    <3>4. \A i \in 1 .. Len(log) : log[i] \in Digest => i \in 1 .. Len(log) - 1
      BY <3>1, <3>3
    <3>5. QED
      BY <2>1, <3>1, <3>2, <3>4
  <2>2. CASE ~EndsTorn(log)
    BY <2>2
  <2>3. QED
    BY <2>1, <2>2
<1>2. PICK k \in Covered(snap, whole) :
            ReplayLog(snap, log) = <<Gen(snap), Count(snap) + (Len(whole) - k)>>
  BY Replay
<1> HIDE DEF whole
<1>3. /\ k \in 0 .. Len(whole)
      /\ \A i \in 1 .. k : whole[i] \in Digest /\ Count(whole[i]) <= Count(snap)
      /\ \A i \in k + 1 .. Len(whole) : whole[i] = <<Gen(snap), Count(snap) + (i - k)>>
  BY DEF Covered
<1> DEFINE total == Count(snap) + (Len(whole) - k)
<1>4. Count(ReplayLog(snap, log)) = total /\ Count(snap) \in Nat /\ total \in Nat /\ Count(snap) <= total
  <2>1. Count(ReplayLog(snap, log)) = total
    BY <1>2, PairDigests
  <2>2. Count(snap) \in Nat
    BY DigestPairs
  <2>3. QED
    BY <2>1, <2>2, <1>1, <1>3
<1>5. ASSUME NEW i \in 1 .. Len(log), log[i] \in Digest
      PROVE  Count(log[i]) <= total /\ Count(log[i]) \in Nat
  <2>1. i \in 1 .. Len(whole) /\ whole[i] = log[i] /\ Count(log[i]) \in Nat
    BY <1>1, <1>5, DigestPairs
  <2>2. CASE i \in 1 .. k
    BY <2>1, <2>2, <1>3, <1>4
  <2>3. CASE i \in k + 1 .. Len(whole)
    <3>1. Count(log[i]) = Count(snap) + (i - k)
      BY <2>1, <2>3, <1>3, PairDigests
    <3>2. QED
      BY <3>1, <2>1, <2>3, <1>1, <1>3, <1>4
  <2>4. QED
    BY <2>1, <2>2, <2>3, <1>1, <1>3
<1>6. Reaches(snap, log, total)
  <2>1. CASE k = Len(whole)
    BY <2>1, <1>1, <1>4 DEF Reaches
  <2>2. CASE k # Len(whole)
    <3>1. Len(whole) \in k + 1 .. Len(whole) /\ Len(whole) \in 1 .. Len(log)
      BY <2>2, <1>1, <1>3
    <3>2. log[Len(whole)] = <<Gen(snap), total>>
      BY <3>1, <1>1, <1>3
    <3>3. <<Gen(snap), total>> \in Digest
      BY <1>1, CoveredDigest
    <3>4. Count(log[Len(whole)]) = total
      BY <3>2, PairDigests
    <3>5. QED
      BY <3>1, <3>2, <3>3, <3>4, <1>4 DEF Reaches
  <2>3. QED
    BY <2>1, <2>2
<1> HIDE DEF total
<1>7. ASSUME Reaches(snap, log, count)
      PROVE  count <= total
  <2>1. CASE count <= Count(snap)
    BY <2>1, <1>4
  <2>2. CASE \E i \in 1 .. Len(log) : log[i] \in Digest /\ count <= Count(log[i])
    BY <2>2, <1>4, <1>5
  <2>3. QED
    BY <1>7, <2>1, <2>2 DEF Reaches
<1>8. QED
  BY <1>4, <1>5, <1>6, <1>7

LEMMA ReachesAppend ==
    ASSUME NEW snap, NEW log \in Seq(Record), NEW count, NEW d \in Record,
           Reaches(snap, log, count)
    PROVE  Reaches(snap, Append(log, d), count)
<1>1. /\ Len(Append(log, d)) = Len(log) + 1 /\ Len(log) \in Nat
      /\ \A i \in 1 .. Len(log) : Append(log, d)[i] = log[i] /\ i \in 1 .. Len(log) + 1
  OBVIOUS
<1>2. QED
  BY <1>1 DEF Reaches

\* The snapshot a compaction has put in place or is about to.
Kept == IF compactor.pc = "swap" THEN compactor.merged ELSE snapshot
LoadTyped ==
    /\ DOMAIN loader = DOMAIN NoReader
    /\ loader.pc \in {"idle", "snapshot", "log", "settle", "done"}
    /\ loader.stamp \in Nat /\ loader.stamp <= version /\ loader.floor \in Nat
    /\ rebuild.pc # "idle" => generation # 0
FloorIsKept == Reaches(snapshot, wal, loader.floor)
FoldedIsKept ==
    compactor.pc \in {"swap", "tail"} =>
       /\ Count(snapshot) <= Count(Kept)
       /\ \A i \in 1 .. Len(wal) :
             wal[i] \in Digest => \/ Count(wal[i]) <= Count(Kept)
                                  \/ \E j \in 1 .. Len(compactor.tail) : compactor.tail[j] = wal[i]
Reading ==
    loader.stamp = version =>
       /\ loader.pc = "log" => loader.digest = snapshot
       /\ loader.pc = "settle" => loader.digest \in Digest /\ loader.floor <= Count(loader.digest)
LoadInv ==
    /\ SidecarInv /\ LoadTyped
    /\ generation = 0 => FloorIsKept /\ FoldedIsKept /\ Reading

LEMMA LoadStarts == SidecarInit => LoadInv
<1> SUFFICES ASSUME SidecarInit PROVE LoadInv
  OBVIOUS
<1>1. SidecarInv
  BY SidecarStarts
<1>2. /\ loader.pc = "idle" /\ loader.stamp = 0 /\ loader.floor = 0 /\ version = 0
      /\ rebuild.pc = "idle" /\ compactor.pc = "idle" /\ snapshot = <<0, 0>>
  BY DEF SidecarInit, NoReader, NoSidecarRebuild, NoCompaction
<1>3. Count(snapshot) = 0
  BY <1>2, PairDigests
<1>4. DOMAIN loader = DOMAIN NoReader
  BY DEF SidecarInit
<1>5. QED
  BY <1>1, <1>2, <1>3, <1>4 DEF LoadInv, LoadTyped, FloorIsKept, FoldedIsKept, Reaches, Reading

\* Steps that change neither the files nor what the load knows.
LEMMA QuietSteps ==
    ASSUME LoadInv, SidecarInv', snapshot' = snapshot, version' = version, wal' = wal,
           loader' = loader, rebuild' = rebuild, generation' = generation,
           compactor' = compactor \/ compactor'.pc \notin {"swap", "tail"}
    PROVE  LoadInv'
<1>1. LoadTyped'
  BY DEF LoadInv, LoadTyped
<1>2. FloorIsKept => FloorIsKept'
  BY DEF FloorIsKept
<1>3. FoldedIsKept => FoldedIsKept'
  BY DEF FoldedIsKept, Kept
<1>4. Reading => Reading'
  BY DEF Reading
<1>5. QED
  BY <1>1, <1>2, <1>3, <1>4 DEF LoadInv

LEMMA QuietActions ==
    ASSUME LoadInv, SidecarInv',
           \/ IndexThought \/ StartFlush \/ EndFlush \/ ReadStamp \/ ReadSnapshot \/ CopyWal \/ Fold
    PROVE  LoadInv'
<1>t. SidecarTyped
  BY DEF LoadInv, SidecarInv
<1> DEFINE Same == /\ snapshot' = snapshot /\ version' = version /\ wal' = wal
                   /\ loader' = loader /\ rebuild' = rebuild /\ generation' = generation
<1>1. ASSUME IndexThought \/ StartFlush
      PROVE  Same /\ compactor' = compactor
  BY <1>1 DEF IndexThought, StartFlush, disk, bounds
<1>2. ASSUME EndFlush
      PROVE  Same /\ (compactor' = compactor \/ compactor'.pc \notin {"swap", "tail"})
  BY <1>2, <1>t DEF EndFlush, disk, bounds, SidecarTyped, Compaction
<1>3. ASSUME ReadStamp \/ ReadSnapshot \/ CopyWal
      PROVE  Same /\ compactor'.pc \notin {"swap", "tail"}
  BY <1>3, <1>t DEF ReadStamp, ReadSnapshot, CopyWal, CompactorOnly, Untouched, bounds,
     SidecarTyped, Compaction
<1>4. ASSUME Fold
      PROVE  Same /\ compactor'.pc \notin {"swap", "tail"}
  BY <1>4, <1>t DEF Fold, CompactorOnly, Untouched, bounds, SidecarTyped, Compaction, NoCompaction
<1>5. QED
  BY <1>1, <1>2, <1>3, <1>4, QuietSteps

\* The log only grows.
LEMMA WritesKeepFloor ==
    ASSUME LoadInv, SidecarInv', WriteRecord \/ WriteFails
    PROVE  LoadInv'
<1>t. SidecarTyped
  BY DEF LoadInv, SidecarInv
<1>n. /\ snapshot' = snapshot /\ version' = version /\ compactor' = compactor
      /\ loader' = loader /\ rebuild' = rebuild /\ generation' = generation
      /\ lock = "flush" /\ batch # <<>>
      /\ wal' \in {wal, Append(wal, Head(batch)), Append(wal, Stub), Append(wal, Torn)}
  BY DEF WriteRecord, WriteFails, bounds
<1>1. compactor.pc \notin {"swap", "tail"}
  BY <1>t, <1>n DEF SidecarTyped, SidecarTypeOK
<1>2. /\ wal \in Seq(Record) /\ Head(batch) \in Record /\ Stub \in Record /\ Torn \in Record
  BY <1>t, <1>n DEF SidecarTyped, SidecarTypeOK, Record
<1>3. LoadTyped'
  BY <1>n DEF LoadInv, LoadTyped
<1>4. FloorIsKept => FloorIsKept'
  <2>1. Reaches(snapshot, wal, loader.floor) => Reaches(snapshot, wal', loader.floor)
    BY <1>n, <1>2, ReachesAppend
  <2>2. QED
    BY <2>1, <1>n DEF FloorIsKept
<1>5. FoldedIsKept'
  BY <1>n, <1>1 DEF FoldedIsKept
<1>6. Reading => Reading'
  BY <1>n DEF Reading
<1>7. QED
  BY <1>3, <1>4, <1>5, <1>6, <1>n DEF LoadInv

LEMMA CheckKeepsFloor ==
    ASSUME LoadInv, SidecarInv', Check
    PROVE  LoadInv'
<1>t. SidecarTyped
  BY DEF LoadInv, SidecarInv
<1>n. /\ snapshot' = snapshot /\ version' = version /\ wal' = wal /\ loader' = loader
      /\ rebuild' = rebuild /\ generation' = generation /\ compactor.pc = "check"
  BY DEF Check, Compacting, CompactorOnly, Untouched, bounds
<1> DEFINE n == Len(compactor.folded)
           rest == SubSeq(wal, n + 1, Len(wal))
<1>1. CASE compactor' = NoCompaction
  BY <1>1, <1>n, QuietSteps DEF NoCompaction
<1>2. CASE /\ version = compactor.stamp /\ IsPrefix(compactor.folded, wal)
           /\ compactor' = [compactor EXCEPT !.pc = "swap", !.tail = rest]
  <2>1. /\ compactor.folded \in Seq(Record) /\ compactor.merged \in Digest /\ wal \in Seq(Record)
        /\ n \in Nat /\ n <= Len(wal) /\ Len(wal) \in Nat /\ snapshot \in Digest
        /\ ReplayLog(snapshot, compactor.folded) = compactor.merged
    BY <1>t, <1>2, <1>n, SidecarNumbers
       DEF LoadInv, SidecarInv, SidecarTyped, Folding, IsPrefix
  <2>2. compactor'.pc = "swap" /\ compactor'.merged = compactor.merged /\ compactor'.tail = rest
    BY <1>t, <1>2 DEF SidecarTyped, Compaction
  <2>3. /\ Count(snapshot) <= Count(compactor.merged)
        /\ \A i \in 1 .. n : compactor.folded[i] \in Digest =>
              Count(compactor.folded[i]) <= Count(compactor.merged)
    <3>1. compactor.merged # Bad /\ 0 \in Nat
      BY <2>1, DigestPairs
    <3>2. QED
      BY <3>1, <2>1, ReplayReaches
  <2>4. \A i \in 1 .. n : compactor.folded[i] = wal[i]
    <3>1. SubSeq(compactor.folded, 1, n) = compactor.folded
      BY <2>1
    <3>2. compactor.folded = SubSeq(wal, 1, n)
      BY <3>1, <1>2 DEF IsPrefix
    <3>3. \A i \in 1 .. n : SubSeq(wal, 1, n)[i] = wal[i]
      BY <2>1
    <3>4. QED
      BY <3>2, <3>3
  <2>5. /\ Len(rest) = Len(wal) - n
        /\ \A i \in 1 .. Len(wal) - n : rest[i] = wal[n + i]
    <3>1. n \in 0 .. Len(wal)
      BY <2>1
    <3>2. QED
      BY <2>1, <3>1, Suffix
  <2> HIDE DEF n, rest
  <2>6. ASSUME NEW i \in 1 .. Len(wal), wal[i] \in Digest
        PROVE  \/ Count(wal[i]) <= Count(compactor.merged)
               \/ \E j \in 1 .. Len(rest) : rest[j] = wal[i]
    <3>1. CASE i \in 1 .. n
      BY <3>1, <2>3, <2>4, <2>6
    <3>2. CASE i \notin 1 .. n
      <4>1. i - n \in 1 .. Len(rest) /\ n + (i - n) = i
        BY <3>2, <2>1, <2>5
      <4>2. QED
        BY <4>1, <2>1, <2>5
    <3>3. QED
      BY <3>1, <3>2
  <2>7. FoldedIsKept'
    BY <1>n, <2>2, <2>3, <2>6 DEF FoldedIsKept, Kept
  <2>8. LoadTyped'
    BY <1>n DEF LoadInv, LoadTyped
  <2>9. (FloorIsKept => FloorIsKept') /\ (Reading => Reading')
    BY <1>n DEF FloorIsKept, Reading
  <2>10. QED
    BY <1>n, <2>7, <2>8, <2>9 DEF LoadInv
<1>3. QED
  BY <1>1, <1>2 DEF Check

LEMMA SwapKeepsFloor ==
    ASSUME LoadInv, SidecarInv', SwapSnapshot
    PROVE  LoadInv'
<1>t. SidecarTyped
  BY DEF LoadInv, SidecarInv
<1>n. /\ compactor.pc = "swap" /\ snapshot' = compactor.merged /\ version' = version + 1
      /\ compactor' = [compactor EXCEPT !.pc = "tail"] /\ wal' = wal /\ loader' = loader
      /\ rebuild' = rebuild /\ generation' = generation
  BY DEF SwapSnapshot, Compacting, CompactorOnly, bounds
<1>1. /\ compactor'.pc = "tail" /\ compactor'.tail = compactor.tail
      /\ compactor.merged \in Digest /\ snapshot \in Digest /\ version \in Nat
  BY <1>t, <1>n, SidecarNumbers DEF SidecarTyped, Compaction
<1>2. Count(compactor.merged) \in Nat /\ Count(snapshot) \in Nat
  BY <1>1, DigestPairs
<1>3. LoadTyped' /\ Reading'
  BY <1>n, <1>1 DEF LoadInv, LoadTyped, Reading
<1>4. ASSUME generation = 0
      PROVE  FloorIsKept' /\ FoldedIsKept'
  <2>1. /\ Count(snapshot) <= Count(compactor.merged) /\ loader.floor \in Nat
        /\ Reaches(snapshot, wal, loader.floor)
        /\ \A i \in 1 .. Len(wal) :
             wal[i] \in Digest => \/ Count(wal[i]) <= Count(compactor.merged)
                                  \/ \E j \in 1 .. Len(compactor.tail) : compactor.tail[j] = wal[i]
    BY <1>4, <1>n DEF LoadInv, LoadTyped, FloorIsKept, FoldedIsKept, Kept
  <2>2. Reaches(compactor.merged, wal, loader.floor)
    BY <2>1, <1>2 DEF Reaches
  <2>3. QED
    BY <2>1, <2>2, <1>n, <1>1, <1>2 DEF FloorIsKept, FoldedIsKept, Kept
<1>5. QED
  BY <1>n, <1>3, <1>4 DEF LoadInv

LEMMA TailKeepsFloor ==
    ASSUME LoadInv, SidecarInv', SwapTail
    PROVE  LoadInv'
<1>n. /\ compactor.pc = "tail" /\ snapshot' = snapshot /\ version' = version
      /\ compactor' = NoCompaction /\ wal' = compactor.tail /\ loader' = loader
      /\ rebuild' = rebuild /\ generation' = generation
  BY DEF SwapTail, EndCompaction, Compacting, CompactorOnly, bounds
<1>1. LoadTyped' /\ FoldedIsKept' /\ (Reading => Reading')
  BY <1>n DEF LoadInv, LoadTyped, FoldedIsKept, Reading, NoCompaction
<1>2. ASSUME generation = 0
      PROVE  FloorIsKept'
  <2>1. /\ Reaches(snapshot, wal, loader.floor) /\ loader.floor \in Nat
        /\ \A i \in 1 .. Len(wal) :
             wal[i] \in Digest => \/ Count(wal[i]) <= Count(snapshot)
                                  \/ \E j \in 1 .. Len(compactor.tail) : compactor.tail[j] = wal[i]
    BY <1>2, <1>n DEF LoadInv, LoadTyped, FloorIsKept, FoldedIsKept, Kept
  <2>2. Count(snapshot) \in Nat /\ \A d \in Digest : Count(d) \in Nat
    BY SidecarNumbers, DigestPairs DEF LoadInv, SidecarInv
  <2>3. Reaches(snapshot, compactor.tail, loader.floor)
    <3>1. CASE loader.floor <= Count(snapshot)
      BY <3>1 DEF Reaches
    <3>2. CASE ~(loader.floor <= Count(snapshot))
      <4>1. PICK i \in 1 .. Len(wal) : wal[i] \in Digest /\ loader.floor <= Count(wal[i])
        BY <3>2, <2>1 DEF Reaches
      <4>2. ~(Count(wal[i]) <= Count(snapshot))
        BY <3>2, <4>1, <2>1, <2>2
      <4>3. PICK j \in 1 .. Len(compactor.tail) : compactor.tail[j] = wal[i]
        BY <4>1, <4>2, <2>1
      <4>4. QED
        BY <4>1, <4>3 DEF Reaches
    <3>3. QED
      BY <3>1, <3>2
  <2>4. QED
    BY <2>3, <1>n DEF FloorIsKept
<1>3. QED
  BY <1>n, <1>1, <1>2 DEF LoadInv

\* From the first rebuild on nothing is claimed.
LEMMA RebuildsAreCounted ==
    ASSUME LoadInv, SidecarInv', Rebuild
    PROVE  LoadInv'
<1>1. generation \in Nat /\ version \in Nat /\ loader.stamp \in Nat /\ loader.stamp <= version
  BY SidecarNumbers DEF LoadInv, SidecarInv, LoadTyped
<1>2. /\ generation' # 0 /\ loader' = loader
      /\ version' = version \/ version' = version + 1
  <2>1. CASE Schedule
    BY <2>1, <1>1 DEF Schedule, disk
  <2>2. CASE ~Schedule
    <3>1. rebuild.pc # "idle" /\ generation' = generation /\ loader' = loader
          /\ (version' = version \/ version' = version + 1)
      BY <2>2 DEF Rebuild, RemoveWal, ReplaceSnapshot, Adopt, AdoptWith, RebuildFails, disk, bounds
    <3>2. QED
      BY <3>1 DEF LoadInv, LoadTyped
  <2>3. QED
    BY <2>1, <2>2
<1>3. LoadTyped'
  BY <1>1, <1>2 DEF LoadInv, LoadTyped
<1>4. QED
  BY <1>2, <1>3 DEF LoadInv

LEMMA CrashEndsLoads ==
    ASSUME LoadInv, SidecarInv', Crash
    PROVE  LoadInv'
<1>1. /\ snapshot' = snapshot /\ version' = version /\ generation' = generation
      /\ loader' = NoReader /\ compactor' = NoCompaction /\ rebuild' = NoSidecarRebuild
  BY DEF Crash
<1>2. /\ loader'.pc = "idle" /\ loader'.stamp = 0 /\ loader'.floor = 0
      /\ compactor'.pc = "idle" /\ rebuild'.pc = "idle"
  BY <1>1 DEF NoReader, NoCompaction, NoSidecarRebuild
<1>3. version \in Nat /\ 0 <= version /\ Count(snapshot) \in Nat
  BY SidecarNumbers DEF LoadInv, SidecarInv
<1>4. LoadTyped' /\ FoldedIsKept' /\ Reading'
  BY <1>1, <1>2, <1>3 DEF LoadTyped, FoldedIsKept, Reading
<1>5. FloorIsKept'
  BY <1>1, <1>2, <1>3 DEF FloorIsKept, Reaches
<1>6. QED
  BY <1>4, <1>5 DEF LoadInv

LEMMA LoadSteps ==
    ASSUME LoadInv, SidecarInv', Load
    PROVE  LoadInv'
<1>t. SidecarTyped
  BY DEF LoadInv, SidecarInv
<1>n. /\ snapshot' = snapshot /\ version' = version /\ wal' = wal /\ compactor' = compactor
      /\ rebuild' = rebuild /\ generation' = generation
  BY DEF Load, StartLoad, LoadSnapshot, LoadLog, Settle, EndLoad, ReaderOnly, disk, bounds
<1>m. /\ version \in Nat /\ snapshot \in Digest /\ wal \in Seq(Record) /\ version <= version
      /\ 0 <= version /\ Count(snapshot) \in Nat
      /\ loader.stamp \in Nat /\ loader.stamp <= version /\ loader.floor \in Nat
  BY <1>t, SidecarNumbers DEF LoadInv, LoadTyped
<1>f. FoldedIsKept => FoldedIsKept'
  BY <1>n DEF FoldedIsKept, Kept
<1>1. CASE StartLoad
  <2>1. /\ loader'.pc = "snapshot" /\ loader'.stamp = version /\ loader'.floor = OnDisk
        /\ DOMAIN loader' = DOMAIN NoReader
    BY <1>1 DEF StartLoad, NoReader
  <2>2. OnDisk \in Nat /\ Reaches(snapshot, wal, OnDisk)
    <3>1. CASE OnDisk = 0
      BY <3>1, <1>m DEF Reaches
    <3>2. CASE OnDisk # 0
      <4>1. OnDisk = Count(ReplayLog(snapshot, wal)) /\ ReplayLog(snapshot, wal) # Bad
        BY <3>2 DEF OnDisk
      <4>2. ReplayLog(snapshot, wal) \in Digest
        BY <4>1, <1>m, ReplayTyped
      <4>3. 0 \in Nat /\ Count(ReplayLog(snapshot, wal)) \in Nat
        BY <4>2, DigestPairs
      <4>4. Reaches(snapshot, wal, Count(ReplayLog(snapshot, wal)))
        BY <4>1, <4>3, <1>m, ReplayReaches
      <4>5. QED
        BY <4>1, <4>3, <4>4
    <3>3. QED
      BY <3>1, <3>2
  <2>3. LoadTyped' /\ Reading' /\ FloorIsKept'
    BY <2>1, <2>2, <1>n, <1>m DEF LoadInv, LoadTyped, Reading, FloorIsKept
  <2>4. QED
    BY <2>3, <1>n, <1>f DEF LoadInv
<1>2. CASE LoadSnapshot \/ Settle
  <2>1. /\ loader'.floor = loader.floor /\ loader'.stamp \in {loader.stamp, version}
        /\ \/ loader'.pc = "log" /\ loader'.digest = snapshot
           \/ loader'.pc \in {"done", "snapshot"}
        /\ DOMAIN loader' = DOMAIN loader
    <3>1. CASE LoadSnapshot
      BY <3>1 DEF LoadSnapshot
    <3>2. CASE Settle /\ (Settled \/ loader.attempt = Attempts)
      <4>1. loader' = [loader EXCEPT !.pc = "done"]
        BY <3>2 DEF Settle
      <4>2. /\ loader'.floor = loader.floor /\ loader'.stamp = loader.stamp /\ loader'.pc = "done"
            /\ DOMAIN loader' = DOMAIN loader
        BY <4>1
      <4>3. QED
        BY <4>2
    <3>3. CASE Settle /\ ~(Settled \/ loader.attempt = Attempts)
      <4>1. loader' = [loader EXCEPT !.pc = "snapshot", !.stamp = version,
                                     !.attempt = loader.attempt + 1]
        BY <3>3 DEF Settle
      <4>2. /\ loader'.floor = loader.floor /\ loader'.stamp \in {loader.stamp, version}
            /\ loader'.pc = "snapshot" /\ DOMAIN loader' = DOMAIN loader
        BY <4>1
      <4>3. QED
        BY <4>2
    <3>4. QED
      BY <1>2, <3>1, <3>2, <3>3
  <2>2. LoadTyped' /\ Reading' /\ (FloorIsKept => FloorIsKept')
    BY <2>1, <1>n, <1>m DEF LoadInv, LoadTyped, Reading, FloorIsKept
  <2>3. QED
    BY <2>2, <1>n, <1>f DEF LoadInv
<1>3. CASE LoadLog
  <2>1. PICK log \in {wal, Append(wal, Stub), Append(wal, Torn)} :
          loader' = [loader EXCEPT
                       !.pc = IF ReplayLog(loader.digest, log) = Bad THEN "done" ELSE "settle",
                       !.digest = ReplayLog(loader.digest, log)]
    BY <1>3 DEF LoadLog
  <2>2. /\ loader'.floor = loader.floor /\ loader'.stamp = loader.stamp /\ loader.pc = "log"
        /\ loader'.digest = ReplayLog(loader.digest, log) /\ DOMAIN loader' = DOMAIN loader
        /\ loader'.pc = IF ReplayLog(loader.digest, log) = Bad THEN "done" ELSE "settle"
    BY <2>1, <1>3 DEF LoadLog, LoadInv, LoadTyped
  <2>3. LoadTyped' /\ (FloorIsKept => FloorIsKept')
    BY <2>2, <1>n, <1>m DEF LoadInv, LoadTyped, FloorIsKept
  <2>4. Stub \in Record /\ Torn \in Record
    BY DEF Record
  <2>5. log \in Seq(Record) /\ (FloorIsKept => Reaches(snapshot, log, loader.floor))
    <3>1. Append(wal, Stub) \in Seq(Record) /\ Append(wal, Torn) \in Seq(Record)
      BY <2>4, <1>m
    <3>2. Reaches(snapshot, wal, loader.floor)
            => /\ Reaches(snapshot, Append(wal, Stub), loader.floor)
               /\ Reaches(snapshot, Append(wal, Torn), loader.floor)
      BY <2>4, <1>m, ReachesAppend
    <3>3. QED
      BY <2>1, <3>1, <3>2, <1>m DEF FloorIsKept
  <2>6. ASSUME FloorIsKept, Reading, loader'.stamp = version', loader'.pc = "settle"
        PROVE  loader'.digest \in Digest /\ loader'.floor <= Count(loader'.digest)
    <3>1. loader.digest = snapshot /\ ReplayLog(snapshot, log) # Bad
      BY <2>2, <2>6, <1>n DEF Reading
    <3>2. loader'.digest = ReplayLog(snapshot, log)
      BY <2>2, <3>1
    <3>3. QED
      BY <3>1, <3>2, <2>2, <2>5, <2>6, <1>m, ReplayTyped, ReplayReaches
  <2>7. FloorIsKept /\ Reading => Reading'
    BY <2>2, <2>6 DEF Reading
  <2>8. QED
    BY <2>3, <2>7, <1>n, <1>f DEF LoadInv
<1>4. CASE EndLoad
  <2>1. /\ loader'.pc = "idle" /\ loader'.stamp = 0 /\ loader'.floor = 0
        /\ DOMAIN loader' = DOMAIN NoReader
    BY <1>4 DEF EndLoad, NoReader
  <2>2. LoadTyped' /\ Reading' /\ FloorIsKept'
    BY <2>1, <1>n, <1>m DEF LoadInv, LoadTyped, Reading, FloorIsKept, Reaches
  <2>3. QED
    BY <2>2, <1>n, <1>f DEF LoadInv
<1>5. QED
  BY <1>1, <1>2, <1>3, <1>4 DEF Load

LEMMA LoadInvSteps == LoadInv /\ [SidecarNext]_sidecarVars => LoadInv'
<1> SUFFICES ASSUME LoadInv, [SidecarNext]_sidecarVars PROVE LoadInv'
  OBVIOUS
<1>1. SidecarInv'
  BY SidecarSteps DEF LoadInv
<1>2. CASE IndexThought \/ Flush
  BY <1>1, <1>2, QuietActions, WritesKeepFloor DEF Flush
<1>3. CASE Compact
  BY <1>1, <1>3, QuietActions, CheckKeepsFloor, SwapKeepsFloor, TailKeepsFloor DEF Compact
<1>4. CASE Rebuild
  BY <1>1, <1>4, RebuildsAreCounted
<1>5. CASE Load
  BY <1>1, <1>5, LoadSteps
<1>6. CASE Crash
  BY <1>1, <1>6, CrashEndsLoads
<1>7. CASE UNCHANGED sidecarVars
  <2>1. /\ snapshot' = snapshot /\ version' = version /\ wal' = wal /\ loader' = loader
        /\ rebuild' = rebuild /\ generation' = generation /\ compactor' = compactor
    BY <1>7 DEF sidecarVars, disk, bounds
  <2>2. QED
    BY <1>1, <2>1, QuietSteps
<1>8. QED
  BY <1>2, <1>3, <1>4, <1>5, <1>6, <1>7 DEF SidecarNext

\* Before the first rebuild a load that settles before its last attempt returns
\* every record that was on disk when it began, whatever is appended, folded,
\* torn or crashes meanwhile.
THEOREM SettledLoadsAreComplete == SidecarSpec => LoadIsComplete
<1>1. ASSUME LoadInv, [SidecarNext]_sidecarVars,
             generation = 0, loader.attempt < Attempts, loader.pc = "settle", loader'.pc = "done"
      PROVE  Count(loader.digest) >= loader.floor
  <2>1. Load
    <3>1. ASSUME loader' = loader
          PROVE  FALSE
      BY <1>1, <3>1
    <3>2. ~Crash
      BY <1>1 DEF Crash, NoReader
    <3>3. ~IndexThought /\ ~Flush
      BY <3>1 DEF IndexThought, Flush, StartFlush, WriteRecord, WriteFails, EndFlush
    <3>4. ~Compact
      BY <3>1 DEF Compact, ReadStamp, ReadSnapshot, CopyWal, Fold, Check, SwapSnapshot, SwapTail,
         EndCompaction, CompactorOnly
    <3>5. ~Rebuild
      BY <3>1 DEF Rebuild, Schedule, RemoveWal, ReplaceSnapshot, Adopt, AdoptWith, RebuildFails
    <3>6. ~UNCHANGED sidecarVars
      BY <3>1 DEF sidecarVars
    <3>7. QED
      BY <1>1, <3>2, <3>3, <3>4, <3>5, <3>6 DEF SidecarNext
  <2>2. Settle
    BY <1>1, <2>1 DEF Load, StartLoad, LoadSnapshot, LoadLog, EndLoad
  <2>3. loader.stamp = version
    <3>1. CASE Settled
      BY <3>1 DEF Settled
    <3>2. CASE ~Settled
      <4>1. loader.attempt # Attempts
        BY <1>1 DEF Attempts
      <4>2. loader' = [loader EXCEPT !.pc = "snapshot", !.stamp = version,
                                     !.attempt = loader.attempt + 1]
        BY <2>2, <3>2, <4>1 DEF Settle
      <4>3. loader'.pc = "snapshot" \/ loader'.pc = loader.pc
        BY <4>2
      <4>4. QED
        BY <1>1, <4>3
    <3>3. QED
      BY <3>1, <3>2
  <2>4. loader.digest \in Digest /\ loader.floor <= Count(loader.digest) /\ loader.floor \in Nat
    BY <1>1, <2>3 DEF LoadInv, LoadTyped, Reading
  <2>5. QED
    BY <2>4, DigestPairs
<1>2. LoadInv /\ [SidecarNext]_sidecarVars =>
        [generation = 0 /\ loader.attempt < Attempts
         /\ loader.pc = "settle" /\ loader'.pc = "done"
           => Count(loader.digest) >= loader.floor]_sidecarVars
  BY <1>1
<1>3. QED
  BY <1>2, LoadStarts, LoadInvSteps, PTL DEF SidecarSpec, LoadIsComplete

-----------------------------------------------------------------------------
(* The embedding pipeline.  Every operation of an entry is a function of it, so  *)
(* each has a lemma: what accounts for all known thoughts still does after it,   *)
(* or everything is being made again.                                           *)

\* What the write lock protects, on a chain of n thoughts of which the entry has
\* been told of some.
RepairStates == {"none", "queued", "embedded", "failed"}
RebuildStates == {"none", "running", "built", "failed", "panicked"}
Entries(n, known) ==
    [covered : 0 .. n, inflight : SUBSET known, parked : SUBSET known,
     missing : SUBSET known, attempts : [Thoughts -> Nat], ledger : SUBSET known,
     issued : SUBSET known, repair : [pc : RepairStates, rows : SUBSET known],
     rebuild : [pc : RebuildStates, rows : 0 .. n], guard : {"free", "held"},
     lost : {"no", "yes"}]

\* No thought was tried as often as it may be.
Tried(d, known) ==
    \A i \in Thoughts : /\ d.attempts[i] < MaxEmbedAttempts
                        /\ i \notin known => d.attempts[i] = 0
IdleRepair(d) == d.repair.pc = "none" => d.repair.rows = {}

\* Every thought that is known, but for those of a set, is accounted for.
OnItsWay(d, i) ==
    \/ i \in d.parked \cup d.missing
    \/ i \in d.inflight /\ i \in d.issued \cup d.ledger \cup d.repair.rows
Noted(d, known, but) ==
    \/ Pending(d) \/ d.lost = "yes"
    \/ \A i \in known : i <= d.covered \/ i \in but \/ OnItsWay(d, i)

Sound(d, n, known) ==
    d \in Entries(n, known) /\ Tried(d, known) /\ IdleRepair(d) /\ Noted(d, known, {})

LEMMA ResetSound ==
    ASSUME NEW n \in Nat, NEW known \in SUBSET (1 .. n), NEW d \in Entries(n, known), IdleRepair(d)
    PROVE  /\ Reset(d) \in Entries(n, known) /\ Tried(Reset(d), known) /\ IdleRepair(Reset(d))
           /\ Pending(Reset(d)) <=> Pending(d)
           /\ Reset(d).guard = d.guard /\ Reset(d).lost = d.lost
           /\ Reset(d).rebuild = d.rebuild /\ Reset(d).covered = d.covered
<1> DEFINE e == Reset(d)
<1>1. /\ e.covered = d.covered /\ e.inflight = {} /\ e.parked = {} /\ e.missing = {}
      /\ e.attempts = NoAttempts /\ e.ledger = d.ledger /\ e.issued = d.issued
      /\ e.repair = d.repair /\ e.rebuild = d.rebuild /\ e.guard = d.guard /\ e.lost = d.lost
  BY DEF Reset, Entries
<1>2. e \in Entries(n, known)
  BY DEF Reset, Entries, NoAttempts
<1>3. Tried(e, known)
  BY <1>1, ConstantAssumption DEF Tried, NoAttempts
<1> HIDE DEF e
<1>4. IdleRepair(e) /\ (Pending(e) <=> Pending(d))
  BY <1>1 DEF IdleRepair, Pending
<1>5. QED
  BY <1>1, <1>2, <1>3, <1>4 DEF e

\* What a step leaves alone of an entry.
SameOutside(d, e) ==
    /\ e.covered = d.covered /\ e.issued = d.issued /\ e.repair = d.repair
    /\ e.rebuild = d.rebuild /\ e.guard = d.guard /\ e.lost = d.lost

\* A failure is noted, unless the thought has been tried too often.
LEMMA FailNotes ==
    ASSUME NEW n \in Nat, NEW known \in SUBSET (1 .. n), NEW d \in Entries(n, known),
           NEW failed \in SUBSET known, 1 .. n \subseteq Thoughts
    PROVE  LET e == Fail(d, failed)
           IN  /\ e \in Entries(n, known) /\ SameOutside(d, e)
               /\ e.parked = d.parked /\ e.ledger = d.ledger /\ e.inflight = d.inflight \ failed
               /\ d.missing \subseteq e.missing
               /\ \A i \in failed : e.attempts[i] < MaxEmbedAttempts => i \in e.missing
               /\ \A i \in Thoughts \ failed : e.attempts[i] = d.attempts[i]
               /\ \A i \in failed : e.attempts[i] = d.attempts[i] + 1
<1> DEFINE e == Fail(d, failed)
           tried == [i \in Thoughts |-> d.attempts[i] + IF i \in failed THEN 1 ELSE 0]
<1>1. tried \in [Thoughts -> Nat]
  BY DEF Entries
<1>2. /\ \A i \in Thoughts \ failed : tried[i] = d.attempts[i]
      /\ \A i \in failed : tried[i] = d.attempts[i] + 1
  BY DEF Entries
<1> DEFINE noted == d.missing \cup {i \in failed : tried[i] < MaxEmbedAttempts}
<1>3. e = [d EXCEPT !.inflight = d.inflight \ failed, !.attempts = tried, !.missing = noted]
  BY DEF Fail
<1>4. noted \in SUBSET known /\ d.missing \subseteq noted
      /\ \A i \in failed : tried[i] < MaxEmbedAttempts => i \in noted
  BY DEF Entries
<1> HIDE DEF tried, noted, e
<1>5. /\ e.covered = d.covered /\ e.inflight = d.inflight \ failed /\ e.parked = d.parked
      /\ e.missing = noted /\ e.attempts = tried /\ e.ledger = d.ledger /\ e.issued = d.issued
      /\ e.repair = d.repair /\ e.rebuild = d.rebuild /\ e.guard = d.guard /\ e.lost = d.lost
  BY <1>3 DEF Entries
<1>6. e \in Entries(n, known)
  BY <1>1, <1>3, <1>4 DEF Entries
<1>7. QED
  BY <1>2, <1>4, <1>5, <1>6 DEF SameOutside, e

\* So are the outcomes that were abandoned, except of what has been parked.
LEMMA ReclaimNotes ==
    ASSUME NEW n \in Nat, NEW known \in SUBSET (1 .. n), NEW d \in Entries(n, known),
           1 .. n \subseteq Thoughts
    PROVE  LET e == Reclaim(d)
               gone == Abandoned(d)
           IN  /\ e \in Entries(n, known) /\ SameOutside(d, e)
               /\ gone \in SUBSET known /\ gone = d.ledger \ d.parked
               /\ e.parked = d.parked /\ e.ledger = {} /\ e.inflight = d.inflight \ gone
               /\ d.missing \subseteq e.missing
               /\ \A i \in gone : e.attempts[i] < MaxEmbedAttempts => i \in e.missing
               /\ \A i \in Thoughts \ gone : e.attempts[i] = d.attempts[i]
               /\ \A i \in gone : e.attempts[i] = d.attempts[i] + 1
<1> DEFINE gone == Abandoned(d)
           counted == Fail(d, gone)
           e == [counted EXCEPT !.ledger = {}]
<1>1. gone \in SUBSET known /\ gone = d.ledger \ d.parked
  BY DEF Abandoned, Entries
<1>2. Reclaim(d) = e
  BY DEF Reclaim
<1> HIDE DEF gone
<1>3. /\ counted \in Entries(n, known) /\ SameOutside(d, counted)
      /\ counted.parked = d.parked /\ counted.inflight = d.inflight \ gone
      /\ d.missing \subseteq counted.missing
      /\ \A i \in gone : counted.attempts[i] < MaxEmbedAttempts => i \in counted.missing
      /\ \A i \in Thoughts \ gone : counted.attempts[i] = d.attempts[i]
      /\ \A i \in gone : counted.attempts[i] = d.attempts[i] + 1
  BY <1>1, FailNotes
<1> HIDE DEF counted
<1>4. /\ e \in Entries(n, known) /\ SameOutside(counted, e) /\ e.parked = counted.parked
      /\ e.inflight = counted.inflight /\ e.missing = counted.missing
      /\ e.attempts = counted.attempts /\ e.ledger = {}
  BY <1>3 DEF Entries, SameOutside
<1> HIDE DEF e
<1>5. SameOutside(d, e)
  BY <1>3, <1>4 DEF SameOutside
<1>6. QED
  BY <1>1, <1>2, <1>3, <1>4, <1>5 DEF gone

LEMMA ScheduleSound ==
    ASSUME NEW n \in Nat, NEW known \in SUBSET (1 .. n), NEW d \in Entries(n, known),
           IdleRepair(d), Tried(d, known)
    PROVE  Sound(ScheduleRebuild(d, n), n, known)
<1> DEFINE e == ScheduleRebuild(d, n)
<1>1. CASE Pending(d)
  BY <1>1 DEF ScheduleRebuild, Sound, Noted
<1>2. CASE ~Pending(d) /\ d.guard = "held"
  <2>1. e = [d EXCEPT !.lost = "yes"]
    BY <1>2 DEF ScheduleRebuild
  <2>2. e \in Entries(n, known) /\ e.lost = "yes" /\ e.repair = d.repair /\ e.attempts = d.attempts
    BY <2>1 DEF Entries
  <2>3. QED
    BY <2>2 DEF Sound, Noted, IdleRepair, Tried
<1>3. CASE ~Pending(d) /\ d.guard # "held"
  <2>1. e = [d EXCEPT !.rebuild = [pc |-> "running", rows |-> n], !.guard = "held"]
    BY <1>3 DEF ScheduleRebuild
  <2> DEFINE job == [pc |-> "running", rows |-> n]
  <2>2. job \in [pc : RebuildStates, rows : 0 .. n] /\ job.pc # "none"
    BY DEF RebuildStates
  <2>3. e = [d EXCEPT !.rebuild = job, !.guard = "held"]
    BY <2>1
  <2> HIDE DEF job, e
  <2>4. e \in Entries(n, known) /\ e.rebuild = job /\ e.repair = d.repair /\ e.attempts = d.attempts
    BY <2>2, <2>3 DEF Entries
  <2>5. QED
    BY <2>2, <2>4 DEF Sound, Noted, IdleRepair, Tried, Pending, e
<1>4. QED
  BY <1>1, <1>2, <1>3

LEMMA FullRepairSound ==
    ASSUME NEW n \in Nat, NEW known \in SUBSET (1 .. n), NEW d \in Entries(n, known), IdleRepair(d)
    PROVE  Sound(FullRepair(d, n), n, known)
BY ResetSound, ScheduleSound DEF FullRepair

\* Forgetting everything is sound while a rebuild is pending.
LEMMA ForgetSound ==
    ASSUME NEW n \in Nat, NEW known \in SUBSET (1 .. n), NEW d \in Entries(n, known),
           IdleRepair(d), Pending(d)
    PROVE  Sound(Reset(d), n, known)
BY ResetSound DEF Sound, Noted

\* The gap repair takes what is missing over, and the sidecar may have it already.
LEMMA RepairSound ==
    ASSUME NEW n \in Nat, NEW known \in SUBSET (1 .. n), NEW d, Sound(d, n, known)
    PROVE  Sound(Repair(d), n, known)
<1> DEFINE e == Repair(d)
           todo == d.missing \ 1 .. d.covered
           able == {i \in todo : \A j \in d.inflight : i < j}
           picked == First(able, RepairBatch)
<1>d. d \in Entries(n, known) /\ IdleRepair(d) /\ Tried(d, known) /\ Noted(d, known, {})
  BY DEF Sound
<1>1. CASE d.missing = {} \/ d.repair.pc # "none"
  BY <1>1 DEF Repair
<1>2. CASE ~(d.missing = {} \/ d.repair.pc # "none") /\ Pending(d)
  BY <1>2, <1>d, ForgetSound DEF Repair
<1>3. picked \subseteq todo /\ todo \in SUBSET known
      /\ todo = d.missing \ 1 .. d.covered
  BY <1>d DEF First, Entries
<1>4. CASE ~(d.missing = {} \/ d.repair.pc # "none") /\ ~Pending(d)
  <2>p. d.repair.pc = "none" /\ d.repair.rows = {}
    BY <1>4, <1>d DEF IdleRepair
  <2>1. \/ e = [d EXCEPT !.missing = todo]
        \/ e = [d EXCEPT !.missing = todo \ picked, !.inflight = d.inflight \cup picked,
                         !.repair = [pc |-> "queued", rows |-> picked]]
    BY <1>4 DEF Repair
  <2> HIDE DEF e, todo, able, picked
  <2>2. CASE e = [d EXCEPT !.missing = todo]
    <3>1. /\ e \in Entries(n, known) /\ SameOutside(d, e) /\ e.parked = d.parked /\ e.ledger = d.ledger
          /\ e.inflight = d.inflight /\ e.missing = todo /\ e.attempts = d.attempts
      BY <2>2, <1>3, <1>d DEF Entries, SameOutside
    <3>2. Noted(e, known, {})
      BY <3>1, <1>3, <1>d, <1>4 DEF Noted, OnItsWay, SameOutside, Pending, Entries
    <3>3. QED
      BY <3>1, <3>2, <1>d DEF Sound, IdleRepair, Tried, SameOutside, e
  <2>3. CASE e = [d EXCEPT !.missing = todo \ picked, !.inflight = d.inflight \cup picked,
                           !.repair = [pc |-> "queued", rows |-> picked]]
    <3>1. /\ e \in Entries(n, known) /\ e.covered = d.covered /\ e.parked = d.parked
          /\ e.ledger = d.ledger /\ e.issued = d.issued /\ e.rebuild = d.rebuild /\ e.lost = d.lost
          /\ e.inflight = d.inflight \cup picked /\ e.missing = todo \ picked
          /\ e.attempts = d.attempts /\ e.repair.pc = "queued" /\ e.repair.rows = picked
      BY <2>3, <1>3, <1>d DEF Entries, RepairStates
    <3>2. Noted(e, known, {})
      BY <3>1, <2>p, <1>3, <1>d, <1>4 DEF Noted, OnItsWay, Pending, Entries
    <3>3. QED
      BY <3>1, <3>2, <1>d DEF Sound, IdleRepair, Tried, e
  <2>4. QED
    BY <2>1, <2>2, <2>3
<1>5. QED
  BY <1>1, <1>2, <1>4

\* What is drained has been parked, and follows the sidecar.
LEMMA DrainMoves ==
    ASSUME NEW n \in Nat, NEW known \in SUBSET (1 .. n), NEW d \in Entries(n, known)
    PROVE  /\ Drained(d) \in Entries(n, known) /\ d.covered <= Drained(d).covered
           /\ Drained(d).parked = d.parked \ 1 .. Drained(d).covered
           /\ Drained(d).missing = d.missing /\ Drained(d).inflight = d.inflight
           /\ Drained(d).ledger = d.ledger /\ Drained(d).issued = d.issued
           /\ Drained(d).attempts = d.attempts /\ Drained(d).repair = d.repair
           /\ Drained(d).rebuild = d.rebuild /\ Drained(d).lost = d.lost
<1> DEFINE e == Drained(d)
           count == Cardinality(Applied(d))
<1>1. Applied(d) \subseteq d.covered + 1 .. n
  <2>1. ASSUME NEW i \in Applied(d) PROVE i \in d.covered + 1 .. n
    <3>1. i \in d.covered + 1 .. d.covered + MaxDrain /\ d.covered + 1 .. i \subseteq d.parked
      BY DEF Applied
    <3>2. d.covered \in Nat /\ d.parked \subseteq 1 .. n
      <4>1. d.covered \in Nat /\ d.parked \subseteq known
        BY DEF Entries
      <4>2. QED
        BY <4>1
    <3>3. i \in d.covered + 1 .. i
      BY <3>1, <3>2, ConstantAssumption
    <3>4. QED
      BY <3>1, <3>2, <3>3
  <2>2. QED
    BY <2>1
<1>2. d.covered \in Nat /\ d.covered <= n
  BY DEF Entries
<1>3. count \in Nat /\ count <= n - d.covered
  <2>1. IsFiniteSet(d.covered + 1 .. n) /\ Cardinality(d.covered + 1 .. n) = n - d.covered
    <3>1. d.covered + 1 \in Int /\ n \in Int
      BY <1>2
    <3>2. /\ IsFiniteSet(d.covered + 1 .. n)
          /\ Cardinality(d.covered + 1 .. n) =
               IF d.covered + 1 > n THEN 0 ELSE n - (d.covered + 1) + 1
      BY <3>1, FS_Interval
    <3>3. QED
      BY <3>2, <1>2
  <2>2. IsFiniteSet(Applied(d)) /\ Cardinality(Applied(d)) <= Cardinality(d.covered + 1 .. n)
    BY <1>1, <2>1, FS_Subset
  <2>3. Cardinality(Applied(d)) \in Nat
    BY <2>2, FS_CardinalityType
  <2>4. QED
    BY <2>1, <2>2, <2>3
<1>4. e = [d EXCEPT !.covered = d.covered + count, !.parked = d.parked \ 1 .. (d.covered + count)]
  BY DEF Drained
<1> HIDE DEF e, count
<1>5. /\ e.covered = d.covered + count /\ e.parked = d.parked \ 1 .. (d.covered + count)
      /\ e.missing = d.missing /\ e.inflight = d.inflight /\ e.ledger = d.ledger
      /\ e.issued = d.issued /\ e.attempts = d.attempts /\ e.repair = d.repair
      /\ e.rebuild = d.rebuild /\ e.lost = d.lost
  BY <1>4 DEF Entries
<1>6. e \in Entries(n, known)
  <2>1. d.covered + count \in 0 .. n /\ d.parked \ 1 .. (d.covered + count) \in SUBSET known
    BY <1>2, <1>3 DEF Entries
  <2>2. \A c \in 0 .. n, p \in SUBSET known : [d EXCEPT !.covered = c, !.parked = p] \in Entries(n, known)
    BY DEF Entries
  <2>3. QED
    BY <1>4, <2>1, <2>2
<1>7. QED
  BY <1>2, <1>3, <1>5, <1>6 DEF e

LEMMA DrainSound ==
    ASSUME NEW n \in Nat, NEW known \in SUBSET (1 .. n), NEW d, Sound(d, n, known)
    PROVE  Sound(Drain(d, n), n, known)
<1>d. d \in Entries(n, known) /\ IdleRepair(d) /\ Tried(d, known) /\ Noted(d, known, {})
  BY DEF Sound
<1> DEFINE e == Drained(d)
<1>1. /\ e \in Entries(n, known) /\ d.covered <= e.covered /\ e.parked = d.parked \ 1 .. e.covered
      /\ e.missing = d.missing /\ e.inflight = d.inflight /\ e.ledger = d.ledger
      /\ e.issued = d.issued /\ e.attempts = d.attempts /\ e.repair = d.repair
      /\ e.rebuild = d.rebuild /\ e.lost = d.lost
  BY <1>d, DrainMoves
<1> HIDE DEF e
<1>2. d.covered \in Nat /\ e.covered \in Nat
  BY <1>1, <1>d DEF Entries
<1>3. Sound(e, n, known)
  <2>1. Noted(e, known, {})
    <3>1. CASE Pending(d) \/ d.lost = "yes"
      BY <1>1, <3>1 DEF Noted, Pending
    <3>2. CASE \A i \in known : i <= d.covered \/ OnItsWay(d, i)
      <4>1. SUFFICES ASSUME NEW i \in known PROVE i <= e.covered \/ OnItsWay(e, i)
        BY DEF Noted
      <4>2. i \in Nat
        OBVIOUS
      <4>3. CASE i <= d.covered
        BY <1>1, <1>2, <4>2, <4>3
      <4>4. CASE OnItsWay(d, i)
        BY <1>1, <1>2, <4>2, <4>4 DEF OnItsWay
      <4>5. QED
        BY <3>2, <4>3, <4>4
    <3>3. QED
      BY <1>d, <3>1, <3>2 DEF Noted
  <2>2. QED
    BY <2>1, <1>1, <1>d DEF Sound, IdleRepair, Tried
<1>4. Sound(FullRepair(e, n), n, known)
  BY <1>1, <1>3, FullRepairSound DEF Sound
<1>5. Pending(d) => Sound(Reset(d), n, known)
  BY <1>d, ForgetSound
<1>6. \/ Pending(d) /\ Drain(d, n) = Reset(d)
      \/ Drain(d, n) = FullRepair(e, n)
      \/ Drain(d, n) = e
  BY DEF Drain, e
<1>7. QED
  BY <1>3, <1>4, <1>5, <1>6

\* What is done with outcomes: what succeeded is parked; what failed, or was
\* abandoned, is missing, or has been tried too often and all is made again.
LEMMA CommitSound ==
    ASSUME NEW n \in Nat, NEW known \in SUBSET (1 .. n), 1 .. n \subseteq Thoughts,
           NEW d \in Entries(n, known), IdleRepair(d), Tried(d, known),
           NEW good \in SUBSET known, NEW bad \in SUBSET known,
           Noted(d, known, good \cup bad)
    PROVE  Sound(Commit(d, good, bad, n), n, known)
<1> DEFINE attempts == [i \in Thoughts |-> IF i \in good THEN 0 ELSE d.attempts[i]]
           arrived == [d EXCEPT !.inflight = d.inflight \ good, !.parked = d.parked \cup good,
                                !.attempts = attempts]
           failing == Fail(arrived, bad)
           gone == d.ledger \ (d.parked \cup good)
           noted == Reclaim(failing)
<1>1. /\ attempts \in [Thoughts -> Nat] /\ \A i \in Thoughts : attempts[i] < MaxEmbedAttempts
      /\ \A i \in Thoughts : i \notin known => attempts[i] = 0
  BY ConstantAssumption DEF Entries, Tried
<1>2. /\ arrived \in Entries(n, known) /\ SameOutside(d, arrived) /\ arrived.parked = d.parked \cup good
      /\ arrived.inflight = d.inflight \ good /\ arrived.ledger = d.ledger
      /\ arrived.missing = d.missing /\ arrived.attempts = attempts
  <2> HIDE DEF attempts
  <2>1. QED
    BY <1>1 DEF Entries, SameOutside
<1> HIDE DEF attempts, arrived
<1>3. /\ failing \in Entries(n, known) /\ SameOutside(arrived, failing)
      /\ failing.parked = arrived.parked /\ failing.ledger = arrived.ledger
      /\ failing.inflight = arrived.inflight \ bad
      /\ arrived.missing \subseteq failing.missing
      /\ \A i \in bad : failing.attempts[i] < MaxEmbedAttempts => i \in failing.missing
      /\ \A i \in Thoughts \ bad : failing.attempts[i] = arrived.attempts[i]
  <2>1. arrived \in Entries(n, known)
    BY <1>2
  <2> HIDE DEF failing, gone, noted
  <2>2. LET e == Fail(arrived, bad)
        IN  /\ e \in Entries(n, known) /\ SameOutside(arrived, e)
            /\ e.parked = arrived.parked /\ e.ledger = arrived.ledger
            /\ e.inflight = arrived.inflight \ bad
            /\ arrived.missing \subseteq e.missing
            /\ \A i \in bad : e.attempts[i] < MaxEmbedAttempts => i \in e.missing
            /\ \A i \in Thoughts \ bad : e.attempts[i] = arrived.attempts[i]
            /\ \A i \in bad : e.attempts[i] = arrived.attempts[i] + 1
    BY <2>1, FailNotes
  <2>3. QED
    BY <2>2 DEF failing
<1>4. Abandoned(failing) = gone /\ Abandoned(arrived) = gone /\ gone \in SUBSET known
  BY <1>2, <1>3 DEF Abandoned, Entries
<1> HIDE DEF failing, gone
<1>5. /\ noted \in Entries(n, known) /\ SameOutside(failing, noted)
      /\ noted.parked = failing.parked /\ noted.ledger = {}
      /\ noted.inflight = failing.inflight \ gone
      /\ failing.missing \subseteq noted.missing
      /\ \A i \in gone : noted.attempts[i] < MaxEmbedAttempts => i \in noted.missing
      /\ \A i \in Thoughts \ gone : noted.attempts[i] = failing.attempts[i]
      /\ \A i \in gone : noted.attempts[i] = failing.attempts[i] + 1
  BY <1>3, <1>4, ReclaimNotes
<1> HIDE DEF noted
<1>6. SameOutside(d, noted) /\ IdleRepair(noted)
  BY <1>2, <1>3, <1>5 DEF SameOutside, IdleRepair
<1> DEFINE worn == Exhausted(noted, bad \cup gone)
<1>7. ASSUME ~worn
      PROVE  Sound(noted, n, known)
  <2>1. \A i \in bad \cup gone : noted.attempts[i] < MaxEmbedAttempts
    <3>1. noted.attempts \in [Thoughts -> Nat] /\ bad \cup gone \subseteq Thoughts
      BY <1>4, <1>5 DEF Entries
    <3>2. QED
      BY <1>7, <3>1, ConstantAssumption DEF Exhausted
  <2>2. bad \cup gone \subseteq noted.missing
    <3>1. failing.attempts \in [Thoughts -> Nat]
      BY <1>3 DEF Entries
    <3>2. ASSUME NEW i \in bad
          PROVE  failing.attempts[i] < MaxEmbedAttempts
      <4>1. failing.attempts[i] \in Nat /\ noted.attempts[i] < MaxEmbedAttempts /\ i \in Thoughts
        BY <2>1, <3>1
      <4>2. noted.attempts[i] \in {failing.attempts[i], failing.attempts[i] + 1}
        BY <4>1, <1>5
      <4>3. QED
        BY <4>1, <4>2, ConstantAssumption
    <3>3. QED
      BY <2>1, <3>2, <1>3, <1>5
  <2>3. Tried(noted, known)
    <3>1. \A i \in Thoughts \ (bad \cup gone) : noted.attempts[i] = attempts[i]
      BY <1>2, <1>3, <1>5
    <3>2. bad \cup gone \subseteq known
      BY <1>4
    <3>3. QED
      BY <1>1, <2>1, <3>1, <3>2 DEF Tried
  <2>4. /\ noted.parked = d.parked \cup good /\ d.missing \subseteq noted.missing
        /\ noted.inflight = ((d.inflight \ good) \ bad) \ gone
        /\ noted.covered = d.covered /\ noted.issued = d.issued /\ noted.repair = d.repair
        /\ noted.rebuild = d.rebuild /\ noted.lost = d.lost
    BY <1>2, <1>3, <1>5, <1>6 DEF SameOutside
  <2>5. Noted(noted, known, {})
    <3>1. ASSUME NEW i \in known, OnItsWay(d, i)
          PROVE  OnItsWay(noted, i)
      BY <2>2, <2>4, <3>1 DEF OnItsWay, gone
    <3>2. ASSUME NEW i \in good \cup bad
          PROVE  OnItsWay(noted, i)
      BY <2>2, <2>4 DEF OnItsWay
    <3>3. QED
      BY <2>4, <3>1, <3>2 DEF Noted, Pending
  <2>6. QED
    BY <1>5, <1>6, <2>3, <2>5 DEF Sound
<1>8. Commit(d, good, bad, n) =
         Repair(IF worn THEN FullRepair(noted, n) ELSE IF good # {} THEN Drain(noted, n) ELSE noted)
  BY <1>4 DEF Commit, attempts, arrived, failing, noted
<1> HIDE DEF worn
<1>9. CASE worn
  <2>1. Sound(FullRepair(noted, n), n, known)
    BY <1>5, <1>6, FullRepairSound
  <2>2. QED
    BY <1>8, <1>9, <2>1, RepairSound
<1>10. CASE ~worn
  <2>1. Sound(noted, n, known) /\ Sound(Drain(noted, n), n, known)
    BY <1>7, <1>10, DrainSound
  <2>2. QED
    BY <1>8, <1>10, <2>1, RepairSound
<1>11. QED
  BY <1>9, <1>10

-----------------------------------------------------------------------------

\* An adopted rebuild has the whole chain; until then it stays pending.
LEMMA PollRebuildSound ==
    ASSUME NEW n \in Nat, NEW known \in SUBSET (1 .. n), NEW d, Sound(d, n, known),
           NEW ok \in BOOLEAN
    PROVE  Sound(PollRebuild(d, n, ok), n, known)
<1> DEFINE e == PollRebuild(d, n, ok)
           rows == d.rebuild.rows + Cardinality(CatchingUp(d, n))
<1>d. d \in Entries(n, known) /\ IdleRepair(d) /\ Tried(d, known) /\ Noted(d, known, {})
  BY DEF Sound
<1>1. rows \in 0 .. n
  <2> DEFINE new == d.rebuild.rows + 1 .. n
  <2>0. d.rebuild.rows \in 0 .. n
    BY <1>d DEF Entries
  <2>1. CatchingUp(d, n) \subseteq new
    BY <2>0 DEF CatchingUp
  <2>2. /\ IsFiniteSet(new)
        /\ Cardinality(new) = IF d.rebuild.rows + 1 > n THEN 0 ELSE n - (d.rebuild.rows + 1) + 1
    <3>1. d.rebuild.rows + 1 \in Int /\ n \in Int
      BY <2>0
    <3>2. QED
      BY <3>1, FS_Interval
  <2>3. Cardinality(new) = n - d.rebuild.rows
    BY <2>0, <2>2
  <2> HIDE DEF new
  <2>4. /\ IsFiniteSet(CatchingUp(d, n)) /\ Cardinality(CatchingUp(d, n)) \in Nat
        /\ Cardinality(CatchingUp(d, n)) <= Cardinality(new)
    BY <2>1, <2>2, FS_Subset, FS_CardinalityType
  <2>5. QED
    BY <2>0, <2>3, <2>4
<1> HIDE DEF rows
<1>2. CASE d.rebuild.pc \in {"none", "running", "panicked"}
  <2>1. e = d
    BY <1>2 DEF PollRebuild
  <2>2. QED
    BY <2>1
<1>3. CASE d.rebuild.pc = "failed" \/ (d.rebuild.pc = "built" /\ ~ok)
  <2>1. e = [d EXCEPT !.rebuild = NoRebuild, !.lost = "yes"]
    BY <1>3 DEF PollRebuild
  <2>2. NoRebuild \in [pc : RebuildStates, rows : 0 .. n]
    BY DEF NoRebuild, RebuildStates
  <2> HIDE DEF e
  <2>3. e \in Entries(n, known) /\ e.lost = "yes" /\ e.repair = d.repair /\ e.attempts = d.attempts
    BY <2>1, <2>2, <1>d DEF Entries
  <2>4. QED
    BY <2>3, <1>d DEF Sound, Noted, IdleRepair, Tried, e
<1>4. CASE d.rebuild.pc = "built" /\ ok /\ rows < n
  <2>1. e = [d EXCEPT !.rebuild.rows = rows]
    BY <1>4 DEF PollRebuild, rows
  <2> DEFINE job == [d.rebuild EXCEPT !.rows = rows]
  <2>2. job \in [pc : RebuildStates, rows : 0 .. n] /\ job.pc = "built"
    BY <1>1, <1>4, <1>d DEF Entries
  <2>3. e = [d EXCEPT !.rebuild = job]
    BY <2>1
  <2> HIDE DEF e, job
  <2>4. e \in Entries(n, known) /\ e.rebuild = job /\ e.repair = d.repair /\ e.attempts = d.attempts
    BY <2>2, <2>3, <1>d DEF Entries
  <2>5. QED
    BY <2>2, <2>4, <1>d DEF Sound, Noted, IdleRepair, Tried, Pending, e
<1>5. CASE d.rebuild.pc = "built" /\ ok /\ rows = n
  <2>1. e = [Entry(n) EXCEPT !.repair = d.repair, !.guard = d.guard]
    BY <1>5 DEF PollRebuild, rows
  <2>2. Entry(n) \in Entries(n, known) /\ Entry(n).covered = n /\ Entry(n).attempts = NoAttempts
    <3>1. NoRepair \in [pc : RepairStates, rows : SUBSET known]
      BY DEF NoRepair, RepairStates
    <3>2. NoRebuild \in [pc : RebuildStates, rows : 0 .. n]
      BY DEF NoRebuild, RebuildStates
    <3>3. NoAttempts \in [Thoughts -> Nat]
      BY DEF NoAttempts
    <3>4. QED
      BY <3>1, <3>2, <3>3 DEF Entry, Entries
  <2> HIDE DEF e
  <2>3. e \in Entries(n, known) /\ e.covered = n /\ e.repair = d.repair /\ e.attempts = NoAttempts
    BY <2>1, <2>2, <1>d DEF Entries
  <2>4. Tried(e, known)
    BY <2>3, ConstantAssumption DEF Tried, NoAttempts
  <2>5. QED
    BY <2>3, <2>4, <1>d DEF Sound, Noted, IdleRepair, e
<1>6. d.rebuild.pc \in RebuildStates
  BY <1>d DEF Entries
<1>7. QED
  BY <1>1, <1>2, <1>3, <1>4, <1>5, <1>6 DEF RebuildStates

LEMMA PollRepairSound ==
    ASSUME NEW n \in Nat, NEW known \in SUBSET (1 .. n), 1 .. n \subseteq Thoughts,
           NEW d, Sound(d, n, known)
    PROVE  Sound(PollRepair(d, n), n, known)
<1> DEFINE freed == [d EXCEPT !.repair = NoRepair]
<1>d. d \in Entries(n, known) /\ IdleRepair(d) /\ Tried(d, known) /\ Noted(d, known, {})
  BY DEF Sound
<1>1. NoRepair \in [pc : RepairStates, rows : SUBSET known] /\ NoRepair.rows = {}
  BY DEF NoRepair, RepairStates
<1>2. /\ freed \in Entries(n, known) /\ freed.covered = d.covered /\ freed.inflight = d.inflight
      /\ freed.parked = d.parked /\ freed.missing = d.missing /\ freed.attempts = d.attempts
      /\ freed.ledger = d.ledger /\ freed.issued = d.issued /\ freed.repair = NoRepair
      /\ freed.rebuild = d.rebuild /\ freed.lost = d.lost
  BY <1>1, <1>d DEF Entries
<1> HIDE DEF freed
<1>3. IdleRepair(freed) /\ Tried(freed, known)
  BY <1>1, <1>2, <1>d DEF IdleRepair, Tried
<1>4. d.repair.rows \in SUBSET known /\ d.repair.pc \in RepairStates
  BY <1>d DEF Entries
<1>5. Noted(freed, known, d.repair.rows)
  BY <1>2, <1>d DEF Noted, OnItsWay, Pending
<1>6. {} \in SUBSET known /\ d.repair.rows \cup {} = d.repair.rows
      /\ {} \cup d.repair.rows = d.repair.rows
  OBVIOUS
<1>7. CASE d.repair.pc = "embedded"
  <2>1. Sound(Commit(freed, d.repair.rows, {}, n), n, known)
    BY <1>2, <1>3, <1>4, <1>5, <1>6, CommitSound
  <2>2. QED
    BY <1>7, <2>1 DEF PollRepair, freed
<1>8. CASE d.repair.pc = "failed"
  <2>1. Sound(Commit(freed, {}, d.repair.rows, n), n, known)
    BY <1>2, <1>3, <1>4, <1>5, <1>6, CommitSound
  <2>2. QED
    BY <1>8, <2>1 DEF PollRepair, freed
<1>9. CASE d.repair.pc \in {"none", "queued"}
  BY <1>9 DEF PollRepair
<1>10. QED
  BY <1>4, <1>7, <1>8, <1>9 DEF RepairStates

LEMMA PollSound ==
    ASSUME NEW n \in Nat, NEW known \in SUBSET (1 .. n), 1 .. n \subseteq Thoughts,
           NEW d, Sound(d, n, known), NEW ok \in BOOLEAN
    PROVE  Sound(Poll(d, n, ok), n, known)
BY PollRebuildSound, PollRepairSound, DrainSound DEF Poll, PollDrain

LEMMA ReclaimSound ==
    ASSUME NEW n \in Nat, NEW known \in SUBSET (1 .. n), 1 .. n \subseteq Thoughts,
           NEW d, Sound(d, n, known)
    PROVE  /\ Reclaim(d) \in Entries(n, known) /\ IdleRepair(Reclaim(d))
           /\ ~Exhausted(Reclaim(d), Abandoned(d)) => Sound(Reclaim(d), n, known)
<1> DEFINE e == Reclaim(d)
           gone == Abandoned(d)
<1>d. d \in Entries(n, known) /\ IdleRepair(d) /\ Tried(d, known) /\ Noted(d, known, {})
  BY DEF Sound
<1>1. /\ e \in Entries(n, known) /\ SameOutside(d, e) /\ gone \in SUBSET known
      /\ gone = d.ledger \ d.parked /\ e.parked = d.parked /\ e.ledger = {}
      /\ e.inflight = d.inflight \ gone /\ d.missing \subseteq e.missing
      /\ \A i \in gone : e.attempts[i] < MaxEmbedAttempts => i \in e.missing
      /\ \A i \in Thoughts \ gone : e.attempts[i] = d.attempts[i]
  BY <1>d, ReclaimNotes
<1> HIDE DEF e, gone
<1>2. IdleRepair(e)
  BY <1>1, <1>d DEF IdleRepair, SameOutside
<1>3. ASSUME ~Exhausted(e, gone)
      PROVE  Sound(e, n, known)
  <2>1. e.attempts \in [Thoughts -> Nat] /\ gone \subseteq Thoughts
    BY <1>1 DEF Entries
  <2>2. \A i \in gone : e.attempts[i] < MaxEmbedAttempts
    BY <1>3, <2>1, ConstantAssumption DEF Exhausted
  <2>3. Tried(e, known)
    BY <1>1, <1>d, <2>2 DEF Tried
  <2>4. Noted(e, known, {})
    BY <1>1, <1>d, <2>2 DEF Noted, OnItsWay, SameOutside, Pending
  <2>5. QED
    BY <1>1, <1>2, <2>3, <2>4 DEF Sound
<1>4. QED
  BY <1>1, <1>2, <1>3 DEF e, gone

\* An entry that is told of one more thought.
LEMMA Widened ==
    ASSUME NEW n \in Nat, NEW k \in SUBSET (1 .. n), NEW known \in SUBSET (1 .. n), k \subseteq known,
           NEW m \in Nat, m <= n, NEW d \in Entries(m, k)
    PROVE  d \in Entries(n, known) /\ (Tried(d, k) => Tried(d, known))
<1>1. /\ 0 .. m \subseteq 0 .. n /\ SUBSET k \subseteq SUBSET known
      /\ [pc : RepairStates, rows : SUBSET k] \subseteq [pc : RepairStates, rows : SUBSET known]
      /\ [pc : RebuildStates, rows : 0 .. m] \subseteq [pc : RebuildStates, rows : 0 .. n]
  <2>1. 0 .. m \subseteq 0 .. n /\ SUBSET k \subseteq SUBSET known
    OBVIOUS
  <2>2. QED
    BY <2>1
<1>2. d \in Entries(n, known)
  <2> DEFINE some == SUBSET k
             more == SUBSET known
             less == 0 .. m
             upTo == 0 .. n
             repairs == [pc : RepairStates, rows : SUBSET k]
             moreRepairs == [pc : RepairStates, rows : SUBSET known]
             rebuilds == [pc : RebuildStates, rows : 0 .. m]
             moreRebuilds == [pc : RebuildStates, rows : 0 .. n]
  <2>1. d \in [covered : less, inflight : some, parked : some, missing : some,
               attempts : [Thoughts -> Nat], ledger : some, issued : some, repair : repairs,
               rebuild : rebuilds, guard : {"free", "held"}, lost : {"no", "yes"}]
    BY DEF Entries
  <2>2. /\ less \subseteq upTo /\ some \subseteq more
        /\ repairs \subseteq moreRepairs /\ rebuilds \subseteq moreRebuilds
    BY <1>1
  <2> HIDE DEF some, more, less, upTo, repairs, moreRepairs, rebuilds, moreRebuilds
  <2>3. d \in [covered : upTo, inflight : more, parked : more, missing : more,
               attempts : [Thoughts -> Nat], ledger : more, issued : more, repair : moreRepairs,
               rebuild : moreRebuilds, guard : {"free", "held"}, lost : {"no", "yes"}]
    BY <2>1, <2>2
  <2>4. QED
    BY <2>3 DEF Entries, more, upTo, moreRepairs, moreRebuilds
<1>3. QED
  BY <1>2 DEF Tried

\* The new thought of a deferred append gets a ticket, or is noted to be
\* embedded later, unless all is being made again.
LEMMA QueueTicketSound ==
    ASSUME NEW n \in Nat \ {0}, 1 .. n \subseteq Thoughts, NEW d, Sound(d, n, 1 .. n - 1)
    PROVE  Sound(QueueTicket(d, n), n, 1 .. n)
<1> DEFINE old == 1 .. n - 1
           known == 1 .. n
           e == Reclaim(d)
<1>k. /\ old \in SUBSET known /\ known \in SUBSET (1 .. n) /\ old \in SUBSET (1 .. n)
      /\ n \in known /\ known = old \cup {n}
  OBVIOUS
<1>d. d \in Entries(n, old) /\ IdleRepair(d) /\ Tried(d, old) /\ Noted(d, old, {})
  BY DEF Sound
<1>o. Sound(d, n, old)
  OBVIOUS
<1> HIDE DEF old, known
<1>1. d \in Entries(n, known) /\ Tried(d, known)
  BY <1>d, <1>k, Widened
<1>2. CASE Pending(d)
  <2>1. Sound(d, n, known)
    BY <1>1, <1>2, <1>d DEF Sound, Noted
  <2>2. QED
    BY <1>2, <2>1, <1>k, RepairSound DEF QueueTicket, known
<1>3. /\ e \in Entries(n, old) /\ IdleRepair(e)
      /\ ~Exhausted(e, Abandoned(d)) => Sound(e, n, old)
  BY <1>o, <1>k, ReclaimSound DEF old
<1> HIDE DEF e
<1>4. e \in Entries(n, known)
  <2>1. n \in Nat /\ n <= n
    OBVIOUS
  <2>2. QED
    BY <1>3, <1>k, <2>1, Widened
<1>5. CASE ~Pending(d) /\ Exhausted(e, Abandoned(d))
  <2>1. Sound(FullRepair(e, n), n, known)
    BY <1>3, <1>4, <1>k, FullRepairSound
  <2>2. QED
    BY <1>5, <2>1, <1>k, RepairSound DEF QueueTicket, e, known
<1>6. CASE ~Pending(d) /\ ~Exhausted(e, Abandoned(d))
  <2>1. IdleRepair(e) /\ Tried(e, known) /\ Noted(e, old, {})
    BY <1>3, <1>4, <1>6, <1>k, Widened DEF Sound
  <2> DEFINE noted == [e EXCEPT !.missing = @ \cup {n}]
             begun == [e EXCEPT !.inflight = @ \cup {n}, !.issued = @ \cup {n}]
  <2>2. Sound(noted, n, known)
    <3>1. /\ noted \in Entries(n, known) /\ SameOutside(e, noted) /\ noted.attempts = e.attempts
          /\ noted.missing = e.missing \cup {n} /\ noted.parked = e.parked
          /\ noted.inflight = e.inflight /\ noted.ledger = e.ledger
      BY <1>4, <1>k DEF Entries, SameOutside
    <3> HIDE DEF noted
    <3>2. QED
      BY <2>1, <3>1, <1>k DEF Sound, IdleRepair, Tried, Noted, OnItsWay, SameOutside, Pending
  <2>3. Sound(begun, n, known)
    <3>1. /\ begun \in Entries(n, known) /\ begun.attempts = e.attempts
          /\ begun.missing = e.missing /\ begun.parked = e.parked /\ begun.ledger = e.ledger
          /\ begun.inflight = e.inflight \cup {n} /\ begun.issued = e.issued \cup {n}
          /\ begun.covered = e.covered /\ begun.repair = e.repair /\ begun.rebuild = e.rebuild
          /\ begun.lost = e.lost
      BY <1>4, <1>k DEF Entries
    <3> HIDE DEF begun
    <3>2. QED
      BY <2>1, <3>1, <1>k DEF Sound, IdleRepair, Tried, Noted, OnItsWay, Pending
  <2>4. \E x \in {noted, begun} : QueueTicket(d, n) = Repair(x)
    BY <1>6 DEF QueueTicket, e
  <2> HIDE DEF noted, begun
  <2>5. QED
    BY <2>2, <2>3, <2>4, <1>k, RepairSound DEF known
<1>7. QED
  BY <1>2, <1>5, <1>6

\* An append under the lock extends the sidecar, takes its place in the pipeline,
\* or has all made again.
LEMMA SyncAppendSound ==
    ASSUME NEW n \in Nat \ {0}, 1 .. n \subseteq Thoughts, NEW d, Sound(d, n, 1 .. n - 1),
           NEW ok \in BOOLEAN
    PROVE  Sound(SyncAppend(d, n, ok), n, 1 .. n)
<1> DEFINE old == 1 .. n - 1
           known == 1 .. n
<1>k. /\ old \in SUBSET known /\ known \in SUBSET (1 .. n) /\ old \in SUBSET (1 .. n)
      /\ n \in known /\ known = old \cup {n} /\ n \notin old /\ n \in Thoughts
  OBVIOUS
<1>d. d \in Entries(n, old) /\ IdleRepair(d) /\ Tried(d, old) /\ Noted(d, old, {})
  BY DEF Sound
<1> HIDE DEF old, known
<1>1. d \in Entries(n, known) /\ Tried(d, known) /\ d.attempts[n] = 0
  BY SMTT(30), <1>d, <1>k, Widened DEF Tried
<1>2. CASE Pending(d)
  <2>1. Sound(d, n, known)
    BY <1>1, <1>2, <1>d DEF Sound, Noted
  <2>2. SyncAppend(d, n, ok) = d
    BY <1>2 DEF SyncAppend
  <2>3. QED
    BY <2>1, <2>2 DEF known
<1>3. CASE ~Pending(d) /\ (Pipelined(d) > 0 \/ d.missing # {}) /\ ok
  <2> DEFINE e == [d EXCEPT !.parked = @ \cup {n}]
  <2>1. /\ e \in Entries(n, known) /\ SameOutside(d, e) /\ e.attempts = d.attempts
        /\ e.parked = d.parked \cup {n} /\ e.inflight = d.inflight /\ e.missing = d.missing
        /\ e.ledger = d.ledger
    BY <1>1, <1>k DEF Entries, SameOutside
  <2>2. SyncAppend(d, n, ok) = Drain(e, n)
    BY <1>3 DEF SyncAppend, EmbedAndPark
  <2> HIDE DEF e
  <2>3. Sound(e, n, known)
    BY <2>1, <1>1, <1>d, <1>k DEF Sound, IdleRepair, Tried, Noted, OnItsWay, SameOutside, Pending
  <2>4. QED
    BY <2>2, <2>3, <1>k, DrainSound DEF known
<1>4. CASE ~Pending(d) /\ (Pipelined(d) > 0 \/ d.missing # {}) /\ ~ok
  <2> DEFINE e == Fail(d, {n})
  <2>1. /\ e \in Entries(n, known) /\ SameOutside(d, e)
        /\ e.parked = d.parked /\ e.ledger = d.ledger /\ e.inflight = d.inflight \ {n}
        /\ d.missing \subseteq e.missing
        /\ e.attempts[n] < MaxEmbedAttempts => n \in e.missing
        /\ \A i \in Thoughts \ {n} : e.attempts[i] = d.attempts[i]
        /\ e.attempts[n] = d.attempts[n] + 1
    <3>1. {n} \in SUBSET known
      BY <1>k
    <3>2. QED
      BY <3>1, <1>1, <1>k, FailNotes
  <2>2. SyncAppend(d, n, ok) = Repair(e)
    BY <1>4 DEF SyncAppend, EmbedAndPark
  <2> HIDE DEF e
  <2>3. e.attempts[n] = 1 /\ 1 < MaxEmbedAttempts
    BY <2>1, <1>1, ConstantAssumption
  <2>4. Tried(e, known)
    BY <2>1, <2>3, <1>1, <1>k DEF Tried
  <2>5. Sound(e, n, known)
    BY <2>1, <2>3, <2>4, <1>d, <1>k DEF Sound, IdleRepair, Noted, OnItsWay, SameOutside, Pending
  <2>6. QED
    BY <2>2, <2>5, <1>k, RepairSound DEF known
<1>5. CASE ~Pending(d) /\ ~(Pipelined(d) > 0 \/ d.missing # {}) /\ ok /\ d.covered = n - 1
  <2> DEFINE e == [d EXCEPT !.covered = n]
  <2>1. /\ e \in Entries(n, known) /\ e.covered = n /\ e.attempts = d.attempts /\ e.repair = d.repair
    BY <1>1, <1>k DEF Entries
  <2>2. SyncAppend(d, n, ok) = e
    <3>1. Pipelined(d) = 0 /\ d.missing = {}
      <4>1. IsFiniteSet(known)
        BY FS_Interval DEF known
      <4>2. Pipelined(d) \in Nat
        BY <1>1, <4>1, FS_Subset, FS_CardinalityType DEF Pipelined, Entries
      <4>3. QED
        BY <1>5, <4>2
    <3>2. QED
      BY <1>5, <3>1 DEF SyncAppend
  <2> HIDE DEF e
  <2>3. Sound(e, n, known)
    BY <2>1, <1>1, <1>d, <1>k DEF Sound, IdleRepair, Tried, Noted
  <2>4. QED
    BY <2>2, <2>3 DEF known
<1>6. CASE ~Pending(d) /\ ~(Pipelined(d) > 0 \/ d.missing # {}) /\ ~(ok /\ d.covered = n - 1)
  <2>1. Pipelined(d) = 0 /\ d.missing = {}
    <3>1. IsFiniteSet(known)
      BY FS_Interval DEF known
    <3>2. Pipelined(d) \in Nat
      BY <1>1, <3>1, FS_Subset, FS_CardinalityType DEF Pipelined, Entries
    <3>3. QED
      BY <1>6, <3>2
  <2>2. SyncAppend(d, n, ok) = ScheduleRebuild(d, n)
    BY <1>6, <2>1 DEF SyncAppend
  <2>3. QED
    BY <2>2, <1>1, <1>d, <1>k, ScheduleSound DEF known
<1>7. QED
  BY <1>2, <1>3, <1>4, <1>5, <1>6

-----------------------------------------------------------------------------
(* The specification. *)

EmbedInv ==
    /\ thoughts \in 0 .. MaxThoughts
    /\ tickets \in [Thoughts -> {"none", "out", "good", "bad"}]
    /\ \A i \in Thoughts : tickets[i] # "none" => i <= thoughts
    /\ Sound(vectors, thoughts, 1 .. thoughts)

LEMMA EmbedStarts == EmbedInit => EmbedInv
<1> SUFFICES ASSUME EmbedInit PROVE EmbedInv
  OBVIOUS
<1>1. Entry(0) \in Entries(0, 1 .. 0) /\ Entry(0).attempts = NoAttempts /\ Entry(0).repair = NoRepair
  BY DEF Entry, Entries, NoAttempts, NoRepair, NoRebuild, RepairStates, RebuildStates
<1>2. Tried(Entry(0), 1 .. 0)
  BY <1>1, ConstantAssumption DEF Tried, NoAttempts
<1>3. Sound(Entry(0), 0, 1 .. 0)
  BY <1>1, <1>2 DEF Sound, IdleRepair, Noted, NoRepair
<1>4. QED
  BY <1>3, ConstantAssumption DEF EmbedInit, EmbedInv

LEMMA EmbedSteps == EmbedInv /\ [EmbedNext]_embedVars => EmbedInv'
<1> SUFFICES ASSUME EmbedInv, [EmbedNext]_embedVars PROVE EmbedInv'
  OBVIOUS
<1> DEFINE known == 1 .. thoughts
           d == vectors
<1>n. /\ thoughts \in Nat /\ known \in SUBSET (1 .. thoughts) /\ 1 .. thoughts \subseteq Thoughts
      /\ Sound(d, thoughts, known)
  BY ConstantAssumption DEF EmbedInv, Thoughts
<1>d. d \in Entries(thoughts, known) /\ IdleRepair(d) /\ Tried(d, known) /\ Noted(d, known, {})
  BY <1>n DEF Sound
<1>t. /\ tickets \in [Thoughts -> {"none", "out", "good", "bad"}]
      /\ \A i \in Thoughts : tickets[i] # "none" => i \in known
  BY DEF EmbedInv, Thoughts
<1>g. ASSUME thoughts' = thoughts, Sound(vectors', thoughts, known),
             tickets' \in [Thoughts -> {"none", "out", "good", "bad"}],
             \A i \in Thoughts : tickets'[i] # "none" => tickets[i] # "none"
      PROVE  EmbedInv'
  BY <1>g DEF EmbedInv
<1>1. CASE AppendDeferred \/ AppendSync
  <2> DEFINE n == thoughts + 1
  <2>1. n \in Nat \ {0} /\ n \in Thoughts /\ 1 .. n \subseteq Thoughts /\ known = 1 .. n - 1
    BY <1>1, <1>n, ConstantAssumption DEF AppendDeferred, AppendSync, Thoughts
  <2>2. Sound(d, n, known)
    <3>1. known \in SUBSET (1 .. n) /\ thoughts <= n /\ n \in Nat
      BY <1>n
    <3>2. d \in Entries(n, known)
      BY <1>d, <3>1, <1>n, Widened
    <3>3. QED
      BY <3>2, <1>d DEF Sound
  <2>3. \A ok \in BOOLEAN : Sound(Poll(d, n, ok), n, 1 .. n - 1)
    <3>1. known \in SUBSET (1 .. n)
      BY <1>n
    <3>2. QED
      BY <2>1, <2>2, <3>1, PollSound
  <2>4. thoughts' = n /\ tickets' \in [Thoughts -> {"none", "out", "good", "bad"}]
        /\ \A i \in Thoughts : tickets'[i] # "none" => tickets[i] # "none" \/ i = n
    BY <1>1, <1>t DEF AppendDeferred, AppendSync
  <2>5. Sound(vectors', n, 1 .. n)
    <3>1. CASE AppendDeferred
      <4>1. PICK ok \in BOOLEAN : vectors' = QueueTicket(Poll(d, n, ok), n)
        BY <3>1 DEF AppendDeferred, Answers
      <4>2. QED
        BY <2>1, <2>3, <4>1, QueueTicketSound
    <3>2. CASE AppendSync
      <4>1. PICK ok1 \in BOOLEAN, ok2 \in BOOLEAN : vectors' = SyncAppend(Poll(d, n, ok1), n, ok2)
        BY <3>2 DEF AppendSync, Answers
      <4>2. QED
        BY <2>1, <2>3, <4>1, SyncAppendSound
    <3>3. QED
      BY <1>1, <3>1, <3>2
  <2>6. n \in 0 .. MaxThoughts /\ \A i \in Thoughts : tickets'[i] # "none" => i <= n
    BY <1>t, <1>n, <2>1, <2>4 DEF Thoughts
  <2>7. QED
    BY <2>4, <2>5, <2>6 DEF EmbedInv
<1>2. ASSUME NEW i \in Thoughts, EmbedTicket(i)
      PROVE  EmbedInv'
  BY <1>2, <1>n, <1>t, <1>g DEF EmbedTicket
<1>3. ASSUME NEW i \in Thoughts, DropTicket(i)
      PROVE  EmbedInv'
  <2>1. i \in known
    BY <1>3, <1>t DEF DropTicket
  <2>2. vectors' = [d EXCEPT !.ledger = d.ledger \cup ({i} \cap d.issued), !.issued = d.issued \ {i}]
    BY <1>3 DEF DropTicket
  <2> DEFINE e == vectors'
  <2>3. /\ e \in Entries(thoughts, known) /\ e.covered = d.covered /\ e.inflight = d.inflight
        /\ e.parked = d.parked /\ e.missing = d.missing /\ e.attempts = d.attempts
        /\ e.ledger = d.ledger \cup ({i} \cap d.issued) /\ e.issued = d.issued \ {i}
        /\ e.repair = d.repair /\ e.rebuild = d.rebuild /\ e.lost = d.lost
    BY <2>1, <2>2, <1>d DEF Entries
  <2>4. Sound(e, thoughts, known)
    BY <2>3, <1>d DEF Sound, IdleRepair, Tried, Noted, OnItsWay, Pending
  <2>5. QED
    BY <1>3, <2>4, <1>t, <1>g DEF DropTicket
<1>4. ASSUME NEW i \in Thoughts, CommitTicket(i)
      PROVE  EmbedInv'
  <2>1. i \in known /\ {i} \in SUBSET known /\ {} \in SUBSET known
    BY <1>4, <1>t DEF CommitTicket
  <2> DEFINE e == [d EXCEPT !.issued = @ \ {i}]
  <2>2. /\ e \in Entries(thoughts, known) /\ e.covered = d.covered /\ e.inflight = d.inflight
        /\ e.parked = d.parked /\ e.missing = d.missing /\ e.attempts = d.attempts
        /\ e.ledger = d.ledger /\ e.issued = d.issued \ {i}
        /\ e.repair = d.repair /\ e.rebuild = d.rebuild /\ e.lost = d.lost
    BY <1>d DEF Entries
  <2>3. vectors' = Commit(e, {i}, {}, thoughts) \/ vectors' = Commit(e, {}, {i}, thoughts)
    BY <1>4 DEF CommitTicket
  <2> HIDE DEF e
  <2>4. /\ IdleRepair(e) /\ Tried(e, known)
        /\ Noted(e, known, {i} \cup {}) /\ Noted(e, known, {} \cup {i})
    BY <2>2, <1>d DEF IdleRepair, Tried, Noted, OnItsWay, Pending
  <2>5. Sound(vectors', thoughts, known)
    BY <2>1, <2>2, <2>3, <2>4, <1>n, CommitSound
  <2>6. QED
    BY <1>4, <2>5, <1>t, <1>g DEF CommitTicket
<1>5. CASE RunRepair
  <2>1. PICK state \in {"embedded", "failed"} : vectors' = [d EXCEPT !.repair.pc = state]
    BY <1>5 DEF RunRepair
  <2> DEFINE e == vectors'
             job == [d.repair EXCEPT !.pc = state]
  <2>2. job \in [pc : RepairStates, rows : SUBSET known] /\ job.rows = d.repair.rows /\ job.pc = state
    BY <1>d DEF Entries, RepairStates
  <2>3. e = [d EXCEPT !.repair = job]
    BY <2>1
  <2> HIDE DEF job
  <2>4. /\ e \in Entries(thoughts, known) /\ e.covered = d.covered /\ e.inflight = d.inflight
        /\ e.parked = d.parked /\ e.missing = d.missing /\ e.attempts = d.attempts
        /\ e.ledger = d.ledger /\ e.issued = d.issued /\ e.repair = job
        /\ e.rebuild = d.rebuild /\ e.lost = d.lost
    BY <2>2, <2>3, <1>d DEF Entries
  <2>5. Sound(e, thoughts, known)
    BY <2>2, <2>4, <1>d DEF Sound, IdleRepair, Tried, Noted, OnItsWay, Pending
  <2>6. QED
    BY <1>5, <2>5, <1>t, <1>g DEF RunRepair
<1>6. CASE RunRebuild \/ PanicRebuild
  <2>1. PICK state \in {"built", "failed", "panicked"} : vectors' = [d EXCEPT !.rebuild.pc = state]
    BY <1>6 DEF RunRebuild, PanicRebuild
  <2> DEFINE e == vectors'
             job == [d.rebuild EXCEPT !.pc = state]
  <2>2. job \in [pc : RebuildStates, rows : 0 .. thoughts] /\ job.pc # "none"
    BY <1>d DEF Entries, RebuildStates
  <2>3. e = [d EXCEPT !.rebuild = job]
    BY <2>1
  <2> HIDE DEF job
  <2>4. /\ e \in Entries(thoughts, known) /\ e.attempts = d.attempts /\ e.repair = d.repair
        /\ e.rebuild = job
    BY <2>2, <2>3, <1>d DEF Entries
  <2>5. Sound(e, thoughts, known)
    BY <2>2, <2>4, <1>d DEF Sound, IdleRepair, Tried, Noted, Pending
  <2>6. QED
    BY <1>6, <2>5, <1>t, <1>g DEF RunRebuild, PanicRebuild
<1>7. CASE ReleaseGuard
  <2>1. vectors' = [d EXCEPT !.guard = "free"]
    BY <1>7 DEF ReleaseGuard
  <2> DEFINE e == vectors'
  <2>2. /\ e \in Entries(thoughts, known) /\ e.covered = d.covered /\ e.inflight = d.inflight
        /\ e.parked = d.parked /\ e.missing = d.missing /\ e.attempts = d.attempts
        /\ e.ledger = d.ledger /\ e.issued = d.issued /\ e.repair = d.repair
        /\ e.rebuild = d.rebuild /\ e.lost = d.lost
    BY <2>1, <1>d DEF Entries
  <2>3. Sound(e, thoughts, known)
    BY <2>2, <1>d DEF Sound, IdleRepair, Tried, Noted, OnItsWay, Pending
  <2>4. QED
    BY <1>7, <2>3, <1>t, <1>g DEF ReleaseGuard
<1>8. CASE PollIdle
  <2>1. PICK ok \in BOOLEAN :
          vectors' = PollDrain(PollRepair(PollRebuild(d, thoughts, ok), thoughts), thoughts)
    BY <1>8 DEF PollIdle, Answers
  <2>2. vectors' = Poll(d, thoughts, ok)
    BY <2>1 DEF Poll
  <2>3. Sound(vectors', thoughts, known)
    BY <2>2, <1>n, PollSound
  <2>4. QED
    BY <1>8, <2>3, <1>t, <1>g DEF PollIdle
<1>9. CASE UNCHANGED embedVars
  BY <1>9, <1>n, <1>t, <1>g DEF embedVars
<1>10. QED
  BY <1>1, <1>2, <1>3, <1>4, <1>5, <1>6, <1>7, <1>8, <1>9 DEF EmbedNext

LEMMA EmbedInvCorrect == EmbedSpec => []EmbedInv
  BY EmbedStarts, EmbedSteps, PTL DEF EmbedSpec

\* No vector is ever forgotten: whatever the order of outcomes, and whichever
\* tickets, repairs and rebuilds fail, each thought without one is on its way to it.
THEOREM NoVectorIsForgotten == EmbedSpec => []Accounted
<1>1. EmbedInv => Accounted
  <2> SUFFICES ASSUME EmbedInv PROVE Accounted
    OBVIOUS
  <2>1. Noted(vectors, 1 .. thoughts, {}) /\ vectors.covered \in Nat /\ thoughts \in Nat
    BY DEF EmbedInv, Sound, Entries
  <2>2. QED
    BY <2>1 DEF Noted, OnItsWay, Accounted
<1>2. QED
  BY <1>1, EmbedInvCorrect, PTL

\* Every variable keeps the values the code gives it.
THEOREM PipelineTypeCorrect == EmbedSpec => []EmbedTypeOK
<1>1. EmbedInv => EmbedTypeOK
  <2> SUFFICES ASSUME EmbedInv PROVE EmbedTypeOK
    OBVIOUS
  <2>1. vectors \in Entries(thoughts, 1 .. thoughts) /\ Tried(vectors, 1 .. thoughts)
    BY DEF EmbedInv, Sound
  <2>2. vectors.attempts \in [Thoughts -> 0 .. MaxEmbedAttempts]
    BY <2>1, ConstantAssumption DEF Entries, Tried
  <2>3. QED
    BY <2>1, <2>2 DEF EmbedInv, EmbedTypeOK, Entries, RepairStates, RebuildStates
<1>2. QED
  BY <1>1, EmbedInvCorrect, PTL

-----------------------------------------------------------------------------
(* Induction on Nat, by the least that fails. *)

LessThan == {xy \in Nat \X Nat : xy[1] < xy[2]}

LEMMA LeastOf ==
    ASSUME NEW T, T \subseteq Nat, T # {}
    PROVE  \E x \in T : \A y \in T : x <= y
<1>1. IsWellFoundedOn(LessThan, Nat)
  BY NatLessThanWellFounded DEF OpToRel, LessThan
<1>2. \E x \in T : \A y \in T : ~ (<<y, x>> \in LessThan)
  BY <1>1, WFMin
<1>3. \A x, y \in Nat : y < x => <<y, x>> \in LessThan
  BY DEF LessThan
<1>4. \A x, y \in Nat : ~ (y < x) => x <= y
  OBVIOUS
<1>5. QED
  BY <1>2, <1>3, <1>4

\* What holds at m, and after each from m on, holds up to n.
LEMMA UpFrom ==
    ASSUME NEW m \in Nat, NEW n \in Nat, NEW T, m \in T,
           \A i \in m .. n - 1 : i \in T => i + 1 \in T
    PROVE  \A i \in m .. n : i \in T
<1> DEFINE U == {i \in m .. n : i \notin T}
<1>1. SUFFICES ASSUME U # {} PROVE FALSE
  OBVIOUS
<1>2. U \subseteq Nat
  OBVIOUS
<1> HIDE DEF U
<1>3. PICK x \in U : \A y \in U : x <= y
  BY <1>1, <1>2, LeastOf
<1>4. x \in m .. n /\ x \notin T /\ x # m
  BY DEF U
<1>5. x - 1 \in m .. n - 1 /\ x - 1 \notin U
  BY <1>3, <1>4, <1>2
<1>6. x - 1 \in T
  BY <1>5 DEF U
<1>7. QED
  BY <1>4, <1>5, <1>6

-----------------------------------------------------------------------------
(* Lists of neighbours. *)

\* What is nearer to i than z in a list.
Ahead(i, list, z) == {y \in list : Nearer(i, y, z)}

LEMMA EdgeConstants ==
    /\ Closeness \in [Ids -> [Ids -> Nat]]
    /\ \A i, j \in Ids : Closeness[i][j] = Closeness[j][i] /\ Closeness[i][j] \in Nat
    /\ K \in Nat /\ K > 0 /\ MaxBorn \in Nat /\ Ids \subseteq Nat \ {0}
<1>1. Closeness \in [Ids -> [Ids -> Nat]]
      /\ \A i, j \in Ids : Closeness[i][j] = Closeness[j][i]
  BY OverlayAssumption
<1>2. K \in Nat /\ K > 0 /\ MaxBorn \in Nat /\ Ids \subseteq Nat \ {0}
  BY OverlayAssumption DEF Ids
<1>3. QED
  BY <1>1, <1>2

\* The members of a list are in a line, the nearest first.
LEMMA NearerOrders ==
    ASSUME NEW i \in Ids, NEW x \in Ids \X Nat, NEW y \in Ids \X Nat, NEW z \in Ids \X Nat
    PROVE  /\ ~ Nearer(i, x, x)
           /\ Nearer(i, x, y) /\ Nearer(i, y, z) => Nearer(i, x, z)
<1>1. PICK c \in [Ids -> Nat] : c = Closeness[i]
  BY EdgeConstants
<1>2. c[x[1]] \in Nat /\ c[y[1]] \in Nat /\ c[z[1]] \in Nat
      /\ x[2] \in Nat /\ y[2] \in Nat /\ z[2] \in Nat
  OBVIOUS
<1>3. QED
  BY <1>1, <1>2 DEF Nearer

LEMMA NearestIsAhead ==
    ASSUME NEW i, NEW list
    PROVE  Nearest(i, list) = {x \in list : Cardinality(Ahead(i, list, x)) < K}
  BY DEF Nearest, Ahead

LEMMA FewerAhead ==
    ASSUME NEW i \in Ids, NEW list \in SUBSET (Ids \X Nat), IsFiniteSet(list),
           NEW part \in SUBSET list, NEW z
    PROVE  /\ IsFiniteSet(Ahead(i, list, z)) /\ IsFiniteSet(Ahead(i, part, z))
           /\ Cardinality(Ahead(i, list, z)) \in Nat
           /\ Cardinality(Ahead(i, part, z)) \in Nat
           /\ Cardinality(Ahead(i, part, z)) <= Cardinality(Ahead(i, list, z))
<1> DEFINE P == Ahead(i, part, z)
           L == Ahead(i, list, z)
<1>1. L \in SUBSET list /\ P \in SUBSET L
  BY DEF Ahead
<1> HIDE DEF P, L
<1>2. IsFiniteSet(L)
  BY <1>1, FS_Subset
<1>3. IsFiniteSet(P) /\ Cardinality(P) <= Cardinality(L)
  BY <1>1, <1>2, FS_Subset
<1>4. Cardinality(L) \in Nat /\ Cardinality(P) \in Nat
  BY <1>2, <1>3, FS_CardinalityType
<1>5. QED
  BY <1>2, <1>3, <1>4 DEF P, L

\* What is nearer has less that is nearer still.
LEMMA NearerHasFewer ==
    ASSUME NEW i \in Ids, NEW list \in SUBSET (Ids \X Nat), IsFiniteSet(list),
           NEW w \in list, NEW y \in list, Nearer(i, w, y)
    PROVE  Cardinality(Ahead(i, list, w)) < Cardinality(Ahead(i, list, y))
<1> DEFINE W == Ahead(i, list, w)
           Y == Ahead(i, list, y)
<1>1. w \in Y /\ w \notin W
  BY NearerOrders DEF Ahead
<1>2. \A v \in list : Nearer(i, v, w) => Nearer(i, v, y)
  BY NearerOrders
<1>3. W \in SUBSET (Y \ {w})
  BY <1>1, <1>2 DEF Ahead
<1>4. IsFiniteSet(Y) /\ Cardinality(Y) \in Nat /\ Cardinality(W) \in Nat
  BY FewerAhead
<1> HIDE DEF W, Y
<1>5. IsFiniteSet(Y \ {w}) /\ Cardinality(Y \ {w}) = Cardinality(Y) - 1
  BY <1>1, <1>4, FS_RemoveElement
<1>6. Cardinality(W) <= Cardinality(Y \ {w})
  BY <1>3, <1>5, FS_Subset
<1>7. QED
  BY <1>4, <1>5, <1>6 DEF W, Y

\* Nothing that was cut from a list comes back with one more.
\* The nearest K of the nearest K and one more are the nearest K of all.
LEMMA NearestStep ==
    ASSUME NEW i \in Ids, NEW A \in SUBSET (Ids \X Nat), IsFiniteSet(A), NEW x \in Ids \X Nat
    PROVE  Nearest(i, Nearest(i, A) \cup {x}) = Nearest(i, A \cup {x})
<1> DEFINE N == Nearest(i, A)
           B == A \cup {x}
           M == N \cup {x}
<1>1. N \in SUBSET A /\ \A z \in A : z \in N <=> Cardinality(Ahead(i, A, z)) < K
  BY NearestIsAhead
<1>2. /\ B \in SUBSET (Ids \X Nat) /\ IsFiniteSet(B) /\ A \in SUBSET B /\ M \in SUBSET B
      /\ B = A \cup {x} /\ M = N \cup {x}
  BY <1>1, FS_AddElement
<1> HIDE DEF N, B, M
<1>3. \A z \in B : /\ Cardinality(Ahead(i, B, z)) \in Nat /\ Cardinality(Ahead(i, M, z)) \in Nat
                   /\ Cardinality(Ahead(i, A, z)) \in Nat
                   /\ Cardinality(Ahead(i, M, z)) <= Cardinality(Ahead(i, B, z))
                   /\ Cardinality(Ahead(i, A, z)) <= Cardinality(Ahead(i, B, z))
  BY <1>2, FewerAhead
<1>4. ASSUME NEW z \in B, Cardinality(Ahead(i, B, z)) < K
      PROVE  z \in M /\ Cardinality(Ahead(i, M, z)) < K
  BY SMTT(30), <1>1, <1>2, <1>3, <1>4, EdgeConstants
<1>5. ASSUME NEW z \in M, Cardinality(Ahead(i, M, z)) < K
      PROVE  Cardinality(Ahead(i, B, z)) < K
  <2> DEFINE Out == Ahead(i, B, z) \ M
             Ranks == {Cardinality(Ahead(i, A, y)) : y \in Out}
  <2>1. CASE Out = {}
    <3>1. Ahead(i, B, z) = Ahead(i, M, z)
      BY <1>2, <2>1 DEF Ahead
    <3>2. QED
      BY <1>5, <3>1
  <2>2. CASE Out # {}
    <3>1. Out \subseteq A /\ \A y \in Out : y \notin N
      BY <1>2 DEF Ahead
    <3>2. Ranks \subseteq Nat /\ Ranks # {}
      BY <1>2, <1>3, <2>2, <3>1
    <3>3. PICK r \in Ranks : \A q \in Ranks : r <= q
      <4> HIDE DEF Ranks
      <4>1. QED
        BY <3>2, LeastOf
    <3>4. PICK y \in Out : r = Cardinality(Ahead(i, A, y))
      OBVIOUS
    <3>5. y \in A /\ Nearer(i, y, z) /\ ~ (Cardinality(Ahead(i, A, y)) < K) /\ z \in B
      BY <1>1, <1>2, <3>1 DEF Ahead
    <3>6. ASSUME NEW w \in Ahead(i, A, y) PROVE w \in Ahead(i, M, z)
      <4>1. w \in A /\ Nearer(i, w, y)
        BY DEF Ahead
      <4>2. Nearer(i, w, z)
        BY <1>2, <3>5, <4>1, NearerOrders
      <4>3. Cardinality(Ahead(i, A, w)) < Cardinality(Ahead(i, A, y))
        BY <3>5, <4>1, NearerHasFewer
      <4>4. w \notin Out
        <5>1. w \in Out => Cardinality(Ahead(i, A, w)) \in Ranks
          OBVIOUS
        <5>2. w \in B /\ y \in B
          BY <1>2, <3>5, <4>1
        <5> HIDE DEF Out, Ranks
        <5>3. QED
          BY <1>3, <3>3, <3>4, <4>3, <5>1, <5>2
      <4>5. w \in Ahead(i, B, z)
        BY <1>2, <4>1, <4>2 DEF Ahead
      <4>6. QED
        BY <4>2, <4>4, <4>5 DEF Ahead
    <3>7. Ahead(i, A, y) \in SUBSET Ahead(i, M, z) /\ IsFiniteSet(Ahead(i, M, z))
      BY <1>2, <3>6, FewerAhead
    <3>8. Cardinality(Ahead(i, A, y)) <= Cardinality(Ahead(i, M, z))
      BY <3>7, FS_Subset
    <3>9. y \in B
      BY <1>2, <3>5
    <3>10. QED
      BY <1>3, <1>5, <3>5, <3>8, <3>9, EdgeConstants
  <2>3. QED
    BY <2>1, <2>2
<1>6. Nearest(i, M) = Nearest(i, B)
  BY <1>2, <1>4, <1>5, NearestIsAhead
<1>7. QED
  BY <1>2, <1>6 DEF N

\* The image of a set of thoughts is a list.
Firsts(S) == {<<j, 1>> : j \in S}

LEMMA FirstsAreLists ==
    ASSUME NEW S \in SUBSET Ids
    PROVE  Firsts(S) \in EdgeLists
<1>1. MaxBorn \in Nat /\ Ids = 1 .. MaxBorn
  BY EdgeConstants DEF Ids
<1>2. IsFiniteSet(S)
  <2>1. IsFiniteSet(1 .. MaxBorn)
    BY <1>1, FS_Interval
  <2>2. QED
    BY <1>1, <2>1, FS_Subset
<1>3. IsFiniteSet(Firsts(S))
  <2> DEFINE f == [j \in S |-> <<j, 1>>]
             T == Firsts(S)
  <2>1. f \in [S -> T] /\ \A y \in T : \E x \in S : f[x] = y
    BY DEF Firsts
  <2> HIDE DEF T, f
  <2>2. f \in Surjection(S, T)
    BY <2>1 DEF Surjection
  <2>3. IsFiniteSet(T)
    BY <1>2, <2>2, FS_Surjection
  <2>4. QED
    BY <2>3 DEF T
<1>4. Firsts(S) \in SUBSET (Ids \X Nat)
  BY DEF Firsts
<1>5. QED
  BY <1>3, <1>4 DEF EdgeLists

LEMMA NearestAreLists ==
    ASSUME NEW i, NEW list \in EdgeLists
    PROVE  Nearest(i, list) \in EdgeLists
<1>1. Nearest(i, list) \in SUBSET list
  BY DEF Nearest
<1>2. list \in SUBSET (Ids \X Nat) /\ IsFiniteSet(list)
  BY DEF EdgeLists
<1>3. IsFiniteSet(Nearest(i, list))
  BY <1>1, <1>2, FS_Subset
<1>4. QED
  BY <1>1, <1>2, <1>3 DEF EdgeLists

LEMMA PushedAreLists ==
    ASSUME NEW list \in EdgeLists, NEW i \in Ids
    PROVE  Push(list, i) \in EdgeLists
<1> DEFINE of == {x \in list : x[1] = i}
<1>1. list \in SUBSET (Ids \X Nat) /\ IsFiniteSet(list) /\ of \in SUBSET list
  BY DEF EdgeLists
<1>2. Cardinality(of) \in Nat
  <2> HIDE DEF of
  <2>1. IsFiniteSet(of)
    BY <1>1, FS_Subset
  <2>2. QED
    BY <2>1, FS_CardinalityType
<1>3. PICK x \in Ids \X Nat : x = <<i, 1 + Cardinality(of)>>
  <2> HIDE DEF of
  <2>1. <<i, 1 + Cardinality(of)>> \in Ids \X Nat
    BY <1>2
  <2>2. QED
    BY <2>1
<1>4. Push(list, i) = list \cup {x}
  BY <1>3 DEF Push
<1>5. IsFiniteSet(list \cup {x})
  BY <1>1, FS_AddElement
<1>6. QED
  BY <1>1, <1>4, <1>5 DEF EdgeLists

\* Pushed when it is not there, a thought is there once.
LEMMA PushFirst ==
    ASSUME NEW A \in SUBSET Ids, NEW i \in Ids, i \notin A, NEW j \in Ids
    PROVE  Nearest(j, Push(NearestOf(j, A), i)) = NearestOf(j, A \cup {i})
<1> DEFINE F == Firsts(A)
           N == Nearest(j, F)
<1>1. F \in SUBSET (Ids \X Nat) /\ IsFiniteSet(F) /\ \A x \in F : x[1] # i
  BY FirstsAreLists DEF EdgeLists, Firsts
<1>2. NearestOf(j, A) = N
  BY DEF NearestOf, Firsts
<1>3. N \subseteq F
  BY DEF Nearest
<1> HIDE DEF N, F
<1>4. {x \in N : x[1] = i} = {}
  BY <1>1, <1>3
<1>5. Push(N, i) = N \cup {<<i, 1>>}
  BY <1>4, FS_EmptySet DEF Push
<1>6. Nearest(j, N \cup {<<i, 1>>}) = Nearest(j, F \cup {<<i, 1>>})
  <2>1. PICK x \in Ids \X Nat : x = <<i, 1>>
    OBVIOUS
  <2>2. Nearest(j, Nearest(j, F) \cup {x}) = Nearest(j, F \cup {x})
    BY <1>1, NearestStep
  <2>3. QED
    BY <2>1, <2>2 DEF N
<1>7. F \cup {<<i, 1>>} = Firsts(A \cup {i})
  BY DEF F, Firsts
<1>8. QED
  BY <1>2, <1>5, <1>6, <1>7 DEF NearestOf, Firsts

LEMMA NearestOfNone ==
    ASSUME NEW j
    PROVE  NearestOf(j, {}) = {}
  BY DEF NearestOf, Nearest

LEMMA NearestOfLists ==
    ASSUME NEW j, NEW A \in SUBSET Ids
    PROVE  NearestOf(j, A) \in EdgeLists
<1>1. NearestOf(j, A) = Nearest(j, Firsts(A))
  BY DEF NearestOf, Firsts
<1>2. QED
  BY <1>1, FirstsAreLists, NearestAreLists

-----------------------------------------------------------------------------
(* Overlays. *)

LEMMA EmptyOverlay ==
    /\ NewOverlay \in Overlays /\ \A i \in Ids : NewOverlay.edges[i] = {}
    /\ NewOverlay.covered = 0 /\ NewOverlay.head = 0
    /\ NewOverlay.known = {} /\ NewOverlay.twice = {}
<1>1. {} \in EdgeLists
  BY FS_EmptySet DEF EdgeLists
<1>2. QED
  BY <1>1 DEF NewOverlay, Overlays

LEMMA AppliedOverlay ==
    ASSUME NEW o \in Overlays, NEW i \in Ids, NEW found \in SUBSET Ids, NEW a,
           a = ApplyCandidates(o, i, found)
    PROVE  /\ a \in Overlays
           /\ a.covered = o.covered /\ a.head = o.head
           /\ a.known = o.known \cup {i} /\ a.twice = o.twice \cup ({i} \cap o.known)
           /\ \A j \in Ids :
                a.edges[j] = IF j \in found THEN Nearest(j, Push(o.edges[j], i))
                             ELSE IF j = i /\ found # {} THEN NearestOf(i, found)
                             ELSE o.edges[j]
<1> DEFINE e == [j \in Ids |->
            IF j \in found THEN Nearest(j, Push(o.edges[j], i))
            ELSE IF j = i /\ found # {} THEN NearestOf(i, found)
            ELSE o.edges[j]]
<1>1. e \in [Ids -> EdgeLists]
  <2>1. ASSUME NEW j \in Ids PROVE e[j] \in EdgeLists
    <3>1. o.edges[j] \in EdgeLists
      BY DEF Overlays
    <3>2. Nearest(j, Push(o.edges[j], i)) \in EdgeLists
      BY <3>1, PushedAreLists, NearestAreLists
    <3>3. NearestOf(i, found) \in EdgeLists
      BY NearestOfLists
    <3>4. QED
      BY <3>1, <3>2, <3>3
  <2>2. QED
    BY <2>1
<1>2. \A j \in Ids : e[j] = IF j \in found THEN Nearest(j, Push(o.edges[j], i))
                            ELSE IF j = i /\ found # {} THEN NearestOf(i, found)
                            ELSE o.edges[j]
  OBVIOUS
<1>3. PICK k \in SUBSET Ids, t \in SUBSET Ids :
        k = o.known \cup {i} /\ t = o.twice \cup ({i} \cap o.known)
  BY DEF Overlays
<1>a. a = [o EXCEPT !.edges = e, !.known = k, !.twice = t]
  BY <1>3 DEF ApplyCandidates
<1> HIDE DEF e
<1>4. /\ a \in Overlays /\ a.edges = e /\ a.covered = o.covered /\ a.head = o.head
      /\ a.known = k /\ a.twice = t
  BY <1>1, <1>a DEF Overlays
<1>5. QED
  BY <1>2, <1>3, <1>4

LEMMA CoveredOverlay ==
    ASSUME NEW o \in Overlays, NEW n \in Nat, NEW i \in Nat, NEW a, a = SetCoverage(o, n, i)
    PROVE  /\ a \in Overlays
           /\ a.covered = n /\ a.head = i /\ a.edges = o.edges
           /\ a.known = o.known /\ a.twice = o.twice
  BY DEF SetCoverage, Overlays

-----------------------------------------------------------------------------
(* A chain, a sidecar of it, and an overlay of them. *)

Rises(s) == \A p, q \in DOMAIN s : p < q => s[p] < s[q]
ChainFits(c, b) ==
    b \in 0 .. MaxBorn /\ c \in Seq(1 .. b) /\ Len(c) <= b /\ Rises(c)

\* What the two have in common is where they begin.
Aligned(s, c) ==
    \A p \in DOMAIN s : s[p] \in ToSet(c) =>
        \A q \in 1 .. p : q \in DOMAIN c /\ c[q] = s[q]
SidecarFits(s, c, b) == s \in Seq(1 .. b) /\ Rises(s) /\ Aligned(s, c)

\* No thought was added twice or is lost.
Plain(o, c) == o.twice = {} /\ o.known \subseteq ToSet(c)

Compared(c, i, added) ==
    {j \in ToSet(c) : (j < i /\ i \in added) \/ (i < j /\ j \in added)}
Neighbours(c, i, added) == NearestOf(i, Candidates(i, Compared(c, i, added)))

EdgesFit(o, c, b) ==
    \A i \in ToSet(c) \cup (b + 1 .. MaxBorn) : o.edges[i] = Neighbours(c, i, o.known)

LEMMA ChainFacts ==
    ASSUME NEW c, NEW b, ChainFits(c, b)
    PROVE  /\ b \in Nat /\ b <= MaxBorn /\ Len(c) \in Nat /\ DOMAIN c = 1 .. Len(c)
           /\ c \in Seq(1 .. b) /\ c \in Seq(Ids) /\ c \in Seq(Nat)
           /\ 1 .. b \subseteq Ids /\ ToSet(c) \subseteq 1 .. b /\ ToSet(c) \subseteq Ids
           /\ \A i \in ToSet(c) : i \in Nat /\ i <= b
           /\ \A p \in 1 .. Len(c) : c[p] \in 1 .. b /\ c[p] \in ToSet(c) /\ c[p] \in Nat
           /\ b + 1 .. MaxBorn \subseteq Ids
<1>1. b \in Nat /\ b <= MaxBorn /\ c \in Seq(1 .. b) /\ MaxBorn \in Nat
  BY EdgeConstants DEF ChainFits
<1>2. 1 .. b \subseteq Ids /\ Ids \subseteq Nat /\ b + 1 .. MaxBorn \subseteq Ids
  BY <1>1 DEF Ids
<1>3. Len(c) \in Nat /\ DOMAIN c = 1 .. Len(c) /\ \A p \in 1 .. Len(c) : c[p] \in 1 .. b
  BY <1>1
<1>4. c \in Seq(Ids) /\ c \in Seq(Nat)
  BY <1>1, <1>2
<1>5. QED
  BY SMTT(30), <1>1, <1>2, <1>3, <1>4 DEF ToSet

\* The thoughts before one of the chain are those numbered lower.
LEMMA BeforeInChain ==
    ASSUME NEW c, NEW b, ChainFits(c, b), NEW p \in 1 .. Len(c)
    PROVE  {c[q] : q \in 1 .. p - 1} = {j \in ToSet(c) : j < c[p]}
<1>1. /\ DOMAIN c = 1 .. Len(c) /\ Len(c) \in Nat
      /\ \A q \in 1 .. Len(c) : c[q] \in Nat
  BY ChainFacts
<1>2. \A q \in 1 .. Len(c) : q < p => c[q] < c[p]
  BY <1>1 DEF ChainFits, Rises
<1>3. \A q \in 1 .. Len(c) : p < q => c[p] < c[q]
  BY <1>1 DEF ChainFits, Rises
<1>4. \A q \in 1 .. Len(c) : c[q] < c[p] => q \in 1 .. p - 1
  BY <1>1, <1>3
<1>5. \A q \in 1 .. p - 1 : q \in 1 .. Len(c) /\ c[q] < c[p]
  BY <1>1, <1>2
<1>6. QED
  BY <1>1, <1>4, <1>5 DEF ToSet

LEMMA BeforeInSidecar ==
    ASSUME NEW c, NEW b, ChainFits(c, b), NEW s, SidecarFits(s, c, b),
           NEW p \in DOMAIN s, s[p] \in ToSet(c)
    PROVE  /\ p \in 1 .. Len(c) /\ c[p] = s[p]
           /\ Before(s, p) = {j \in ToSet(c) : j < s[p]}
<1>1. p \in 1 .. Len(s) /\ Len(s) \in Nat
  BY DEF SidecarFits
<1>2. \A q \in 1 .. p : q \in DOMAIN c /\ c[q] = s[q]
  BY DEF SidecarFits, Aligned
<1>3. p \in 1 .. Len(c) /\ c[p] = s[p]
  BY <1>1, <1>2, ChainFacts
<1>4. \A q \in 1 .. p - 1 : c[q] = s[q]
  BY <1>1, <1>2
<1>5. Before(s, p) = {c[q] : q \in 1 .. p - 1}
  BY <1>4 DEF Before
<1>6. QED
  BY <1>3, <1>5, BeforeInChain

LEMMA CandidatesOf ==
    ASSUME NEW i, NEW S \in SUBSET Ids
    PROVE  Candidates(i, S) \in SUBSET Ids /\ i \notin Candidates(i, S)
           /\ Candidates(i, S) \subseteq S
  BY DEF Candidates

\* A thought added after those numbered lower becomes a neighbour of theirs, and they
\* of it.
LEMMA AddedFits ==
    ASSUME NEW c, NEW b, ChainFits(c, b), NEW o \in Overlays, Plain(o, c), EdgesFit(o, c, b),
           NEW i \in ToSet(c), \A k \in o.known : k < i,
           NEW found, found = Candidates(i, {j \in ToSet(c) : j < i}),
           NEW a, a = ApplyCandidates(o, i, found)
    PROVE  EdgesFit(a, c, b)
<1>1. /\ ToSet(c) \subseteq Ids /\ Ids \subseteq Nat /\ i \in Ids /\ i \in 1 .. b /\ i \notin o.known
      /\ b + 1 .. MaxBorn \subseteq Ids /\ o.known \subseteq ToSet(c)
      /\ ToSet(c) \subseteq 1 .. b /\ b \in Nat
  <2>1. /\ ToSet(c) \subseteq Ids /\ b + 1 .. MaxBorn \subseteq Ids
        /\ ToSet(c) \subseteq 1 .. b /\ b \in Nat
    BY ChainFacts
  <2>2. Ids \subseteq Nat
    BY EdgeConstants
  <2>3. o.known \subseteq ToSet(c)
    BY DEF Plain
  <2>4. i \notin o.known
    <3>1. ~ (i < i)
      BY <2>1
    <3>2. QED
      BY <3>1
  <2>5. QED
    BY <2>1, <2>2, <2>3, <2>4
<1>2. found \in SUBSET Ids /\ \A j \in found : j \in ToSet(c) /\ j < i
  BY <1>1, CandidatesOf DEF Candidates
<1>3. /\ a.known = o.known \cup {i}
      /\ \A j \in Ids :
                a.edges[j] = IF j \in found THEN Nearest(j, Push(o.edges[j], i))
                             ELSE IF j = i /\ found # {} THEN NearestOf(i, found)
                             ELSE o.edges[j]
  <2>1. i \in Ids /\ found \in SUBSET Ids
    BY <1>1, <1>2
  <2> HIDE DEF EdgesFit, Plain
  <2>3. PICK x \in Ids : x = i
    BY <2>1
  <2>4. PICK f \in SUBSET Ids : f = found
    BY <2>1
  <2>5. a = ApplyCandidates(o, x, f)
    BY <2>3, <2>4
  <2>6. a.known = o.known \cup {x}
    BY <2>5 DEF ApplyCandidates, Overlays
  <2>7. \A j \in Ids :
                a.edges[j] = IF j \in f THEN Nearest(j, Push(o.edges[j], x))
                             ELSE IF j = x /\ f # {} THEN NearestOf(x, f)
                             ELSE o.edges[j]
    BY <2>5, AppliedOverlay
  <2>2. QED
    BY <2>3, <2>4, <2>6, <2>7
<1>4. SUFFICES ASSUME NEW j \in ToSet(c) \cup (b + 1 .. MaxBorn)
               PROVE  a.edges[j] = Neighbours(c, j, a.known)
  BY DEF EdgesFit
<1>5. j \in Ids /\ j \in Nat /\ i \in Nat /\ o.edges[j] = Neighbours(c, j, o.known)
  BY <1>1 DEF EdgesFit
<1>6. /\ Compared(c, j, o.known) \in SUBSET Ids /\ Compared(c, j, a.known) \in SUBSET Ids
  BY <1>1 DEF Compared
<1>7. CASE j \in found
  <2>1. j < i /\ j # i /\ j \in ToSet(c) /\ Closeness[i][j] > 0
    BY <1>2, <1>7 DEF Candidates
  <2>2. Closeness[j][i] > 0
    BY <1>1, <1>5, <2>1, EdgeConstants
  <2>3. Compared(c, j, a.known) = Compared(c, j, o.known) \cup {i}
    BY <1>1, <1>3, <1>5, <2>1 DEF Compared
  <2>4. Candidates(j, Compared(c, j, a.known)) = Candidates(j, Compared(c, j, o.known)) \cup {i}
    BY <2>1, <2>2, <2>3 DEF Candidates
  <2>5. i \notin Candidates(j, Compared(c, j, o.known))
    BY <1>1, <1>5, <2>1 DEF Candidates, Compared
  <2> DEFINE A == Candidates(j, Compared(c, j, o.known))
  <2>6. A \in SUBSET Ids
    BY <1>6, CandidatesOf
  <2> HIDE DEF A
  <2>7. Nearest(j, Push(NearestOf(j, A), i)) = NearestOf(j, A \cup {i})
    BY <1>1, <1>5, <2>5, <2>6, PushFirst DEF A
  <2>8. QED
    BY <1>3, <1>5, <1>7, <2>4, <2>7 DEF Neighbours, A
<1>8. CASE j = i
  <2>1. Compared(c, j, a.known) = {k \in ToSet(c) : k < i}
    BY <1>1, <1>3, <1>8 DEF Compared
  <2>2. Neighbours(c, j, a.known) = NearestOf(i, found)
    BY <1>8, <2>1 DEF Neighbours
  <2>3. j \notin found
    BY <1>2, <1>5, <1>8
  <2>4. CASE found = {}
    <3>1. Compared(c, j, o.known) = {}
      BY <1>1, <1>8 DEF Compared
    <3>2. Candidates(j, Compared(c, j, o.known)) = {}
      BY <3>1 DEF Candidates
    <3>3. o.edges[j] = {} /\ NearestOf(i, found) = {}
      BY <1>5, <2>4, <3>2, NearestOfNone DEF Neighbours
    <3>4. QED
      BY <1>3, <1>5, <2>2, <2>3, <2>4, <3>3
  <2>5. CASE found # {}
    BY <1>3, <1>5, <1>8, <2>2, <2>3, <2>5
  <2>6. QED
    BY <2>4, <2>5
<1>9. CASE j \notin found /\ j # i
  <2>1. Candidates(j, Compared(c, j, a.known)) = Candidates(j, Compared(c, j, o.known))
    <3>1. CASE j < i
      <4>1. j \in ToSet(c)
        BY <1>1, <1>4, <1>5, <3>1
      <4>2. ~ (Closeness[i][j] > 0)
        BY <1>9, <3>1, <4>1 DEF Candidates
      <4>3. ~ (Closeness[j][i] > 0)
        BY <1>1, <1>5, <4>2, EdgeConstants
      <4>4. \A k \in ToSet(c) : k # i =>
              (k \in Compared(c, j, a.known) <=> k \in Compared(c, j, o.known))
        BY <1>3, <1>9 DEF Compared
      <4>5. \A k \in Compared(c, j, a.known) \cup Compared(c, j, o.known) : k \in ToSet(c)
        BY DEF Compared
      <4>6. QED
        BY <4>3, <4>4, <4>5 DEF Candidates
    <3>2. CASE i < j
      <4>1. Compared(c, j, a.known) = Compared(c, j, o.known)
        BY <1>1, <1>3, <1>5, <1>9, <3>2 DEF Compared
      <4>2. QED
        BY <4>1
    <3>3. QED
      BY <1>1, <1>5, <1>9, <3>1, <3>2
  <2>2. a.edges[j] = o.edges[j]
    BY <1>3, <1>5, <1>9
  <2>3. QED
    BY <1>5, <2>1, <2>2 DEF Neighbours
<1>10. QED
  BY <1>7, <1>8, <1>9

Covers(o, c) ==
    o.covered \in 1 .. Len(c) /\ c[o.covered] = o.head =>
        \A q \in 1 .. o.covered : c[q] \in o.known

OverlayFits(o, c, b, g) ==
    /\ o \in Overlays /\ o.known \subseteq 1 .. b /\ o.head <= b
    /\ o.covered = 0 => o.head = 0
    /\ Plain(o, c) => EdgesFit(o, c, b) /\ \A k \in o.known : k <= o.head
    /\ g => Covers(o, c)

\* The thoughts of the sidecar at the positions R are still to be added.
Due(o, s, c, g, R) ==
    /\ Plain(o, c) => \A q \in R : s[q] \in ToSet(c) =>
                        s[q] \in o.known \/ \A k \in o.known : k < s[q]
    /\ g => \A p \in DOMAIN s : s[p] \in o.known \/ p \in R

LEMMA SidecarFacts ==
    ASSUME NEW c, NEW b, ChainFits(c, b), NEW s, SidecarFits(s, c, b)
    PROVE  /\ Len(s) \in Nat /\ DOMAIN s = 1 .. Len(s) /\ s \in Seq(Ids) /\ s \in Seq(Nat)
           /\ \A p \in DOMAIN s : s[p] \in 1 .. b /\ s[p] \in Ids /\ s[p] \in Nat /\ p \in Nat
           /\ ToSet(s) \subseteq 1 .. b /\ ToSet(s) \subseteq Ids
           /\ \A p \in DOMAIN s : s[p] \in ToSet(s)
           /\ \A p \in DOMAIN s : Before(s, p) \subseteq ToSet(s)
<1>1. s \in Seq(1 .. b) /\ b \in Nat /\ 1 .. b \subseteq Ids /\ Ids \subseteq Nat
  BY ChainFacts, EdgeConstants DEF SidecarFits
<1>2. Len(s) \in Nat /\ DOMAIN s = 1 .. Len(s) /\ \A p \in 1 .. Len(s) : s[p] \in 1 .. b
  BY <1>1
<1>3. s \in Seq(Ids) /\ s \in Seq(Nat)
  BY <1>1
<1>4. \A p \in 1 .. Len(s) : Before(s, p) \subseteq ToSet(s)
  BY <1>2 DEF Before, ToSet
<1>5. QED
  BY <1>1, <1>2, <1>3, <1>4 DEF ToSet

\* a is o with the next of the sidecar added and covered; those of R remain.
Grown(a, o, s, c, b, g, R, p) ==
    /\ OverlayFits(a, c, b, g) /\ Due(a, s, c, g, R)
    /\ a.known = o.known \cup {s[p]} /\ (Plain(a, c) => Plain(o, c))

LEMMA GrownOverlay ==
    ASSUME NEW c, NEW b, ChainFits(c, b), NEW s, SidecarFits(s, c, b), NEW g \in BOOLEAN,
           NEW o, OverlayFits(o, c, b, g), NEW R, NEW p \in DOMAIN s, R \subseteq DOMAIN s,
           \A q \in R : p <= q, Due(o, s, c, g, R \cup {p}),
           NEW a, a = SetCoverage(AddThought(o, s, p, s[p]), p, s[p])
    PROVE  Grown(a, o, s, c, b, g, R, p)
<1> DEFINE found == Candidates(s[p], Before(s, p))
<1>1. PICK i : i = s[p]
  OBVIOUS
<1>2. /\ i \in 1 .. b /\ i \in Ids /\ i \in Nat /\ p \in Nat /\ p > 0 /\ b \in Nat /\ i <= b
      /\ found \in SUBSET Ids
  <2>1. Before(s, p) \in SUBSET Ids
    BY SidecarFacts
  <2>2. found \in SUBSET Ids
    BY <2>1, CandidatesOf
  <2>3. i \in 1 .. b /\ i \in Ids /\ i \in Nat /\ p \in 1 .. Len(s) /\ Len(s) \in Nat /\ b \in Nat
    BY <1>1, SidecarFacts, ChainFacts
  <2>4. QED
    BY <2>2, <2>3
<1> HIDE DEF found
<1>3. o \in Overlays
  BY DEF OverlayFits
<1>4. PICK x : x = ApplyCandidates(o, i, found)
  OBVIOUS
<1>5. x \in Overlays
  BY <1>2, <1>3, <1>4, AppliedOverlay
<1>6. x.known = o.known \cup {i} /\ x.twice = o.twice \cup ({i} \cap o.known)
  BY <1>3, <1>4 DEF ApplyCandidates, Overlays
<1>7. a = SetCoverage(x, p, i)
  BY <1>1, <1>4 DEF AddThought, found
<1>8. /\ a \in Overlays /\ a.covered = p /\ a.head = i /\ a.edges = x.edges
      /\ a.known = o.known \cup {i} /\ a.twice = o.twice \cup ({i} \cap o.known)
  <2>1. a \in Overlays /\ a.covered = p /\ a.head = i /\ a.edges = x.edges
        /\ a.known = x.known /\ a.twice = x.twice
    BY <1>2, <1>5, <1>7 DEF SetCoverage, Overlays
  <2>2. QED
    BY <1>6, <2>1
<1>9. Plain(a, c) => Plain(o, c) /\ i \notin o.known /\ i \in ToSet(c)
  BY <1>8 DEF Plain
<1>10. ASSUME Plain(a, c)
       PROVE  (\A k \in o.known : k < i) /\ i \in ToSet(c) /\ i \notin o.known /\ Plain(o, c)
  BY <1>1, <1>9, <1>10 DEF Due
<1>11. ASSUME Plain(a, c) PROVE EdgesFit(a, c, b)
  <2>1. found = Candidates(i, {j \in ToSet(c) : j < i})
    <3>1. s[p] \in ToSet(c)
      BY <1>1, <1>10, <1>11
    <3>2. Before(s, p) = {j \in ToSet(c) : j < s[p]}
      BY <3>1, BeforeInSidecar
    <3>3. QED
      BY <1>1, <3>2 DEF found
  <2>2. EdgesFit(o, c, b) /\ Plain(o, c)
    BY <1>10, <1>11 DEF OverlayFits
  <2>3. EdgesFit(x, c, b)
    BY <1>3, <1>4, <1>10, <1>11, <2>1, <2>2, AddedFits
  <2>4. QED
    BY <1>6, <1>8, <2>3 DEF EdgesFit
<1>12. ASSUME g PROVE Covers(a, c)
  <2>1. SUFFICES ASSUME p \in 1 .. Len(c), c[p] = i, NEW q \in 1 .. p
                 PROVE  c[q] \in o.known \cup {i}
    BY <1>8 DEF Covers
  <2>2. i \in ToSet(c)
    BY <2>1, ChainFacts
  <2>3. c[q] = s[q]
    BY <1>1, <2>2 DEF SidecarFits, Aligned
  <2>4. q \in DOMAIN s
    BY <1>2, SidecarFacts
  <2>5. s[q] \in o.known \/ q \in R \cup {p}
    BY <1>12, <2>4 DEF Due
  <2>6. q \in R => q = p
    BY <1>2
  <2>7. QED
    BY <1>1, <2>3, <2>5, <2>6
<1>13. ASSUME Plain(a, c), NEW q \in R, s[q] \in ToSet(c)
       PROVE  s[q] \in a.known \/ \A k \in a.known : k < s[q]
  <2>1. s[q] \in o.known \/ \A k \in o.known : k < s[q]
    BY <1>10, <1>13 DEF Due
  <2>2. CASE q = p
    BY <1>1, <1>8, <2>2
  <2>3. CASE q # p
    <3>1. p < q /\ q \in DOMAIN s
      BY <2>3, SidecarFacts
    <3>2. i < s[q]
      BY <1>1, <3>1 DEF SidecarFits, Rises
    <3>3. QED
      BY <1>8, <2>1, <3>2
  <2>4. QED
    BY <2>2, <2>3
<1>14. ASSUME g, NEW q \in DOMAIN s PROVE s[q] \in a.known \/ q \in R
  <2>1. s[q] \in o.known \/ q \in R \/ q = p
    BY <1>14 DEF Due
  <2>2. QED
    BY <1>1, <1>8, <2>1
<1>15. Due(a, s, c, g, R)
  BY <1>13, <1>14 DEF Due
<1>16. a.known \subseteq 1 .. b
  BY <1>2, <1>8 DEF OverlayFits
<1>17. Plain(a, c) => \A k \in a.known : k <= a.head
  <2>1. \A k \in a.known : k \in Nat
    BY <1>2, <1>16
  <2>2. QED
    BY <1>2, <1>8, <1>10, <2>1
<1>18. OverlayFits(a, c, b, g)
  BY <1>2, <1>8, <1>11, <1>12, <1>16, <1>17 DEF OverlayFits
<1>19. QED
  BY <1>1, <1>8, <1>9, <1>15, <1>18 DEF Grown

LEMMA LastOfChain ==
    ASSUME NEW c, NEW b, ChainFits(c, b), Len(c) > 0
    PROVE  /\ Last(c) = c[Len(c)] /\ Last(c) \in 1 .. b /\ Last(c) \in Nat /\ Last(c) <= b
           /\ \A k \in ToSet(c) : k <= Last(c)
<1>1. /\ Len(c) \in Nat /\ Len(c) \in 1 .. Len(c) /\ DOMAIN c = 1 .. Len(c) /\ b \in Nat
      /\ \A p \in 1 .. Len(c) : c[p] \in 1 .. b /\ c[p] \in Nat
  BY ChainFacts
<1>2. Last(c) = c[Len(c)]
  BY DEF Last
<1>3. \A p \in 1 .. Len(c) : c[p] <= c[Len(c)]
  BY <1>1 DEF ChainFits, Rises
<1>4. QED
  BY <1>1, <1>2, <1>3 DEF ToSet

LEMMA NothingCompared ==
    ASSUME NEW c, NEW b, ChainFits(c, b), NEW i, NEW added,
           \A j \in ToSet(c) : ~ (j < i /\ i \in added) /\ ~ (i < j /\ j \in added)
    PROVE  Neighbours(c, i, added) = {}
<1>1. Candidates(i, Compared(c, i, added)) = {}
  BY DEF Candidates, Compared
<1>2. QED
  BY <1>1, NearestOfNone DEF Neighbours

\* Nothing compared yet.
LEMMA EmptyFits ==
    ASSUME NEW c, NEW b, ChainFits(c, b), NEW n \in Nat, NEW i \in Nat, i <= b, n = 0 => i = 0,
           NEW a, a = SetCoverage(NewOverlay, n, i)
    PROVE  OverlayFits(a, c, b, FALSE) /\ a.known = {}
<1>1. /\ a \in Overlays /\ a.covered = n /\ a.head = i /\ a.known = {}
      /\ \A j \in Ids : a.edges[j] = {}
  <2>1. PICK x : x = NewOverlay
    OBVIOUS
  <2>2. x \in Overlays /\ x.known = {} /\ \A j \in Ids : x.edges[j] = {}
    BY <2>1, EmptyOverlay
  <2>3. a \in Overlays /\ a.covered = n /\ a.head = i /\ a.known = x.known /\ a.edges = x.edges
    BY <2>1, <2>2 DEF SetCoverage, Overlays
  <2>4. QED
    BY <2>2, <2>3
<1>2. \A j \in ToSet(c) \cup (b + 1 .. MaxBorn) : Neighbours(c, j, {}) = {} /\ j \in Ids
  <2>1. TAKE j \in ToSet(c) \cup (b + 1 .. MaxBorn)
  <2>2. Neighbours(c, j, {}) = {}
    BY NothingCompared
  <2>3. QED
    BY <2>2, ChainFacts
<1>3. EdgesFit(a, c, b)
  BY <1>1, <1>2 DEF EdgesFit
<1>4. QED
  BY <1>1, <1>3 DEF OverlayFits

\* Built from a sidecar, an overlay has what the sidecar has.
LEMMA BuiltFits ==
    ASSUME NEW c, NEW b, ChainFits(c, b), NEW s, SidecarFits(s, c, b), NEW g \in BOOLEAN,
           g => s = c,
           NEW a, a = SetCoverage(BuildFromSidecar(s), Len(c), Head0(c))
    PROVE  OverlayFits(a, c, b, g) /\ a.known = ToSet(s)
<1> DEFINE e == [i \in Ids |-> IF i \in ToSet(s) THEN NearestOf(i, Candidates(i, ToSet(s))) ELSE {}]
<1>1. /\ Len(c) \in Nat /\ Head0(c) \in Nat /\ Head0(c) <= b /\ (Len(c) = 0 => Head0(c) = 0)
      /\ \A k \in ToSet(c) : k <= Head0(c)
  <2>1. Len(c) \in Nat /\ b \in Nat /\ c \in Seq(Nat)
    BY ChainFacts
  <2>2. CASE c = <<>>
    BY <2>1, <2>2 DEF Head0, ToSet
  <2>3. CASE c # <<>>
    <3>1. Len(c) > 0
      BY <2>1, <2>3
    <3>2. Head0(c) = Last(c)
      BY <2>3 DEF Head0
    <3>3. QED
      BY <2>1, <3>1, <3>2, LastOfChain
  <2>4. QED
    BY <2>2, <2>3
<1>2. e \in [Ids -> EdgeLists]
  <2>1. {} \in EdgeLists
    BY FS_EmptySet DEF EdgeLists
  <2>2. ASSUME NEW i \in Ids PROVE NearestOf(i, Candidates(i, ToSet(s))) \in EdgeLists
    <3>1. Candidates(i, ToSet(s)) \in SUBSET Ids
      BY SidecarFacts, CandidatesOf
    <3>2. QED
      BY <3>1, NearestOfLists
  <2>3. QED
    BY <2>1, <2>2
<1>3. \A i \in Ids : e[i] = IF i \in ToSet(s) THEN NearestOf(i, Candidates(i, ToSet(s))) ELSE {}
  OBVIOUS
<1>4. BuildFromSidecar(s) = [NewOverlay EXCEPT !.edges = e, !.known = ToSet(s)]
  BY DEF BuildFromSidecar
<1> HIDE DEF e
<1>5. ToSet(s) \subseteq Ids /\ ToSet(s) \subseteq 1 .. b
  BY SidecarFacts
<1>6. /\ a \in Overlays /\ a.edges = e /\ a.known = ToSet(s) /\ a.twice = {}
      /\ a.covered = Len(c) /\ a.head = Head0(c)
  <2>1. PICK x : x = BuildFromSidecar(s)
    OBVIOUS
  <2>2. x \in Overlays /\ x.edges = e /\ x.known = ToSet(s) /\ x.twice = {}
    BY <1>2, <1>4, <1>5, <2>1, EmptyOverlay DEF NewOverlay, Overlays
  <2>3. QED
    BY <1>1, <2>1, <2>2 DEF SetCoverage, Overlays
<1>7. ASSUME Plain(a, c) PROVE EdgesFit(a, c, b)
  <2>1. SUFFICES ASSUME NEW i \in ToSet(c) \cup (b + 1 .. MaxBorn)
                 PROVE  e[i] = Neighbours(c, i, ToSet(s))
    BY <1>6 DEF EdgesFit
  <2>2. i \in Ids /\ i \in Nat /\ b \in Nat /\ Ids \subseteq Nat /\ ToSet(c) \subseteq Ids
        /\ \A j \in ToSet(c) : j <= b
    BY ChainFacts, EdgeConstants
  <2>3. ToSet(s) \subseteq ToSet(c)
    BY <1>6, <1>7 DEF Plain
  <2>4. ASSUME NEW j \in ToSet(s), NEW k \in ToSet(c), k < j PROVE k \in ToSet(s)
    <3>1. PICK p \in DOMAIN s : j = s[p]
      BY DEF ToSet
    <3>2. Before(s, p) = {x \in ToSet(c) : x < s[p]}
      BY <2>3, <2>4, <3>1, BeforeInSidecar
    <3>3. QED
      BY <2>4, <3>1, <3>2, SidecarFacts
  <2>5. CASE i \in ToSet(s)
    <3>1. \A k \in ToSet(c) : (k < i /\ i \in ToSet(s)) \/ (i < k /\ k \in ToSet(s))
                              <=> k \in ToSet(s) /\ k # i
      BY <2>2, <2>4, <2>5
    <3>2. Compared(c, i, ToSet(s)) = ToSet(s) \ {i}
      BY <2>3, <3>1 DEF Compared
    <3>3. Candidates(i, Compared(c, i, ToSet(s))) = Candidates(i, ToSet(s))
      BY <3>2 DEF Candidates
    <3>4. QED
      BY <1>3, <2>2, <2>5, <3>3 DEF Neighbours
  <2>6. CASE i \notin ToSet(s)
    <3>1. \A k \in ToSet(c) : ~ (i < k /\ k \in ToSet(s))
      <4>1. CASE i \in ToSet(c)
        BY <2>4, <2>6, <4>1
      <4>2. CASE i \in b + 1 .. MaxBorn
        BY <2>2, <4>2
      <4>3. QED
        BY <4>1, <4>2
    <3>2. Neighbours(c, i, ToSet(s)) = {}
      BY <2>6, <3>1, NothingCompared
    <3>3. QED
      BY <1>3, <2>2, <2>6, <3>2
  <2>7. QED
    BY <2>5, <2>6
<1>8. Plain(a, c) => \A k \in a.known : k <= a.head
  BY <1>1, <1>6 DEF Plain
<1>9. ASSUME g PROVE Covers(a, c)
  <2>1. \A q \in 1 .. Len(c) : c[q] \in ToSet(s)
    BY <1>9, ChainFacts
  <2>2. QED
    BY <1>6, <2>1 DEF Covers
<1>10. QED
  BY <1>1, <1>5, <1>6, <1>7, <1>8, <1>9 DEF OverlayFits

-----------------------------------------------------------------------------
(* The replay of what an overlay misses. *)

ReplayOne(o, c, s, p) == IF c[p] \in ToSet(s) THEN AddThought(o, s, p, c[p]) ELSE o
\* f replays the positions after m up to n.
Replaying(f, o, c, s, m, n) ==
    f = [p \in m .. n |-> IF p = m THEN o ELSE ReplayOne(f[p - 1], c, s, p)]

LEMMA Replays ==
    ASSUME NEW o, NEW c, NEW s, NEW m \in Nat, NEW n \in Nat, m <= n
    PROVE  \E f : Replaying(f, o, c, s, m, n)
<1> DEFINE T == {k \in m .. n : \E f : Replaying(f, o, c, s, m, k)}
<1>1. m \in T
  <2>1. Replaying([p \in m .. m |-> o], o, c, s, m, m)
    BY DEF Replaying
  <2>2. QED
    BY <2>1
<1>2. ASSUME NEW k \in m .. n - 1, k \in T PROVE k + 1 \in T
  <2>1. PICK f : Replaying(f, o, c, s, m, k)
    BY <1>2
  <2> DEFINE h == [p \in m .. k + 1 |-> IF p <= k THEN f[p] ELSE ReplayOne(f[k], c, s, k + 1)]
  <2>2. \A p \in m .. k + 1 : h[p] = IF p = m THEN o ELSE ReplayOne(h[p - 1], c, s, p)
    <3>1. TAKE p \in m .. k + 1
    <3>2. CASE p = k + 1
      BY <3>2, k \in Nat
    <3>3. CASE p = m
      BY <3>3, <2>1 DEF Replaying
    <3>4. CASE p \in m + 1 .. k
      <4>1. h[p] = f[p] /\ h[p - 1] = f[p - 1] /\ p # m
        BY <3>4
      <4>2. f[p] = ReplayOne(f[p - 1], c, s, p)
        BY <3>4, <2>1 DEF Replaying
      <4> HIDE DEF h
      <4>3. QED
        BY <3>4, <4>1, <4>2
    <3>5. QED
      BY <3>2, <3>3, <3>4
  <2>3. Replaying(h, o, c, s, m, k + 1)
    BY <2>2 DEF Replaying
  <2> HIDE DEF h
  <2>4. QED
    BY <2>3
<1> HIDE DEF T
<1>3. \A k \in m .. n : k \in T
  BY <1>1, <1>2, UpFrom
<1>4. QED
  BY <1>3 DEF T

LEMMA CatchUpIs ==
    ASSUME NEW o \in Overlays, NEW S, NEW c \in Seq(S), NEW s, GoesWith(o, c), o.covered # Len(c)
    PROVE  \E f : /\ Replaying(f, o, c, s, o.covered, Len(c))
                  /\ CatchUpOverlay(o, c, s) = SetCoverage(f[Len(c)], Len(c), Last(c))
<1>1. \E f : Replaying(f, o, c, s, o.covered, Len(c))
  <2>1. o.covered \in Nat /\ Len(c) \in Nat /\ o.covered <= Len(c)
    BY DEF GoesWith, Overlays
  <2>2. QED
    BY <2>1, Replays
<1> DEFINE f == CHOOSE f : Replaying(f, o, c, s, o.covered, Len(c))
<1>2. Replaying(f, o, c, s, o.covered, Len(c))
  BY <1>1
<1>3. CatchUpOverlay(o, c, s) = SetCoverage(f[Len(c)], Len(c), Last(c))
  BY DEF CatchUpOverlay, Replaying, ReplayOne
<1> HIDE DEF f
<1>4. QED
  BY <1>2, <1>3

\* An overlay that was replayed up to position p.
ReplayedTo(x, o, c, s, b, g, p) ==
    /\ x \in Overlays /\ x.known \subseteq 1 .. b /\ x.known \subseteq o.known \cup ToSet(s)
    /\ Plain(x, c) => /\ Plain(o, c) /\ EdgesFit(x, c, b)
                      /\ \A k \in x.known : \A q \in 1 .. Len(c) : p < q => k < c[q]
    /\ g => \A q \in 1 .. p : c[q] \in x.known

LEMMA ReplayedOne ==
    ASSUME NEW c, NEW b, ChainFits(c, b), NEW s, SidecarFits(s, c, b), NEW g \in BOOLEAN,
           g => s = c, NEW o, NEW p \in 1 .. Len(c), NEW x, ReplayedTo(x, o, c, s, b, g, p - 1),
           NEW y, y = ReplayOne(x, c, s, p)
    PROVE  ReplayedTo(y, o, c, s, b, g, p)
<1>1. PICK i : i = c[p]
  OBVIOUS
<1>2. /\ i \in ToSet(c) /\ i \in Ids /\ i \in 1 .. b /\ i \in Nat /\ p \in Nat /\ Len(c) \in Nat
      /\ DOMAIN c = 1 .. Len(c) /\ \A q \in 1 .. Len(c) : c[q] \in Nat
  BY <1>1, ChainFacts
<1>3. \A q \in 1 .. Len(c) : p < q => i < c[q]
  BY <1>1, <1>2 DEF ChainFits, Rises
<1>4. CASE i \notin ToSet(s)
  <2>1. y = x
    BY <1>1, <1>4 DEF ReplayOne
  <2>2. ~ g
    BY <1>2, <1>4
  <2>3. \A q \in 1 .. Len(c) : p < q => p - 1 < q
    BY <1>2
  <2>4. QED
    BY <2>1, <2>2, <2>3 DEF ReplayedTo
<1>5. CASE i \in ToSet(s)
  <2> DEFINE found == Candidates(i, Before(s, p))
  <2>1. y = ApplyCandidates(x, i, found)
    BY <1>1, <1>5 DEF ReplayOne, AddThought
  <2>2. PICK t \in DOMAIN s : s[t] = i
    BY <1>5 DEF ToSet
  <2>3. t = p
    <3>1. t \in 1 .. Len(c) /\ c[t] = i
      BY <1>2, <2>2, BeforeInSidecar
    <3>2. ~ (t < p) /\ ~ (p < t)
      BY <1>1, <1>2, <3>1 DEF ChainFits, Rises
    <3>3. QED
      BY <1>2, <3>1, <3>2
  <2>4. Before(s, p) = {j \in ToSet(c) : j < i}
    BY <1>2, <2>2, <2>3, BeforeInSidecar
  <2>5. found \in SUBSET Ids
    <3>1. Before(s, p) \in SUBSET Ids
      BY <2>4, ChainFacts
    <3>2. QED
      BY <3>1, CandidatesOf
  <2>6. found = Candidates(i, {j \in ToSet(c) : j < i})
    BY <2>4
  <2> HIDE DEF found
  <2>7. x \in Overlays
    BY DEF ReplayedTo
  <2>8. y \in Overlays
    BY <1>2, <2>1, <2>5, <2>7, AppliedOverlay
  <2>9. y.known = x.known \cup {i} /\ y.twice = x.twice \cup ({i} \cap x.known)
    BY <2>1, <2>7 DEF ApplyCandidates, Overlays
  <2>10. ASSUME Plain(y, c)
         PROVE  /\ Plain(x, c) /\ Plain(o, c) /\ EdgesFit(y, c, b)
                /\ \A k \in y.known : \A q \in 1 .. Len(c) : p < q => k < c[q]
    <3>1. Plain(x, c)
      BY <2>9, <2>10 DEF Plain
    <3>2. Plain(o, c) /\ EdgesFit(x, c, b)
      BY <3>1 DEF ReplayedTo
    <3>3. \A k \in x.known : \A q \in 1 .. Len(c) : p - 1 < q => k < c[q]
      BY <3>1 DEF ReplayedTo
    <3>4. \A k \in x.known : k < i
      BY <1>1, <1>2, <3>3
    <3>5. EdgesFit(y, c, b)
      BY <1>2, <2>1, <2>6, <2>7, <3>1, <3>2, <3>4, AddedFits
    <3>6. \A q \in 1 .. Len(c) : p < q => p - 1 < q
      BY <1>2
    <3>7. QED
      BY <1>3, <2>9, <3>1, <3>2, <3>3, <3>5, <3>6
  <2>11. ASSUME g, NEW q \in 1 .. p PROVE c[q] \in y.known
    <3>1. q = p \/ q \in 1 .. p - 1
      BY <1>2
    <3>2. QED
      BY <1>1, <2>9, <2>11, <3>1 DEF ReplayedTo
  <2>12. y.known \subseteq 1 .. b /\ y.known \subseteq o.known \cup ToSet(s)
    BY <1>2, <1>5, <2>9 DEF ReplayedTo
  <2>13. QED
    BY <2>8, <2>10, <2>11, <2>12 DEF ReplayedTo
<1>6. QED
  BY <1>4, <1>5

\* A saved overlay that goes with the chain fits once it has caught up.
LEMMA CaughtUpFits ==
    ASSUME NEW c, NEW b, ChainFits(c, b), NEW s, SidecarFits(s, c, b), NEW g \in BOOLEAN,
           g => s = c, NEW o, OverlayFits(o, c, b, g), GoesWith(o, c),
           NEW a, a = CatchUpOverlay(o, c, s)
    PROVE  /\ OverlayFits(a, c, b, g) /\ (Plain(a, c) => Plain(o, c))
           /\ a.known \subseteq o.known \cup ToSet(s)
           /\ g => \A q \in 1 .. Len(c) : c[q] \in a.known
<1>1. /\ Len(c) \in Nat /\ DOMAIN c = 1 .. Len(c) /\ c \in Seq(Nat) /\ b \in Nat
      /\ \A q \in 1 .. Len(c) : c[q] \in 1 .. b /\ c[q] \in Nat
  BY ChainFacts
<1>2. o \in Overlays /\ o.covered \in Nat /\ o.head \in Nat /\ o.covered <= Len(c) /\ o.known \subseteq 1 .. b
  BY DEF OverlayFits, Overlays, GoesWith
<1>3. CASE o.covered = Len(c)
  <2>1. a = o
    BY <1>3 DEF CatchUpOverlay
  <2>2. ASSUME g, NEW q \in 1 .. Len(c) PROVE c[q] \in a.known
    <3>1. o.covered \in 1 .. Len(c) /\ c[o.covered] = o.head
      BY <1>1, <1>3 DEF GoesWith
    <3>2. QED
      BY <1>3, <2>1, <2>2, <3>1 DEF OverlayFits, Covers
  <2>3. QED
    BY <2>1, <2>2
<1>4. CASE o.covered # Len(c)
  <2>1. PICK f : /\ Replaying(f, o, c, s, o.covered, Len(c))
                 /\ a = SetCoverage(f[Len(c)], Len(c), Last(c))
    BY <1>1, <1>2, <1>4, CatchUpIs
  <2>2. PICK m \in Nat : m = o.covered
    BY <1>2
  <2>3. PICK n \in Nat : n = Len(c)
    BY <1>1
  <2>4. m <= n /\ m # n /\ n \in m .. n /\ n > 0
    BY <1>2, <1>4, <2>2, <2>3
  <2>5. /\ f[m] = o
        /\ \A p \in m + 1 .. n : f[p] = ReplayOne(f[p - 1], c, s, p)
    BY <2>1, <2>2, <2>3, <2>4 DEF Replaying
  <2>6. ReplayedTo(o, o, c, s, b, g, m)
    <3>1. ASSUME Plain(o, c), NEW k \in o.known, NEW q \in 1 .. Len(c), m < q PROVE k < c[q]
      <4>1. k <= o.head /\ k \in 1 .. b
        BY <1>2, <3>1 DEF OverlayFits
      <4>2. m > 0
        BY <1>1, <1>2, <2>2, <4>1 DEF OverlayFits
      <4>3. c[m] = o.head /\ m \in 1 .. Len(c)
        BY <1>2, <2>2, <4>2 DEF GoesWith
      <4>4. c[m] < c[q]
        BY <1>1, <3>1, <4>3 DEF ChainFits, Rises
      <4>5. QED
        BY <1>1, <3>1, <4>1, <4>3, <4>4
    <3>2. ASSUME g, NEW q \in 1 .. m PROVE c[q] \in o.known
      <4>1. m > 0
        BY <2>2, <3>2
      <4>2. c[m] = o.head /\ m \in 1 .. Len(c)
        BY <1>2, <2>2, <4>1 DEF GoesWith
      <4>3. QED
        BY <2>2, <3>2, <4>2 DEF OverlayFits, Covers
    <3>3. QED
      BY <1>2, <3>1, <3>2 DEF OverlayFits, ReplayedTo
  <2> DEFINE T == {p \in m .. n : ReplayedTo(f[p], o, c, s, b, g, p)}
  <2>7. m \in T
    BY <2>4, <2>5, <2>6
  <2>8. ASSUME NEW p \in m .. n - 1, p \in T PROVE p + 1 \in T
    <3>1. PICK r : r = p + 1
      OBVIOUS
    <3>2. r \in 1 .. Len(c) /\ r - 1 = p /\ r \in m + 1 .. n /\ r \in m .. n
      BY <2>3, <3>1
    <3>3. f[r] = ReplayOne(f[p], c, s, r)
      BY <2>5, <3>2
    <3>4. ReplayedTo(f[p], o, c, s, b, g, r - 1)
      BY <2>8, <3>2
    <3>5. ReplayedTo(f[r], o, c, s, b, g, r)
      BY <3>2, <3>3, <3>4, ReplayedOne
    <3>6. QED
      BY <3>1, <3>2, <3>5
  <2> HIDE DEF T
  <2>9. n \in T
    BY <2>4, <2>7, <2>8, UpFrom
  <2>10. PICK x : x = f[n]
    OBVIOUS
  <2>11. ReplayedTo(x, o, c, s, b, g, n)
    BY <2>9, <2>10 DEF T
  <2>12. Last(c) \in Nat /\ Last(c) <= b /\ Last(c) = c[n] /\ \A k \in ToSet(c) : k <= Last(c)
    BY <2>3, <2>4, LastOfChain
  <2>13. /\ a \in Overlays /\ a.covered = n /\ a.head = Last(c) /\ a.edges = x.edges
         /\ a.known = x.known /\ a.twice = x.twice
    <3>1. x \in Overlays
      BY <2>11 DEF ReplayedTo
    <3>2. a = SetCoverage(x, n, Last(c))
      BY <2>1, <2>3, <2>10
    <3>3. QED
      BY <2>12, <3>1, <3>2 DEF SetCoverage, Overlays
  <2>14. Plain(a, c) => Plain(x, c)
    BY <2>13 DEF Plain
  <2>15. Plain(a, c) => EdgesFit(a, c, b) /\ Plain(o, c)
    BY <2>11, <2>13, <2>14 DEF ReplayedTo, EdgesFit
  <2>16. Plain(a, c) => \A k \in a.known : k <= a.head
    BY <2>12, <2>13 DEF Plain
  <2>17. g => \A q \in 1 .. n : c[q] \in a.known
    BY <2>11, <2>13 DEF ReplayedTo
  <2>18. a.known \subseteq 1 .. b /\ a.known \subseteq o.known \cup ToSet(s)
    BY <2>11, <2>13 DEF ReplayedTo
  <2>19. OverlayFits(a, c, b, g)
    BY <2>4, <2>12, <2>13, <2>15, <2>16, <2>17, <2>18 DEF OverlayFits, Covers
  <2>20. QED
    BY <2>3, <2>15, <2>17, <2>18, <2>19
<1>5. QED
  BY <1>3, <1>4

-----------------------------------------------------------------------------
(* The open chain. *)

EdgeHandles ==
    [managed : {"closed", "none", "auto", "search"}, sidecar : Seq(Ids), waiting : SUBSET Nat,
     rebuild : BOOLEAN, overlay : Overlays \cup {NoOverlay}, queue : Seq(Nat),
     job : EdgeJobs \cup {NoJob}, unsaved : Nat, dirty : Overlays \cup {NoOverlay},
     saved : Overlays \cup {NoOverlay}]

Works(h) == h.managed \in {"auto", "search"}
Follows(s, c) == \A p \in DOMAIN s : p \in DOMAIN c /\ c[p] = s[p]

KeptFits(o, m, s, c, b, g) ==
    o # NoOverlay => /\ OverlayFits(o, c, b, g)
                     /\ m = "auto" /\ Plain(o, c) => o.known \subseteq ToSet(s)

HandleFits(h, c, b, g) ==
    /\ h \in EdgeHandles
    /\ SidecarFits(h.sidecar, c, b) /\ (~ Works(h) => h.sidecar = <<>>)
    /\ h.waiting \subseteq 1 .. Len(c)
    /\ IF h.managed = "auto" THEN Follows(h.sidecar, c) ELSE h.waiting = {}
    /\ KeptFits(h.overlay, h.managed, h.sidecar, c, b, g)
    /\ KeptFits(h.dirty, h.managed, h.sidecar, c, b, g)
    /\ KeptFits(h.saved, h.managed, h.sidecar, c, b, g)

\* The thoughts at the positions R are still to be added to the overlay.
ToCome(h, c, g, R) ==
    /\ R \subseteq 1 .. Len(c) /\ R \subseteq DOMAIN h.sidecar
    /\ h.overlay # NoOverlay => Due(h.overlay, h.sidecar, c, g, R)

ItemsOf(h) == IF h.job = NoJob THEN <<>> ELSE h.job.items
InLine(h) == ToSet(ItemsOf(h)) \cup ToSet(h.queue)

Ordered(s) == \A r, t \in DOMAIN s : r < t => s[r] <= s[t]

\* What the scan found is right in the sidecar it is a scan of.
JobFits(job, s) ==
    /\ ~ job.stale /\ DOMAIN job.found = DOMAIN job.items
    /\ \A k \in DOMAIN job.items :
         job.found[k] = Candidates(s[job.items[k]], Before(s, Min2(job.items[k], job.sealed + 1)))

WorkFits(h) ==
    /\ h.overlay = NoOverlay => h.queue = <<>> /\ h.job = NoJob
    /\ Ordered(ItemsOf(h)) /\ Ordered(h.queue)
    /\ \A p \in ToSet(ItemsOf(h)), q \in ToSet(h.queue) : p <= q
    /\ h.job # NoJob => JobFits(h.job, h.sidecar)

LineFits(h, g) ==
    /\ g => h.managed # "search" /\ (h.managed = "auto" => h.overlay # NoOverlay)
    /\ ~ Works(h) /\ h.job # NoJob => h.job.stale
    /\ g /\ h.job # NoJob => h.job.state # "failed"
    /\ Works(h) => WorkFits(h)

Good(h, c, b, g) ==
    HandleFits(h, c, b, g) /\ (Works(h) => ToCome(h, c, g, InLine(h))) /\ LineFits(h, g)

LEMMA AbsentIsNone ==
    NoOverlay \notin Overlays /\ NoJob \notin EdgeJobs /\ NoOverlay = Absent /\ NoJob = Absent
  BY OverlayAssumption DEF NoOverlay, NoJob

LEMMA EmptyLine ==
    /\ ToSet(<<>>) = {} /\ Ordered(<<>>)
    /\ \A h : h.job = NoJob => ItemsOf(h) = <<>>
  BY DEF ToSet, Ordered, ItemsOf

\* With nothing in line there is nothing to ask of the line.
LEMMA NobodyInLine ==
    ASSUME NEW h, h.queue = <<>>, h.job = NoJob
    PROVE  InLine(h) = {} /\ WorkFits(h)
  BY EmptyLine DEF InLine, WorkFits

OverlayNoted(n, h) ==
    /\ n.managed = h.managed /\ n.sidecar = h.sidecar /\ n.waiting = h.waiting
    /\ n.rebuild = h.rebuild /\ n.overlay = h.overlay /\ n.queue = h.queue /\ n.job = h.job
    /\ n.saved = h.saved /\ n.dirty \in {h.dirty, h.overlay}

LEMMA NoteUpdatedIs ==
    ASSUME NEW h \in EdgeHandles, NEW n, n = NoteUpdated(h)
    PROVE  n \in EdgeHandles /\ OverlayNoted(n, h)
<1>1. CASE h.unsaved + 1 < SaveEvery
  <2>1. n = [h EXCEPT !.unsaved = h.unsaved + 1]
    BY <1>1 DEF NoteUpdated
  <2>2. QED
    BY <2>1 DEF EdgeHandles, OverlayNoted
<1>2. CASE ~ (h.unsaved + 1 < SaveEvery)
  <2>1. n = [h EXCEPT !.unsaved = 0, !.dirty = h.overlay]
    BY <1>2 DEF NoteUpdated
  <2>2. n \in EdgeHandles
    <3>1. PICK x \in Overlays \cup {NoOverlay} : x = h.overlay
      BY DEF EdgeHandles
    <3>2. n = [h EXCEPT !.unsaved = 0, !.dirty = x]
      BY <2>1, <3>1
    <3>3. PICK y : y = [h EXCEPT !.unsaved = 0]
      OBVIOUS
    <3>4. y \in EdgeHandles
      BY <3>3 DEF EdgeHandles
    <3>5. n = [y EXCEPT !.dirty = x]
      BY <3>2, <3>3 DEF EdgeHandles
    <3>6. QED
      BY <3>4, <3>5 DEF EdgeHandles
  <2>3. OverlayNoted(n, h)
    BY <2>1 DEF EdgeHandles, OverlayNoted
  <2>4. QED
    BY <2>2, <2>3
<1>3. QED
  BY <1>1, <1>2

\* n is h with the next in line added; those of R remain.
Inlined(n, h, c, b, g, R) ==
    /\ HandleFits(n, c, b, g) /\ ToCome(n, c, g, R) /\ n.overlay # NoOverlay
    /\ n.managed = h.managed /\ n.sidecar = h.sidecar /\ n.waiting = h.waiting
    /\ n.rebuild = h.rebuild /\ n.queue = h.queue /\ n.job = h.job

LEMMA InlineKeeps ==
    ASSUME NEW c, NEW b, ChainFits(c, b), NEW g \in BOOLEAN, NEW h, HandleFits(h, c, b, g),
           Works(h), h.overlay # NoOverlay, NEW R, NEW p, ToCome(h, c, g, R \cup {p}),
           \A q \in R : p <= q, NEW n, n = ApplyInline(h, p)
    PROVE  Inlined(n, h, c, b, g, R)
<1>1. PICK s : s = h.sidecar
  OBVIOUS
<1>2. PICK o : o = h.overlay
  OBVIOUS
<1>3. /\ SidecarFits(s, c, b) /\ OverlayFits(o, c, b, g) /\ p \in DOMAIN s /\ R \subseteq DOMAIN s
      /\ Due(o, s, c, g, R \cup {p}) /\ h \in EdgeHandles
      /\ KeptFits(o, h.managed, s, c, b, g)
  BY <1>1, <1>2 DEF HandleFits, KeptFits, ToCome
<1>4. PICK a : a = SetCoverage(AddThought(o, s, p, s[p]), p, s[p])
  OBVIOUS
<1>5. /\ OverlayFits(a, c, b, g) /\ Due(a, s, c, g, R)
      /\ a.known = o.known \cup {s[p]} /\ (Plain(a, c) => Plain(o, c))
  <2>1. Grown(a, o, s, c, b, g, R, p)
    BY <1>3, <1>4, GrownOverlay
  <2>2. QED
    BY <2>1 DEF Grown
<1>6. a \in Overlays /\ a # NoOverlay
  BY <1>5, AbsentIsNone DEF OverlayFits
<1>7. PICK m : m = [h EXCEPT !.overlay = a]
  OBVIOUS
<1>8. /\ m \in EdgeHandles /\ m.overlay = a /\ m.managed = h.managed /\ m.sidecar = h.sidecar
      /\ m.waiting = h.waiting /\ m.rebuild = h.rebuild /\ m.queue = h.queue /\ m.job = h.job
      /\ m.saved = h.saved /\ m.dirty = h.dirty
  BY <1>3, <1>6, <1>7 DEF EdgeHandles
<1>9. n = NoteUpdated(m)
  BY <1>1, <1>2, <1>4, <1>7 DEF ApplyInline
<1>10. n \in EdgeHandles /\ OverlayNoted(n, m)
  BY <1>8, <1>9, NoteUpdatedIs
<1>11. KeptFits(a, h.managed, s, c, b, g)
  <2>1. s[p] \in ToSet(s)
    BY <1>3 DEF ToSet
  <2>2. QED
    BY <1>2, <1>3, <1>5, <2>1 DEF KeptFits
<1>12. /\ n.managed = h.managed /\ n.sidecar = h.sidecar /\ n.waiting = h.waiting
       /\ n.rebuild = h.rebuild /\ n.queue = h.queue /\ n.job = h.job /\ n.overlay = a
       /\ n.saved = h.saved /\ n.dirty \in {h.dirty, a}
  BY <1>8, <1>10 DEF OverlayNoted
<1>13. HandleFits(n, c, b, g)
  BY <1>1, <1>10, <1>11, <1>12 DEF HandleFits, Works
<1>14. ToCome(n, c, g, R)
  BY <1>1, <1>5, <1>12 DEF ToCome
<1>15. QED
  BY <1>6, <1>12, <1>13, <1>14 DEF Inlined

\* A sidecar that is in use gets an overlay.
LEMMA LoadOverlayKeeps ==
    ASSUME NEW c, NEW b, ChainFits(c, b), NEW g \in BOOLEAN, NEW h, HandleFits(h, c, b, g),
           Works(h), g => h.sidecar = c /\ b <= MaxFullBuild /\ h.managed = "auto",
           NEW n, n = LoadOverlay(h, c)
    PROVE  /\ Good(n, c, b, g) /\ n.overlay # NoOverlay
           /\ n.managed = h.managed /\ n.sidecar = h.sidecar /\ n.waiting = h.waiting
           /\ n.rebuild = h.rebuild /\ n.queue = <<>> /\ n.job = NoJob
<1>1. PICK s : s = h.sidecar
  OBVIOUS
<1>2. PICK caught : caught = IF h.saved = NoOverlay THEN NoOverlay
                             ELSE CatchUpOverlay(h.saved, c, s)
  OBVIOUS
<1>3. PICK built : built = SetCoverage(IF Len(c) > MaxFullBuild THEN NewOverlay
                                       ELSE BuildFromSidecar(s), Len(c), Head0(c))
  OBVIOUS
<1>4. PICK a : a = IF caught # NoOverlay THEN caught ELSE built
  OBVIOUS
<1>5. n = [h EXCEPT !.overlay = a, !.saved = a, !.queue = <<>>, !.job = NoJob]
  <2>1. a = IF caught # NoOverlay THEN caught
            ELSE SetCoverage(IF Len(c) > MaxFullBuild THEN NewOverlay
                             ELSE BuildFromSidecar(s), Len(c), Head0(c))
    BY <1>3, <1>4
  <2>2. QED
    BY <1>1, <1>2, <2>1 DEF LoadOverlay, Works
<1>6. /\ SidecarFits(s, c, b) /\ h \in EdgeHandles /\ KeptFits(h.saved, h.managed, s, c, b, g)
      /\ KeptFits(h.dirty, h.managed, s, c, b, g)
      /\ g => s = c /\ b <= MaxFullBuild
  BY <1>1 DEF HandleFits
<1>7. /\ Len(c) \in Nat /\ DOMAIN c = 1 .. Len(c) /\ Len(c) <= b /\ b \in Nat /\ MaxFullBuild \in Nat
      /\ Head0(c) \in Nat /\ Head0(c) <= b /\ (Len(c) = 0 => Head0(c) = 0)
  <2>1. /\ Len(c) \in Nat /\ DOMAIN c = 1 .. Len(c) /\ Len(c) <= b /\ b \in Nat
    BY ChainFacts DEF ChainFits
  <2>2. MaxFullBuild \in Nat
    BY OverlayAssumption
  <2>3. Head0(c) \in Nat /\ Head0(c) <= b /\ (Len(c) = 0 => Head0(c) = 0)
    <3>1. CASE c = <<>>
      BY <2>1, <3>1 DEF Head0
    <3>2. CASE c # <<>>
      <4>1. Len(c) > 0 /\ Len(c) # 0
        <5>1. c \in Seq(Nat)
          BY ChainFacts
        <5>2. QED
          BY <3>2, <5>1
      <4>2. Head0(c) = Last(c)
        BY <3>2 DEF Head0
      <4>3. QED
        BY <4>1, <4>2, LastOfChain
    <3>3. QED
      BY <3>1, <3>2
  <2>4. QED
    BY <2>1, <2>2, <2>3
<1>8. /\ OverlayFits(a, c, b, g) /\ (h.managed = "auto" /\ Plain(a, c) => a.known \subseteq ToSet(s))
      /\ g => \A p \in DOMAIN s : s[p] \in a.known
  <2>1. CASE caught # NoOverlay
    <3>1. h.saved # NoOverlay /\ a = CatchUpOverlay(h.saved, c, s)
      BY <1>2, <1>4, <2>1
    <3>2. PICK o : o = h.saved
      OBVIOUS
    <3>3. OverlayFits(o, c, b, g) /\ a = CatchUpOverlay(o, c, s)
          /\ (h.managed = "auto" /\ Plain(o, c) => o.known \subseteq ToSet(s))
      BY <1>6, <3>1, <3>2 DEF KeptFits
    <3>4. GoesWith(o, c)
      BY <1>4, <2>1, <3>3 DEF CatchUpOverlay
    <3>5. /\ OverlayFits(a, c, b, g) /\ (Plain(a, c) => Plain(o, c))
          /\ a.known \subseteq o.known \cup ToSet(s)
          /\ g => \A q \in 1 .. Len(c) : c[q] \in a.known
      BY <1>6, <3>3, <3>4, CaughtUpFits
    <3>6. QED
      BY <1>6, <1>7, <3>3, <3>5
  <2>2. CASE caught = NoOverlay /\ Len(c) > MaxFullBuild
    <3>1. a = SetCoverage(NewOverlay, Len(c), Head0(c))
      BY <1>3, <1>4, <2>2
    <3>2. ~ g
      BY <1>6, <1>7, <2>2
    <3>3. OverlayFits(a, c, b, FALSE) /\ a.known = {}
      BY <1>7, <3>1, EmptyFits
    <3>4. QED
      BY <3>2, <3>3 DEF OverlayFits
  <2>3. CASE caught = NoOverlay /\ ~ (Len(c) > MaxFullBuild)
    <3>1. a = SetCoverage(BuildFromSidecar(s), Len(c), Head0(c))
      BY <1>3, <1>4, <2>3
    <3>2. OverlayFits(a, c, b, g) /\ a.known = ToSet(s)
      BY <1>6, <3>1, BuiltFits
    <3>3. QED
      BY <3>2 DEF ToSet
  <2>4. QED
    BY <2>1, <2>2, <2>3
<1>9. a \in Overlays /\ a # NoOverlay
  BY <1>8, AbsentIsNone DEF OverlayFits
<1>10. /\ n \in EdgeHandles /\ n.overlay = a /\ n.saved = a /\ n.queue = <<>> /\ n.job = NoJob
       /\ n.managed = h.managed /\ n.sidecar = h.sidecar /\ n.waiting = h.waiting
       /\ n.rebuild = h.rebuild /\ n.dirty = h.dirty
  <2>1. <<>> \in Seq(Nat)
    OBVIOUS
  <2>2. n \in EdgeHandles
    BY <1>5, <1>6, <1>9, <2>1 DEF EdgeHandles
  <2>3. n.overlay = a /\ n.saved = a /\ n.queue = <<>> /\ n.job = NoJob
    BY <1>5, <1>6 DEF EdgeHandles
  <2>4. n.managed = h.managed /\ n.sidecar = h.sidecar /\ n.waiting = h.waiting
        /\ n.rebuild = h.rebuild /\ n.dirty = h.dirty
    BY <1>5, <1>6 DEF EdgeHandles
  <2>5. QED
    BY <2>2, <2>3, <2>4
<1>11. KeptFits(a, h.managed, s, c, b, g)
  BY <1>8 DEF KeptFits
<1>12. HandleFits(n, c, b, g)
  BY <1>1, <1>10, <1>11 DEF HandleFits, Works
<1>13. InLine(n) = {} /\ WorkFits(n)
  BY <1>10, NobodyInLine
<1>14. Due(a, s, c, g, {})
  BY <1>8 DEF Due
<1>15. ToCome(n, c, g, {})
  BY <1>1, <1>10, <1>14 DEF ToCome
<1>16. LineFits(n, g)
  BY <1>9, <1>10, <1>13 DEF LineFits
<1>17. QED
  BY <1>9, <1>10, <1>12, <1>13, <1>15, <1>16 DEF Good

-----------------------------------------------------------------------------
(* The queue and the scan. *)

\* n and h differ in the edges only.
Beside(n, h) ==
    /\ n.managed = h.managed /\ n.sidecar = h.sidecar /\ n.waiting = h.waiting
    /\ n.rebuild = h.rebuild

\* x and then y are the line s.
CutInto(s, x, y) ==
    /\ x \in Seq(Nat) /\ y \in Seq(Nat) /\ Ordered(x) /\ Ordered(y)
    /\ ToSet(x) \cup ToSet(y) = ToSet(s)
    /\ \A p \in ToSet(x), q \in ToSet(y) : p <= q

LEMMA CutLine ==
    ASSUME NEW s \in Seq(Nat), Ordered(s), NEW k \in 1 .. Len(s), NEW x, NEW y,
           x = Prefix(s, k), y = SubSeq(s, k + 1, Len(s))
    PROVE  CutInto(s, x, y)
<1>1. PICK n \in Nat : n = Len(s)
  OBVIOUS
<1>2. /\ x \in Seq(Nat) /\ Len(x) = k /\ DOMAIN x = 1 .. k /\ \A i \in 1 .. k : x[i] = s[i]
      /\ DOMAIN s = 1 .. n /\ k \in 1 .. n /\ \A i \in 1 .. n : s[i] \in Nat
  BY <1>1 DEF Prefix
<1>3. /\ y \in Seq(Nat) /\ Len(y) = n - k /\ DOMAIN y = 1 .. n - k
      /\ \A i \in 1 .. n - k : y[i] = s[k + i]
  <2>1. y = SubSeq(s, k + 1, n) /\ k + 1 \in Nat /\ k + 1 <= n + 1 /\ n - (k + 1) + 1 = n - k
    BY <1>1
  <2>2. y \in Seq(Nat) /\ Len(y) = n - k
    BY <1>1, <1>2, <2>1
  <2>3. \A i \in 1 .. n - k : k + i = k + 1 + i - 1 /\ y[i] = s[k + i]
    BY <1>1, <1>2, <2>1
  <2>4. DOMAIN y = 1 .. n - k
    BY <2>2
  <2>5. QED
    BY <2>2, <2>3, <2>4
<1>4. \A i, j \in 1 .. n : i < j => s[i] <= s[j]
  BY <1>2 DEF Ordered
<1>5. Ordered(x)
  BY <1>2, <1>4 DEF Ordered
<1>6. Ordered(y)
  <2>1. SUFFICES ASSUME NEW r \in 1 .. n - k, NEW t \in 1 .. n - k, r < t PROVE y[r] <= y[t]
    BY <1>3 DEF Ordered
  <2>2. k + r \in 1 .. n /\ k + t \in 1 .. n /\ k + r < k + t
    BY <1>2, <2>1
  <2>3. s[k + r] <= s[k + t]
    BY <1>4, <2>2
  <2>4. QED
    BY <1>3, <2>3
<1>7. \A i \in 1 .. n : i \in 1 .. k \/ (i - k \in 1 .. n - k /\ k + (i - k) = i)
  BY <1>2
<1>8. \A i \in 1 .. n - k : k + i \in 1 .. n
  BY <1>2
<1>9. ToSet(x) \cup ToSet(y) = ToSet(s)
  <2>1. \A i \in 1 .. k : i \in 1 .. n
    BY <1>2
  <2>2. ToSet(x) = {s[i] : i \in 1 .. k} /\ ToSet(y) = {s[k + i] : i \in 1 .. n - k}
    <3>1. ToSet(x) = {s[i] : i \in 1 .. k}
      BY <1>2 DEF ToSet
    <3>2. ToSet(y) = {s[k + i] : i \in 1 .. n - k}
      BY <1>3 DEF ToSet
    <3>3. QED
      BY <3>1, <3>2
  <2>3. \A v \in ToSet(s) : v \in ToSet(x) \/ v \in ToSet(y)
    <3>1. TAKE v \in ToSet(s)
    <3>2. PICK i \in 1 .. n : v = s[i]
      BY <1>2 DEF ToSet
    <3>3. CASE i \in 1 .. k
      BY <2>2, <3>2, <3>3
    <3>4. CASE i - k \in 1 .. n - k /\ k + (i - k) = i
      <4>1. PICK j \in 1 .. n - k : k + j = i
        BY <3>4
      <4>2. v = s[k + j]
        BY <3>2, <4>1
      <4>3. QED
        BY <2>2, <4>2
    <3>5. QED
      BY <1>7, <3>3, <3>4
  <2>4. ToSet(x) \subseteq ToSet(s) /\ ToSet(y) \subseteq ToSet(s)
    BY <1>2, <1>8, <2>1, <2>2 DEF ToSet
  <2>5. QED
    BY <2>3, <2>4
<1>10. \A i \in 1 .. k, j \in 1 .. n - k : x[i] <= y[j]
  BY SMTT(30), <1>2, <1>3, <1>4, <1>8
<1>11. QED
  <2>1. ASSUME NEW p \in ToSet(x), NEW q \in ToSet(y) PROVE p <= q
    <3>1. PICK i \in 1 .. k : p = x[i]
      BY <1>2 DEF ToSet
    <3>2. PICK j \in 1 .. n - k : q = y[j]
      BY <1>3 DEF ToSet
    <3>3. QED
      BY <1>10, <3>1, <3>2
  <2>2. QED
    BY <1>2, <1>3, <1>5, <1>6, <1>9, <2>1 DEF CutInto

LEMMA LengthenLine ==
    ASSUME NEW s \in Seq(Nat), Ordered(s), NEW p \in Nat, \A w \in ToSet(s) : w <= p,
           NEW t, t = Append(s, p)
    PROVE  t \in Seq(Nat) /\ Ordered(t) /\ ToSet(t) = ToSet(s) \cup {p}
<1>1. PICK n \in Nat : n = Len(s)
  OBVIOUS
<1>2. /\ t \in Seq(Nat) /\ DOMAIN t = 1 .. n + 1 /\ t[n + 1] = p /\ DOMAIN s = 1 .. n
      /\ \A i \in 1 .. n : t[i] = s[i] /\ s[i] \in Nat
  BY <1>1
<1>3. \A i \in 1 .. n : s[i] <= p
  BY <1>2 DEF ToSet
<1>4. \A i \in 1 .. n + 1 : i \in 1 .. n \/ i = n + 1
  OBVIOUS
<1>5. Ordered(t)
  BY <1>2, <1>3, <1>4 DEF Ordered
<1>6. ToSet(t) = ToSet(s) \cup {p}
  <2>1. \A i \in 1 .. n : i \in 1 .. n + 1
    OBVIOUS
  <2>2. n + 1 \in 1 .. n + 1
    OBVIOUS
  <2>3. QED
    BY <1>2, <1>4, <2>1, <2>2 DEF ToSet
<1>7. QED
  BY <1>2, <1>5, <1>6

LEMMA SealedIs ==
    ASSUME NEW S, NEW s \in Seq(S)
    PROVE  Sealed(s) \in Nat
<1>1. CASE s = <<>>
  BY <1>1 DEF Sealed
<1>2. CASE s # <<>>
  <2>1. Chunk \in Nat /\ Chunk > 0 /\ Len(s) - 1 \in Nat
    BY <1>2, OverlayAssumption
  <2>2. (Len(s) - 1) \div Chunk \in Nat
    BY <2>1
  <2>3. PICK q \in Nat : q = (Len(s) - 1) \div Chunk
    BY <2>2
  <2>4. q * Chunk \in Nat
    BY <2>1
  <2>5. QED
    BY <1>2, <2>3, <2>4 DEF Sealed
<1>3. QED
  BY <1>1, <1>2

\* A scan is started of what is first in line.
LEMMA StartKeeps ==
    ASSUME NEW c, NEW b, ChainFits(c, b), NEW g \in BOOLEAN, NEW h, Good(h, c, b, g),
           h.managed # "closed", NEW n, n = StartJob(h)
    PROVE  Good(n, c, b, g) /\ Beside(n, h) /\ n.overlay = h.overlay
<1> DEFINE items == IF h.managed = "none" THEN <<>>
                    ELSE Prefix(h.queue, Min2(ScanBatch, Len(h.queue)))
<1>1. h \in EdgeHandles /\ HandleFits(h, c, b, g) /\ LineFits(h, g)
      /\ (Works(h) => ToCome(h, c, g, InLine(h)))
  BY DEF Good, HandleFits
<1>2. /\ h.queue \in Seq(Nat) /\ h.managed \in {"closed", "none", "auto", "search"}
      /\ h.sidecar \in Seq(Ids) /\ h.job \in EdgeJobs \cup {NoJob}
  BY <1>1 DEF EdgeHandles
<1>3. CASE h.job # NoJob \/ h.queue = <<>>
  <2>1. n = h
    BY <1>3 DEF StartJob
  <2>2. QED
    BY <2>1 DEF Beside
<1>4. CASE h.job = NoJob /\ h.queue # <<>> /\ (h.overlay = NoOverlay \/ items = <<>>)
  <2>1. n = [h EXCEPT !.queue = <<>>]
    BY <1>4 DEF StartJob
  <2>2. /\ n.managed = h.managed /\ n.sidecar = h.sidecar /\ n.waiting = h.waiting
        /\ n.rebuild = h.rebuild /\ n.overlay = h.overlay /\ n.queue = <<>> /\ n.job = NoJob
        /\ n.saved = h.saved /\ n.dirty = h.dirty /\ n \in EdgeHandles
    <3>1. <<>> \in Seq(Nat)
      OBVIOUS
    <3>2. n \in EdgeHandles
      BY <1>1, <2>1, <3>1 DEF EdgeHandles
    <3>3. QED
      BY <1>1, <1>4, <2>1, <3>2 DEF EdgeHandles
  <2>3. HandleFits(n, c, b, g)
    BY <1>1, <2>2 DEF HandleFits, Works
  <2>4. InLine(n) = {} /\ WorkFits(n)
    BY <2>2, NobodyInLine
  <2>5. Works(n) => ToCome(n, c, g, InLine(n))
    <3>1. SUFFICES ASSUME Works(n) PROVE n.overlay = NoOverlay
      BY <2>4 DEF ToCome
    <3>2. h.managed # "none"
      BY <2>2, <3>1 DEF Works
    <3>3. ScanBatch \in Nat /\ ScanBatch > 0
      BY OverlayAssumption
    <3>4. Min2(ScanBatch, Len(h.queue)) \in 1 .. Len(h.queue)
      BY <1>2, <1>4, <3>3 DEF Min2
    <3>5. items # <<>>
      BY <1>2, <3>2, <3>4 DEF Prefix
    <3>6. QED
      BY <1>4, <2>2, <3>5
  <2>6. LineFits(n, g)
    BY <1>1, <2>2, <2>4 DEF LineFits, Works
  <2>7. QED
    BY <2>2, <2>3, <2>5, <2>6 DEF Good, Beside
<1>5. CASE h.job = NoJob /\ h.queue # <<>> /\ h.overlay # NoOverlay /\ items # <<>>
  <2> DEFINE sealed == Sealed(h.sidecar)
             found == [k \in DOMAIN items |->
                         Candidates(h.sidecar[items[k]],
                                    Before(h.sidecar, Min2(items[k], sealed + 1)))]
             rest == SubSeq(h.queue, Len(items) + 1, Len(h.queue))
             job == [items |-> items, found |-> found, sealed |-> sealed,
                     stale |-> FALSE, state |-> "running"]
  <2>1. n = [h EXCEPT !.queue = rest, !.job = job]
    BY <1>5 DEF StartJob
  <2>2. Works(h)
    BY <1>2, <1>5 DEF Works
  <2>3. PICK k \in 1 .. Len(h.queue) : items = Prefix(h.queue, k)
    <3>1. ScanBatch \in Nat /\ ScanBatch > 0
      BY OverlayAssumption
    <3>2. Min2(ScanBatch, Len(h.queue)) \in 1 .. Len(h.queue)
      BY <1>2, <1>5, <3>1 DEF Min2
    <3>3. QED
      BY <1>5, <3>2
  <2>4. Ordered(h.queue) /\ ToCome(h, c, g, InLine(h))
    BY <1>1, <2>2 DEF LineFits, WorkFits
  <2> HIDE DEF items
  <2>5. Len(items) = k
    BY <1>2, <2>3 DEF Prefix
  <2>6. rest = SubSeq(h.queue, k + 1, Len(h.queue))
    BY <2>5
  <2>7. /\ items \in Seq(Nat) /\ rest \in Seq(Nat) /\ Ordered(items) /\ Ordered(rest)
        /\ ToSet(items) \cup ToSet(rest) = ToSet(h.queue)
        /\ \A p \in ToSet(items), q \in ToSet(rest) : p <= q
    <3> HIDE DEF rest
    <3>1. CutInto(h.queue, items, rest)
      BY <1>2, <2>3, <2>4, <2>6, CutLine
    <3>2. QED
      BY <3>1 DEF CutInto
  <2>8. InLine(h) = ToSet(h.queue)
    BY <1>5, EmptyLine DEF InLine
  <2>9. ToSet(items) \subseteq DOMAIN h.sidecar
    BY <2>4, <2>7, <2>8 DEF ToCome
  <2>10. sealed \in Nat
    BY <1>2, SealedIs
  <2> HIDE DEF sealed
  <2>11. found \in Seq(SUBSET Ids) /\ DOMAIN found = DOMAIN items
    <3>1. DOMAIN items = 1 .. k /\ k \in Nat
      BY <2>5, <2>7
    <3>2. ASSUME NEW j \in 1 .. k
          PROVE  Candidates(h.sidecar[items[j]], Before(h.sidecar, Min2(items[j], sealed + 1)))
                   \in SUBSET Ids
      <4>1. items[j] \in DOMAIN h.sidecar /\ DOMAIN h.sidecar = 1 .. Len(h.sidecar)
        BY <1>2, <2>9, <3>1 DEF ToSet
      <4>2. Before(h.sidecar, Min2(items[j], sealed + 1)) \in SUBSET Ids
        BY <1>2, <2>10, <4>1 DEF Before, Min2
      <4>3. QED
        BY <4>2, CandidatesOf
    <3>3. QED
      BY <3>1, <3>2
  <2>12. JobFits(job, h.sidecar)
    <3>1. /\ ~ job.stale /\ job.items = items /\ job.found = found /\ job.sealed = sealed
          /\ \A j \in DOMAIN items :
               found[j] = Candidates(h.sidecar[items[j]],
                                     Before(h.sidecar, Min2(items[j], sealed + 1)))
      OBVIOUS
    <3> HIDE DEF job, found
    <3>2. QED
      BY <2>11, <3>1 DEF JobFits
  <2>13. job \in EdgeJobs /\ job.items = items /\ job.state = "running"
    <3> HIDE DEF found
    <3>1. QED
      BY <2>7, <2>10, <2>11 DEF EdgeJobs
  <2> HIDE DEF job, rest
  <2>14. job # NoJob
    BY <2>13, AbsentIsNone
  <2>15. n \in EdgeHandles
    BY <1>1, <2>1, <2>7, <2>13 DEF EdgeHandles
  <2>16. /\ n.managed = h.managed /\ n.sidecar = h.sidecar /\ n.waiting = h.waiting
         /\ n.rebuild = h.rebuild /\ n.overlay = h.overlay /\ n.queue = rest /\ n.job = job
         /\ n.saved = h.saved /\ n.dirty = h.dirty
    BY <1>1, <2>1 DEF EdgeHandles
  <2>17. HandleFits(n, c, b, g)
    BY <1>1, <2>15, <2>16 DEF HandleFits, Works
  <2>18. ItemsOf(n) = items
    BY <2>13, <2>14, <2>16 DEF ItemsOf
  <2>19. InLine(n) = InLine(h)
    BY <2>7, <2>8, <2>16, <2>18 DEF InLine
  <2>20. ToCome(n, c, g, InLine(n))
    BY <2>4, <2>16, <2>19 DEF ToCome
  <2>21. WorkFits(n)
    BY <1>5, <2>7, <2>12, <2>16, <2>18 DEF WorkFits
  <2>22. LineFits(n, g)
    BY <1>1, <2>2, <2>13, <2>16, <2>21 DEF LineFits, Works
  <2>23. QED
    BY <2>16, <2>17, <2>20, <2>22 DEF Good, Beside
<1>6. QED
  BY <1>3, <1>4, <1>5

QueueOne(acc, p) ==
    IF Len(acc.sidecar) <= InlineLimit /\ acc.queue = <<>> /\ acc.job = NoJob
    THEN ApplyInline(acc, p)
    ELSE [acc EXCEPT !.queue = Append(@, p)]
\* f takes the positions from .. to, one by one.
Enqueue(f, h, from, to) ==
    f = [p \in from - 1 .. to |-> IF p < from THEN h ELSE QueueOne(f[p - 1], p)]

LEMMA Enqueues ==
    ASSUME NEW h, NEW from \in Nat \ {0}, NEW to \in Nat, from <= to
    PROVE  \E f : Enqueue(f, h, from, to)
<1>0. PICK m \in Nat : m = from - 1 /\ m + 1 = from /\ m <= to
  OBVIOUS
<1> DEFINE T == {k \in m .. to : \E f : Enqueue(f, h, from, k)}
<1>1. m \in T
  <2>1. Enqueue([p \in from - 1 .. m |-> h], h, from, m)
    <3>1. \A p \in from - 1 .. m : p < from
      BY <1>0
    <3>2. QED
      BY <3>1 DEF Enqueue
  <2>2. QED
    BY <1>0, <2>1
<1>2. ASSUME NEW k \in m .. to - 1, k \in T PROVE k + 1 \in T
  <2>1. PICK f : Enqueue(f, h, from, k)
    BY <1>2
  <2> DEFINE t == [p \in from - 1 .. k + 1 |-> IF p <= k THEN f[p] ELSE QueueOne(f[k], k + 1)]
  <2>2. \A p \in from - 1 .. k + 1 : t[p] = IF p < from THEN h ELSE QueueOne(t[p - 1], p)
    <3>1. TAKE p \in from - 1 .. k + 1
    <3>2. CASE p = k + 1
      BY <1>0, <3>2, k \in Nat
    <3>3. CASE p = m
      BY <1>0, <3>3, <2>1 DEF Enqueue
    <3>4. CASE p \in from .. k
      <4>1. t[p] = f[p] /\ t[p - 1] = f[p - 1] /\ ~ (p < from)
        BY <3>4
      <4>2. f[p] = QueueOne(f[p - 1], p)
        BY <3>4, <2>1 DEF Enqueue
      <4> HIDE DEF t
      <4>3. QED
        BY <3>4, <4>1, <4>2
    <3>5. QED
      BY <1>0, <3>2, <3>3, <3>4
  <2>3. Enqueue(t, h, from, k + 1)
    BY <2>2 DEF Enqueue
  <2> HIDE DEF t
  <2>4. QED
    BY <1>0, <2>3
<1> HIDE DEF T
<1>3. \A k \in m .. to : k \in T
  BY <1>0, <1>1, <1>2, UpFrom
<1>4. QED
  BY <1>0, <1>3 DEF T

LEMMA QueueEdgesIs ==
    ASSUME NEW h, NEW from \in Nat \ {0}, NEW to \in Nat, from <= to, h.overlay # NoOverlay
    PROVE  \E f : Enqueue(f, h, from, to) /\ QueueEdges(h, from, to) = StartJob(f[to])
<1>1. \E f : Enqueue(f, h, from, to)
  BY Enqueues
<1> DEFINE f == CHOOSE f : Enqueue(f, h, from, to)
<1>2. Enqueue(f, h, from, to)
  BY <1>1
<1>3. QueueEdges(h, from, to) = StartJob(f[to])
  BY DEF QueueEdges, Enqueue, QueueOne
<1> HIDE DEF f
<1>4. QED
  BY <1>2, <1>3

\* The positions of h's line and those up to p have been taken.
Queued(x, h, c, b, g, p, to) ==
    /\ HandleFits(x, c, b, g) /\ x.overlay # NoOverlay /\ Beside(x, h)
    /\ ToCome(x, c, g, InLine(x) \cup (p + 1 .. to)) /\ LineFits(x, g)
    /\ \A w \in InLine(x) : w <= p + 1

LEMMA QueuedOne ==
    ASSUME NEW c, NEW b, ChainFits(c, b), NEW g \in BOOLEAN, NEW h, Works(h),
           NEW to \in Nat, NEW p \in 1 .. to, NEW x, Queued(x, h, c, b, g, p - 1, to),
           NEW y, y = QueueOne(x, p)
    PROVE  Queued(y, h, c, b, g, p, to)
<1>1. /\ HandleFits(x, c, b, g) /\ x.overlay # NoOverlay /\ Beside(x, h) /\ LineFits(x, g)
      /\ ToCome(x, c, g, InLine(x) \cup (p .. to)) /\ x \in EdgeHandles
      /\ \A w \in InLine(x) : w <= p
  <2>1. (p - 1) + 1 = p
    OBVIOUS
  <2>2. QED
    BY <2>1 DEF Queued, HandleFits
<1>2. Works(x)
  BY <1>1 DEF Beside, Works
<1>3. p .. to = (p + 1 .. to) \cup {p} /\ p \in Nat
  OBVIOUS
<1>4. CASE Len(x.sidecar) <= InlineLimit /\ x.queue = <<>> /\ x.job = NoJob
  <2>1. y = ApplyInline(x, p)
    BY <1>4 DEF QueueOne
  <2>2. InLine(x) = {}
    BY <1>4, NobodyInLine
  <2> DEFINE R == p + 1 .. to
  <2>3. ToCome(x, c, g, R \cup {p}) /\ \A q \in R : p <= q
    <3>1. InLine(x) \cup (p .. to) = R \cup {p}
      BY <1>3, <2>2
    <3>2. ToCome(x, c, g, R \cup {p})
      BY <1>1, <3>1
    <3>3. \A q \in R : p <= q
      BY <1>3
    <3>4. QED
      BY <3>2, <3>3
  <2> HIDE DEF R
  <2>10. Inlined(y, x, c, b, g, R)
    BY <1>1, <1>2, <2>1, <2>3, InlineKeeps
  <2>4. /\ HandleFits(y, c, b, g) /\ ToCome(y, c, g, R) /\ y.overlay # NoOverlay
        /\ y.managed = x.managed /\ y.sidecar = x.sidecar /\ y.waiting = x.waiting
        /\ y.rebuild = x.rebuild /\ y.queue = x.queue /\ y.job = x.job
    BY <2>10 DEF Inlined
  <2>5. InLine(y) = {} /\ WorkFits(y)
    BY <1>4, <2>4, NobodyInLine
  <2>6. LineFits(y, g)
    BY <1>1, <1>4, <2>4, <2>5 DEF LineFits
  <2>7. Beside(y, h)
    BY <1>1, <2>4 DEF Beside
  <2>8. InLine(y) \cup (p + 1 .. to) = R
    BY <2>5 DEF R
  <2>9. QED
    BY <2>4, <2>5, <2>6, <2>7, <2>8 DEF Queued
<1>5. CASE ~ (Len(x.sidecar) <= InlineLimit /\ x.queue = <<>> /\ x.job = NoJob)
  <2>1. PICK t : t = Append(x.queue, p)
    OBVIOUS
  <2>2. y = [x EXCEPT !.queue = t]
    BY <1>5, <2>1 DEF QueueOne
  <2>3. x.queue \in Seq(Nat) /\ WorkFits(x)
    BY <1>1, <1>2 DEF EdgeHandles, LineFits
  <2>4. /\ Ordered(x.queue) /\ \A w \in ToSet(x.queue) : w <= p
        /\ \A w \in ToSet(ItemsOf(x)) : w <= p
    BY <1>1, <2>3 DEF WorkFits, InLine
  <2>5. t \in Seq(Nat) /\ Ordered(t) /\ ToSet(t) = ToSet(x.queue) \cup {p}
    BY <1>3, <2>1, <2>3, <2>4, LengthenLine
  <2>6. /\ y \in EdgeHandles /\ y.managed = x.managed /\ y.sidecar = x.sidecar
        /\ y.waiting = x.waiting /\ y.rebuild = x.rebuild /\ y.overlay = x.overlay
        /\ y.queue = t /\ y.job = x.job /\ y.saved = x.saved /\ y.dirty = x.dirty
    BY <1>1, <2>2, <2>5 DEF EdgeHandles
  <2>7. HandleFits(y, c, b, g)
    BY <1>1, <2>6 DEF HandleFits, Works
  <2>8. ItemsOf(y) = ItemsOf(x)
    BY <2>6 DEF ItemsOf
  <2>9. InLine(y) = InLine(x) \cup {p}
    BY <2>5, <2>6, <2>8 DEF InLine
  <2>10. InLine(y) \cup (p + 1 .. to) = InLine(x) \cup (p .. to)
    BY <1>3, <2>9
  <2>11. ToCome(y, c, g, InLine(y) \cup (p + 1 .. to))
    BY <1>1, <2>6, <2>10 DEF ToCome
  <2>12. WorkFits(y)
    BY <1>1, <2>3, <2>4, <2>5, <2>6, <2>8 DEF WorkFits
  <2>13. LineFits(y, g)
    BY <1>1, <1>2, <2>6, <2>12 DEF LineFits, Works
  <2>14. \A w \in InLine(y) : w <= p + 1
    <3>1. InLine(x) \subseteq DOMAIN x.sidecar /\ x.sidecar \in Seq(Ids)
      BY <1>1 DEF ToCome, EdgeHandles
    <3>2. \A w \in InLine(x) : w \in Nat
      BY <3>1
    <3>3. QED
      BY <1>1, <1>3, <2>9, <3>2
  <2>15. Beside(y, h)
    BY <1>1, <2>6 DEF Beside
  <2>16. QED
    BY <1>1, <2>6, <2>7, <2>11, <2>13, <2>14, <2>15 DEF Queued
<1>6. QED
  BY <1>4, <1>5

\* The vectors at positions from .. to are added, at once or in time.
LEMMA QueueKeeps ==
    ASSUME NEW c, NEW b, ChainFits(c, b), NEW g \in BOOLEAN, NEW h, HandleFits(h, c, b, g),
           LineFits(h, g), Works(h), NEW from \in Nat \ {0}, NEW to \in Nat, from <= to,
           ToCome(h, c, g, InLine(h) \cup (from .. to)), \A w \in InLine(h) : w <= from,
           NEW n, n = QueueEdges(h, from, to)
    PROVE  Good(n, c, b, g) /\ Beside(n, h)
<1>1. CASE h.overlay = NoOverlay
  <2>1. n = h
    BY <1>1 DEF QueueEdges
  <2>2. ToCome(h, c, g, InLine(h))
    BY <1>1 DEF ToCome
  <2>3. QED
    BY <2>1, <2>2 DEF Good, Beside
<1>2. CASE h.overlay # NoOverlay
  <2>1. PICK f : Enqueue(f, h, from, to) /\ n = StartJob(f[to])
    BY <1>2, QueueEdgesIs
  <2>2. PICK m \in Nat : m = from - 1 /\ m + 1 = from /\ m <= to
    OBVIOUS
  <2>3. f[m] = h /\ \A p \in from .. to : f[p] = QueueOne(f[p - 1], p)
    BY <2>1, <2>2 DEF Enqueue
  <2>4. Queued(h, h, c, b, g, m, to)
    BY <1>2, <2>2 DEF Queued, Beside
  <2> DEFINE T == {p \in m .. to : Queued(f[p], h, c, b, g, p, to)}
  <2>5. m \in T
    BY <2>2, <2>3, <2>4
  <2>6. ASSUME NEW p \in m .. to - 1, p \in T PROVE p + 1 \in T
    <3>1. PICK r : r = p + 1
      OBVIOUS
    <3>2. r \in 1 .. to /\ r - 1 = p /\ r \in from .. to /\ r \in m .. to
      BY <2>2, <3>1
    <3>3. f[r] = QueueOne(f[p], r)
      BY <2>3, <3>2
    <3>4. Queued(f[p], h, c, b, g, r - 1, to)
      BY <2>6, <3>2
    <3>5. Queued(f[r], h, c, b, g, r, to)
      BY <3>2, <3>3, <3>4, QueuedOne
    <3>6. QED
      BY <3>1, <3>2, <3>5
  <2> HIDE DEF T
  <2>7. to \in T
    <3>1. \A p \in m .. to : p \in T
      BY <2>2, <2>5, <2>6, UpFrom
    <3>2. QED
      BY <2>2, <3>1
  <2>8. PICK x : x = f[to]
    OBVIOUS
  <2>9. Queued(x, h, c, b, g, to, to)
    BY <2>7, <2>8 DEF T
  <2>10. InLine(x) \cup (to + 1 .. to) = InLine(x)
    OBVIOUS
  <2>11. Good(x, c, b, g) /\ Beside(x, h)
    BY <2>9, <2>10 DEF Queued, Good
  <2>12. x.managed # "closed"
    BY <2>11 DEF Beside, Works
  <2>13. Good(n, c, b, g) /\ Beside(n, x)
    BY <2>1, <2>8, <2>11, <2>12, StartKeeps
  <2>14. QED
    BY <2>11, <2>13 DEF Beside
<1>3. QED
  BY <1>1, <1>2

ApplyOne(acc, h, job, k) ==
    NoteUpdated([acc EXCEPT
        !.overlay = SetCoverage(
            ApplyCandidates(acc.overlay, h.sidecar[job.items[k]],
                            job.found[k] \cup Candidates(h.sidecar[job.items[k]],
                                                         Delta(h, job, job.items[k]))),
            job.items[k], h.sidecar[job.items[k]])])
\* f takes the first n items of the scan, one by one.
Adoption(f, h, job, n) ==
    f = [k \in 0 .. n |-> IF k = 0 THEN h ELSE ApplyOne(f[k - 1], h, job, k)]

LEMMA Adoptions ==
    ASSUME NEW h, NEW job, NEW n \in Nat
    PROVE  \E f : Adoption(f, h, job, n)
<1> DEFINE T == {k \in 0 .. n : \E f : Adoption(f, h, job, k)}
<1>1. 0 \in T
  <2>1. Adoption([k \in 0 .. 0 |-> h], h, job, 0)
    BY DEF Adoption
  <2>2. QED
    BY <2>1
<1>2. ASSUME NEW k \in 0 .. n - 1, k \in T PROVE k + 1 \in T
  <2>1. PICK f : Adoption(f, h, job, k)
    BY <1>2
  <2> DEFINE t == [p \in 0 .. k + 1 |-> IF p <= k THEN f[p] ELSE ApplyOne(f[k], h, job, k + 1)]
  <2>2. \A p \in 0 .. k + 1 : t[p] = IF p = 0 THEN h ELSE ApplyOne(t[p - 1], h, job, p)
    <3>1. TAKE p \in 0 .. k + 1
    <3>2. CASE p = k + 1
      BY <3>2, k \in Nat
    <3>3. CASE p = 0
      BY <3>3, <2>1 DEF Adoption
    <3>4. CASE p \in 1 .. k
      <4>1. t[p] = f[p] /\ t[p - 1] = f[p - 1] /\ p # 0
        BY <3>4
      <4>2. f[p] = ApplyOne(f[p - 1], h, job, p)
        BY <3>4, <2>1 DEF Adoption
      <4> HIDE DEF t
      <4>3. QED
        BY <3>4, <4>1, <4>2
    <3>5. QED
      BY <3>2, <3>3, <3>4
  <2>3. Adoption(t, h, job, k + 1)
    BY <2>2 DEF Adoption
  <2> HIDE DEF t
  <2>4. QED
    BY <2>3
<1> HIDE DEF T
<1>3. \A k \in 0 .. n : k \in T
  BY <1>1, <1>2, UpFrom
<1>4. QED
  BY <1>3 DEF T

LEMMA ApplyJobIs ==
    ASSUME NEW h, NEW job, Len(job.items) \in Nat
    PROVE  \E f : /\ Adoption(f, h, job, Len(job.items))
                  /\ ApplyJob(h, job) = f[Len(job.items)]
<1>1. \E f : Adoption(f, h, job, Len(job.items))
  BY Adoptions
<1> DEFINE f == CHOOSE f : Adoption(f, h, job, Len(job.items))
<1>2. Adoption(f, h, job, Len(job.items))
  BY <1>1
<1>3. ApplyJob(h, job) = f[Len(job.items)]
  BY DEF ApplyJob, Adoption, ApplyOne
<1> HIDE DEF f
<1>4. QED
  BY <1>2, <1>3

\* What the scan found in the sealed chunks and the delta are what came before.
FoundAll(h, job, k, p, i) ==
    job.found[k] \cup Candidates(i, Delta(h, job, p)) = Candidates(i, Before(h.sidecar, p))

LEMMA FoundIsBefore ==
    ASSUME NEW h, NEW job, NEW s, s = h.sidecar, JobFits(job, s), job.sealed \in Nat,
           NEW k \in DOMAIN job.items, NEW p \in Nat, p = job.items[k], NEW i, i = s[p]
    PROVE  FoundAll(h, job, k, p, i)
<1>1. PICK sealed \in Nat : sealed = job.sealed
  OBVIOUS
<1>2. job.found[k] = Candidates(i, Before(s, Min2(p, sealed + 1)))
  BY <1>1 DEF JobFits
<1>3. Delta(h, job, p) = {s[q] : q \in sealed + 1 .. p - 1}
  BY <1>1 DEF Delta
<1>4. Before(s, Min2(p, sealed + 1)) \cup {s[q] : q \in sealed + 1 .. p - 1} = Before(s, p)
  <2>1. PICK m \in Nat : m = Min2(p, sealed + 1)
    BY DEF Min2
  <2>2. \A q \in 1 .. p - 1 : q \in 1 .. m - 1 \/ q \in sealed + 1 .. p - 1
    BY <2>1 DEF Min2
  <2>3. \A q \in 1 .. m - 1 : q \in 1 .. p - 1
    BY <2>1 DEF Min2
  <2>4. \A q \in sealed + 1 .. p - 1 : q \in 1 .. p - 1
    OBVIOUS
  <2>5. QED
    BY <2>1, <2>2, <2>3, <2>4 DEF Before
<1>5. \A A, B : Candidates(i, A) \cup Candidates(i, B) = Candidates(i, A \cup B)
  BY DEF Candidates
<1>6. QED
  BY <1>2, <1>3, <1>4, <1>5 DEF FoundAll

\* The items after the k-th, and what is queued.
After(job, k, queue) == {job.items[j] : j \in k + 1 .. Len(job.items)} \cup ToSet(queue)

Adopted(x, h, job, c, b, g, k) ==
    /\ HandleFits(x, c, b, g) /\ x.overlay # NoOverlay /\ Beside(x, h)
    /\ x.queue = h.queue /\ x.job = NoJob /\ ToCome(x, c, g, After(job, k, h.queue))

LEMMA AdoptedOne ==
    ASSUME NEW c, NEW b, ChainFits(c, b), NEW g \in BOOLEAN, NEW h, h \in EdgeHandles, Works(h),
           NEW job \in EdgeJobs, JobFits(job, h.sidecar), Ordered(job.items), Ordered(h.queue),
           \A p \in ToSet(job.items), q \in ToSet(h.queue) : p <= q,
           NEW k \in 1 .. Len(job.items), NEW x, Adopted(x, h, job, c, b, g, k - 1),
           NEW y, y = ApplyOne(x, h, job, k)
    PROVE  Adopted(y, h, job, c, b, g, k)
<1>1. PICK s : s = h.sidecar
  OBVIOUS
<1>2. PICK p : p = job.items[k]
  OBVIOUS
<1>3. /\ HandleFits(x, c, b, g) /\ x.overlay # NoOverlay /\ Beside(x, h)
      /\ x.queue = h.queue /\ x.job = NoJob /\ ToCome(x, c, g, After(job, k - 1, h.queue))
  BY DEF Adopted
<1>4. /\ job.items \in Seq(Nat) /\ job.sealed \in Nat /\ DOMAIN job.items = 1 .. Len(job.items)
      /\ Len(job.items) \in Nat /\ k \in Nat /\ p \in Nat /\ p \in ToSet(job.items)
  <2>1. job.items \in Seq(Nat) /\ job.sealed \in Nat
    BY DEF EdgeJobs
  <2>2. QED
    BY <1>2, <2>1 DEF ToSet
<1> DEFINE R == After(job, k, h.queue)
<1>5. After(job, k - 1, h.queue) = R \cup {p}
  <2>1. \A j : j \in (k - 1) + 1 .. Len(job.items) <=> j = k \/ j \in k + 1 .. Len(job.items)
    BY <1>4
  <2>2. QED
    BY <1>2, <2>1 DEF After
<1>6. \A q \in R : p <= q
  <2>1. \A j \in k + 1 .. Len(job.items) : p <= job.items[j]
    <3>1. TAKE j \in k + 1 .. Len(job.items)
    <3>2. j \in DOMAIN job.items /\ k \in DOMAIN job.items /\ k < j
      BY <1>4
    <3>3. QED
      BY <1>2, <3>2 DEF Ordered
  <2>2. QED
    BY <1>4, <2>1 DEF After
<1>7. x.sidecar = s /\ Works(x)
  BY <1>1, <1>3 DEF Beside, Works
<1>8. job.found[k] \cup Candidates(s[p], Delta(h, job, p)) = Candidates(s[p], Before(s, p))
  <2>1. PICK i : i = s[p]
    OBVIOUS
  <2>2. JobFits(job, s)
    BY <1>1
  <2>3. FoundAll(h, job, k, p, i)
    BY <1>1, <1>2, <1>4, <2>1, <2>2, FoundIsBefore
  <2>4. QED
    BY <1>1, <2>1, <2>3 DEF FoundAll
<1>9. y = ApplyInline(x, p)
  BY <1>1, <1>2, <1>7, <1>8 DEF ApplyOne, ApplyInline, AddThought
<1> HIDE DEF R
<1>10. ToCome(x, c, g, R \cup {p})
  BY <1>3, <1>5
<1>11. Inlined(y, x, c, b, g, R)
  BY <1>3, <1>6, <1>7, <1>9, <1>10, InlineKeeps
<1>12. QED
  BY <1>3, <1>11 DEF Inlined, Adopted, Beside, R

LEMMA ApplyKeeps ==
    ASSUME NEW c, NEW b, ChainFits(c, b), NEW g \in BOOLEAN, NEW h, Good(h, c, b, g), Works(h),
           h.job # NoJob, NEW m, m = [h EXCEPT !.job = NoJob], NEW n, n = ApplyJob(m, h.job)
    PROVE  Good(n, c, b, g) /\ Beside(n, h)
<1>1. PICK job : job = h.job
  OBVIOUS
<1>2. /\ HandleFits(h, c, b, g) /\ LineFits(h, g) /\ ToCome(h, c, g, InLine(h)) /\ WorkFits(h)
      /\ h \in EdgeHandles
  BY DEF Good, LineFits, HandleFits
<1>3. job \in EdgeJobs /\ job.items \in Seq(Nat) /\ Len(job.items) \in Nat
      /\ DOMAIN job.items = 1 .. Len(job.items)
  <2>1. job \in EdgeJobs
    BY <1>1, <1>2 DEF EdgeHandles
  <2>2. job.items \in Seq(Nat)
    BY <2>1 DEF EdgeJobs
  <2>3. QED
    BY <2>1, <2>2
<1>4. /\ m \in EdgeHandles /\ m.managed = h.managed /\ m.sidecar = h.sidecar
      /\ m.waiting = h.waiting /\ m.rebuild = h.rebuild /\ m.overlay = h.overlay
      /\ m.queue = h.queue /\ m.job = NoJob /\ m.saved = h.saved /\ m.dirty = h.dirty
  BY <1>2 DEF EdgeHandles
<1>5. HandleFits(m, c, b, g) /\ Works(m)
  BY <1>2, <1>4 DEF HandleFits, Works
<1>6. /\ JobFits(job, m.sidecar) /\ Ordered(job.items) /\ Ordered(m.queue)
      /\ \A p \in ToSet(job.items), q \in ToSet(m.queue) : p <= q
      /\ InLine(h) = ToSet(job.items) \cup ToSet(m.queue) /\ h.overlay # NoOverlay
  BY <1>1, <1>2, <1>4 DEF WorkFits, ItemsOf, InLine
<1>7. PICK f : Adoption(f, m, job, Len(job.items)) /\ n = f[Len(job.items)]
  BY <1>1, <1>3, ApplyJobIs
<1>8. PICK l \in Nat : l = Len(job.items)
  BY <1>3
<1>9. f[0] = m /\ \A k \in 1 .. l : f[k] = ApplyOne(f[k - 1], m, job, k)
  <2>1. f = [k \in 0 .. l |-> IF k = 0 THEN m ELSE ApplyOne(f[k - 1], m, job, k)]
    BY <1>7, <1>8 DEF Adoption
  <2>2. 0 \in 0 .. l /\ \A k \in 1 .. l : k \in 0 .. l /\ k # 0
    OBVIOUS
  <2>3. QED
    BY <2>1, <2>2
<1>10. Adopted(m, m, job, c, b, g, 0)
  <2>1. After(job, 0, m.queue) = InLine(h)
    BY <1>3, <1>6 DEF After, ToSet
  <2>2. ToCome(m, c, g, After(job, 0, m.queue))
    BY <1>2, <1>4, <2>1 DEF ToCome
  <2>3. QED
    BY <1>4, <1>5, <1>6, <2>2 DEF Adopted, Beside
<1> DEFINE T == {k \in 0 .. l : Adopted(f[k], m, job, c, b, g, k)}
<1>11. 0 \in T
  BY <1>9, <1>10
<1>12. ASSUME NEW k \in 0 .. l - 1, k \in T PROVE k + 1 \in T
  <2>1. PICK r : r = k + 1
    OBVIOUS
  <2>2. r \in 1 .. Len(job.items) /\ r - 1 = k /\ r \in 1 .. l /\ r \in 0 .. l
    BY <1>8, <2>1
  <2>3. f[r] = ApplyOne(f[k], m, job, r)
    BY <1>9, <2>2
  <2>4. Adopted(f[k], m, job, c, b, g, r - 1)
    BY <1>12, <2>2
  <2>5. Adopted(f[r], m, job, c, b, g, r)
    BY <1>3, <1>4, <1>5, <1>6, <2>2, <2>3, <2>4, AdoptedOne
  <2>6. QED
    BY <2>1, <2>2, <2>5
<1> HIDE DEF T
<1>13. l \in T
  <2>1. \A k \in 0 .. l : k \in T
    BY <1>11, <1>12, UpFrom
  <2>2. QED
    BY <2>1
<1>14. Adopted(n, m, job, c, b, g, l)
  BY <1>7, <1>8, <1>13 DEF T
<1>15. After(job, l, m.queue) = ToSet(m.queue)
  BY <1>8 DEF After
<1>16. ItemsOf(n) = <<>> /\ InLine(n) = ToSet(m.queue)
  BY <1>14, EmptyLine DEF Adopted, ItemsOf, InLine
<1>17. ToCome(n, c, g, InLine(n))
  BY <1>14, <1>15, <1>16 DEF Adopted
<1>18. WorkFits(n)
  BY <1>6, <1>14, <1>16, EmptyLine DEF Adopted, WorkFits
<1>19. LineFits(n, g)
  BY <1>2, <1>4, <1>5, <1>14, <1>18 DEF LineFits, Adopted, Beside, Works
<1>20. QED
  BY <1>4, <1>14, <1>17, <1>19 DEF Good, Adopted, Beside

\* The result of a scan is adopted, and the next is started.
LEMMA AdoptJobKeeps ==
    ASSUME NEW c, NEW b, ChainFits(c, b), NEW g \in BOOLEAN, NEW h, Good(h, c, b, g),
           h.managed # "closed", NEW n, n = AdoptJob(h)
    PROVE  Good(n, c, b, g) /\ Beside(n, h)
<1>1. /\ HandleFits(h, c, b, g) /\ LineFits(h, g) /\ (Works(h) => ToCome(h, c, g, InLine(h)))
      /\ h \in EdgeHandles
  BY DEF Good, HandleFits
<1>2. CASE h.job = NoJob \/ h.job.state = "running"
  <2>1. n = h
    BY <1>2 DEF AdoptJob
  <2>2. QED
    BY <2>1 DEF Beside
<1>3. CASE h.job # NoJob /\ h.job.state = "failed"
  <2>1. n = [h EXCEPT !.queue = <<>>, !.job = NoJob, !.overlay = NoOverlay]
    BY <1>3 DEF AdoptJob, Abandon
  <2>2. ~ g
    BY <1>1, <1>3 DEF LineFits
  <2>3. /\ n \in EdgeHandles /\ n.managed = h.managed /\ n.sidecar = h.sidecar
        /\ n.waiting = h.waiting /\ n.rebuild = h.rebuild /\ n.overlay = NoOverlay
        /\ n.queue = <<>> /\ n.job = NoJob /\ n.saved = h.saved /\ n.dirty = h.dirty
    <3>1. <<>> \in Seq(Nat)
      OBVIOUS
    <3>2. QED
      BY <1>1, <2>1, <3>1 DEF EdgeHandles
  <2>4. HandleFits(n, c, b, g)
    BY <1>1, <2>3 DEF HandleFits, Works, KeptFits
  <2>5. InLine(n) = {} /\ WorkFits(n)
    BY <2>3, NobodyInLine
  <2>6. ToCome(n, c, g, InLine(n)) /\ LineFits(n, g)
    BY <2>2, <2>3, <2>5 DEF ToCome, LineFits
  <2>7. QED
    BY <2>3, <2>4, <2>6 DEF Good, Beside
<1>4. CASE h.job # NoJob /\ h.job.state = "done" /\ h.job.stale
  <2>1. PICK q : q = h.job.items \o h.queue
    OBVIOUS
  <2>2. PICK m : m = [h EXCEPT !.job = NoJob, !.queue = q]
    OBVIOUS
  <2>3. n = StartJob(m)
    BY <1>4, <2>1, <2>2 DEF AdoptJob
  <2>4. ~ Works(h)
    BY <1>1, <1>4 DEF LineFits, WorkFits, JobFits
  <2>5. q \in Seq(Nat)
    <3>1. h.job \in EdgeJobs /\ h.queue \in Seq(Nat)
      BY <1>1, <1>4 DEF EdgeHandles
    <3>2. h.job.items \in Seq(Nat)
      BY <3>1 DEF EdgeJobs
    <3>3. QED
      BY <2>1, <3>1, <3>2
  <2>6. /\ m \in EdgeHandles /\ m.managed = h.managed /\ m.sidecar = h.sidecar
        /\ m.waiting = h.waiting /\ m.rebuild = h.rebuild /\ m.overlay = h.overlay
        /\ m.job = NoJob /\ m.saved = h.saved /\ m.dirty = h.dirty
    BY <1>1, <2>2, <2>5 DEF EdgeHandles
  <2>7. HandleFits(m, c, b, g) /\ ~ Works(m)
    BY <1>1, <2>4, <2>6 DEF HandleFits, Works
  <2>8. LineFits(m, g)
    BY <1>1, <2>6, <2>7 DEF LineFits
  <2>9. Good(m, c, b, g)
    BY <2>7, <2>8 DEF Good
  <2>10. Good(n, c, b, g) /\ Beside(n, m)
    BY <2>3, <2>6, <2>9, StartKeeps
  <2>11. QED
    BY <2>6, <2>10 DEF Beside
<1>5. CASE h.job # NoJob /\ h.job.state = "done" /\ ~ h.job.stale
  <2>1. PICK m : m = [h EXCEPT !.job = NoJob]
    OBVIOUS
  <2>2. PICK x : x = ApplyJob(m, h.job)
    OBVIOUS
  <2>3. n = StartJob(x)
    BY <1>5, <2>1, <2>2 DEF AdoptJob
  <2>4. Works(h)
    BY <1>1, <1>5 DEF LineFits
  <2>5. Good(x, c, b, g) /\ Beside(x, h)
    BY <1>5, <2>1, <2>2, <2>4, ApplyKeeps
  <2>6. x.managed # "closed"
    BY <2>5 DEF Beside
  <2>7. Good(n, c, b, g) /\ Beside(n, x)
    BY <2>3, <2>5, <2>6, StartKeeps
  <2>8. QED
    BY <2>5, <2>7 DEF Beside
<1>6. h.job = NoJob \/ (h.job.state \in {"running", "done", "failed"} /\ h.job.stale \in BOOLEAN)
  BY <1>1 DEF EdgeHandles, EdgeJobs
<1>7. QED
  BY <1>2, <1>3, <1>4, <1>5, <1>6

-----------------------------------------------------------------------------
(* What brings vectors. *)

LEMMA GoodAlike ==
    ASSUME NEW c, NEW b, NEW g \in BOOLEAN, NEW h, Good(h, c, b, g), NEW n \in EdgeHandles,
           n.managed = h.managed, n.sidecar = h.sidecar, n.overlay = h.overlay,
           n.queue = h.queue, n.job = h.job, n.saved = h.saved, n.dirty = h.dirty,
           n.waiting \subseteq 1 .. Len(c), n.managed = "auto" \/ n.waiting = {}
    PROVE  Good(n, c, b, g)
<1>1. HandleFits(n, c, b, g)
  BY DEF Good, HandleFits, Works
<1>2. InLine(n) = InLine(h) /\ ItemsOf(n) = ItemsOf(h)
  BY DEF InLine, ItemsOf
<1>3. Works(n) => ToCome(n, c, g, InLine(n))
  BY <1>2 DEF Good, Works, ToCome
<1>4. Works(h) => WorkFits(h)
  BY DEF Good, LineFits
<1>5. Works(n) => WorkFits(n)
  BY <1>2, <1>4 DEF Works, WorkFits
<1>6. LineFits(n, g)
  BY <1>5 DEF Good, LineFits, Works
<1>7. QED
  BY <1>1, <1>3, <1>6 DEF Good

LEMMA ChainFollowsItself ==
    ASSUME NEW c, NEW b, ChainFits(c, b), NEW m \in 0 .. Len(c), NEW s, s = Prefix(c, m)
    PROVE  /\ SidecarFits(s, c, b) /\ Follows(s, c)
           /\ Len(s) = m /\ DOMAIN s = 1 .. m /\ \A p \in 1 .. m : s[p] = c[p]
<1>1. c \in Seq(1 .. b) /\ Len(c) \in Nat /\ DOMAIN c = 1 .. Len(c) /\ m \in Nat
  BY ChainFacts
<1>2. /\ s \in Seq(1 .. b) /\ Len(s) = m /\ DOMAIN s = 1 .. m
      /\ \A p \in 1 .. m : s[p] = c[p] /\ p \in 1 .. Len(c)
  <2>1. PICK S : S = 1 .. b
    OBVIOUS
  <2>2. s = SubSeq(c, 1, m) /\ c \in Seq(S)
    BY <1>1, <2>1 DEF Prefix
  <2>3. s \in Seq(S) /\ Len(s) = m /\ \A p \in 1 .. m : s[p] = c[p] /\ p \in 1 .. Len(c)
    BY <1>1, <2>2
  <2>4. DOMAIN s = 1 .. m
    BY <2>3
  <2>5. QED
    BY <2>1, <2>3, <2>4
<1>3. Rises(s)
  BY <1>1, <1>2 DEF ChainFits, Rises
<1>4. Follows(s, c)
  BY <1>1, <1>2 DEF Follows
<1>5. Aligned(s, c)
  <2>1. \A p \in 1 .. m : \A q \in 1 .. p : q \in 1 .. m
    BY <1>1
  <2>2. QED
    BY <1>2, <1>4, <2>1 DEF Follows, Aligned
<1>6. QED
  BY <1>2, <1>3, <1>4, <1>5 DEF SidecarFits

LEMMA WholeChain ==
    ASSUME NEW c, NEW b, ChainFits(c, b)
    PROVE  c = Prefix(c, Len(c)) /\ SidecarFits(c, c, b) /\ Follows(c, c)
<1>1. c \in Seq(Nat) /\ Len(c) \in 0 .. Len(c)
  BY ChainFacts
<1>2. c = Prefix(c, Len(c))
  BY <1>1 DEF Prefix
<1>3. QED
  BY <1>1, <1>2, ChainFollowsItself

LEMMA JobFitsLonger ==
    ASSUME NEW job \in EdgeJobs, NEW s, NEW t, JobFits(job, s), NEW n \in Nat,
           \A p \in 1 .. n : t[p] = s[p], ToSet(job.items) \subseteq 1 .. n
    PROVE  JobFits(job, t)
<1>1. job.items \in Seq(Nat) /\ job.sealed \in Nat
  BY DEF EdgeJobs
<1>2. ASSUME NEW k \in DOMAIN job.items
      PROVE  job.found[k] = Candidates(t[job.items[k]], Before(t, Min2(job.items[k], job.sealed + 1)))
  <2>1. PICK p : p = job.items[k]
    OBVIOUS
  <2>2. p \in 1 .. n /\ p \in Nat
    BY <1>1, <2>1 DEF ToSet
  <2>3. PICK m \in Nat : m = Min2(p, job.sealed + 1) /\ m <= p
    BY <1>1, <2>2 DEF Min2
  <2>4. \A q \in 1 .. m - 1 : t[q] = s[q]
    BY <2>2, <2>3
  <2>5. Before(t, m) = Before(s, m)
    BY <2>4 DEF Before
  <2>6. job.found[k] = Candidates(s[p], Before(s, m))
    BY <2>1, <2>3 DEF JobFits
  <2>7. QED
    BY <2>1, <2>2, <2>3, <2>5, <2>6
<1>3. QED
  BY <1>2 DEF JobFits

\* The sidecar is extended to position m.
Extended(t, h, c, b, g, m) ==
    /\ HandleFits(t, c, b, g) /\ LineFits(t, g) /\ Works(t)
    /\ ToCome(t, c, g, InLine(t) \cup (Len(h.sidecar) + 1 .. m))
    /\ \A w \in InLine(t) : w <= Len(h.sidecar) + 1
    /\ t.managed = h.managed /\ t.rebuild = h.rebuild /\ t.sidecar = Prefix(c, m)

LEMMA ExtendKeeps ==
    ASSUME NEW c, NEW b, ChainFits(c, b), NEW g \in BOOLEAN, NEW h, Good(h, c, b, g),
           h.managed = "auto", NEW m \in Nat, Len(h.sidecar) < m, m <= Len(c),
           NEW W, W \subseteq 1 .. Len(c),
           NEW t, t = [h EXCEPT !.sidecar = Prefix(c, m), !.waiting = W]
    PROVE  Extended(t, h, c, b, g, m)
<1>1. PICK s : s = h.sidecar
  OBVIOUS
<1>2. PICK x : x = Prefix(c, m)
  OBVIOUS
<1>3. /\ HandleFits(h, c, b, g) /\ LineFits(h, g) /\ ToCome(h, c, g, InLine(h)) /\ Works(h)
      /\ WorkFits(h) /\ h \in EdgeHandles /\ SidecarFits(s, c, b) /\ Follows(s, c)
  BY <1>1 DEF Good, Works, LineFits, HandleFits
<1>4. PICK n \in Nat : n = Len(s)
  BY <1>3, SidecarFacts
<1>5. /\ DOMAIN s = 1 .. n /\ n < m /\ n <= Len(c) /\ Len(c) \in Nat /\ DOMAIN c = 1 .. Len(c)
      /\ \A p \in 1 .. n : s[p] = c[p]
  <2>1. DOMAIN s = 1 .. n /\ n < m /\ Len(c) \in Nat /\ DOMAIN c = 1 .. Len(c)
    BY <1>1, <1>3, <1>4, SidecarFacts, ChainFacts
  <2>2. QED
    BY <1>3, <2>1 DEF Follows
<1>6. /\ SidecarFits(x, c, b) /\ Follows(x, c) /\ DOMAIN x = 1 .. m /\ \A p \in 1 .. m : x[p] = c[p]
  BY <1>2, <1>5, ChainFollowsItself
<1>7. x \in Seq(Ids)
  BY <1>6, SidecarFacts
<1>8. W \in SUBSET Nat
  BY <1>5
<1>9. t = [h EXCEPT !.sidecar = x, !.waiting = W]
  BY <1>2
<1>10. t \in EdgeHandles
  BY <1>3, <1>7, <1>8, <1>9 DEF EdgeHandles
<1>11. /\ t.managed = h.managed /\ t.sidecar = x /\ t.waiting = W /\ t.rebuild = h.rebuild
       /\ t.overlay = h.overlay /\ t.queue = h.queue /\ t.job = h.job
       /\ t.saved = h.saved /\ t.dirty = h.dirty
  BY <1>3, <1>9 DEF EdgeHandles
<1>12. ToSet(s) \subseteq ToSet(x)
  <2>1. \A p \in 1 .. n : p \in 1 .. m /\ x[p] = s[p]
    BY <1>5, <1>6
  <2>2. QED
    BY <1>5, <1>6, <2>1 DEF ToSet
<1>13. ASSUME NEW o, KeptFits(o, h.managed, s, c, b, g) PROVE KeptFits(o, t.managed, x, c, b, g)
  BY <1>11, <1>12, <1>13 DEF KeptFits
<1>14. HandleFits(t, c, b, g)
  BY <1>1, <1>3, <1>6, <1>10, <1>11, <1>13 DEF HandleFits, Works
<1>15. InLine(t) = InLine(h) /\ ItemsOf(t) = ItemsOf(h)
  BY <1>11 DEF InLine, ItemsOf
<1>16. InLine(h) \subseteq 1 .. n /\ InLine(h) \subseteq 1 .. Len(c)
  BY <1>1, <1>3, <1>5 DEF ToCome
<1>17. h.job # NoJob => JobFits(h.job, x)
  <2>1. SUFFICES ASSUME h.job # NoJob PROVE JobFits(h.job, x)
    OBVIOUS
  <2>2. JobFits(h.job, s) /\ h.job \in EdgeJobs
    BY <1>1, <1>3, <2>1 DEF WorkFits, EdgeHandles
  <2>3. ToSet(h.job.items) \subseteq 1 .. n
    BY <1>16, <2>1 DEF InLine, ItemsOf
  <2>4. \A p \in 1 .. n : x[p] = s[p]
    BY <1>5, <1>6
  <2>5. QED
    BY <2>2, <2>3, <2>4, JobFitsLonger
<1>18. WorkFits(t)
  BY <1>3, <1>11, <1>15, <1>17 DEF WorkFits
<1>19. LineFits(t, g) /\ Works(t)
  BY <1>3, <1>11, <1>18 DEF LineFits, Works
<1>20. ToCome(t, c, g, InLine(h) \cup (n + 1 .. m))
  <2>1. InLine(h) \cup (n + 1 .. m) \subseteq 1 .. Len(c)
        /\ InLine(h) \cup (n + 1 .. m) \subseteq DOMAIN x
    BY <1>5, <1>6, <1>16
  <2>2. SUFFICES ASSUME h.overlay # NoOverlay
                 PROVE  Due(h.overlay, x, c, g, InLine(h) \cup (n + 1 .. m))
    BY <1>11, <2>1 DEF ToCome
  <2>3. PICK o : o = h.overlay
    OBVIOUS
  <2>4. Due(o, s, c, g, InLine(h)) /\ KeptFits(o, "auto", s, c, b, g)
    BY <1>1, <1>3, <2>2, <2>3 DEF ToCome, HandleFits
  <2>5. ASSUME Plain(o, c), NEW q \in n + 1 .. m PROVE \A k \in o.known : k < x[q]
    <3>1. TAKE k \in o.known
    <3>2. k \in ToSet(s)
      BY <2>2, <2>3, <2>4, <2>5 DEF KeptFits
    <3>3. PICK p \in 1 .. n : k = s[p]
      BY <1>5, <3>2 DEF ToSet
    <3>4. p < q /\ p \in 1 .. m /\ q \in 1 .. m
      BY <1>5
    <3>5. x[p] < x[q]
      BY <1>6, <3>4 DEF SidecarFits, Rises
    <3>6. QED
      BY <1>5, <1>6, <3>3, <3>4, <3>5
  <2>6. ASSUME Plain(o, c), NEW q \in InLine(h), x[q] \in ToSet(c)
        PROVE  x[q] \in o.known \/ \A k \in o.known : k < x[q]
    <3>1. q \in 1 .. n /\ x[q] = s[q]
      BY <1>5, <1>6, <1>16
    <3>2. QED
      BY <2>4, <2>6, <3>1 DEF Due
  <2>7. ASSUME g, NEW p \in 1 .. m PROVE x[p] \in o.known \/ p \in InLine(h) \cup (n + 1 .. m)
    <3>1. CASE p \in 1 .. n
      BY <1>5, <1>6, <2>4, <2>7, <3>1 DEF Due
    <3>2. CASE p \in n + 1 .. m
      BY <3>2
    <3>3. QED
      BY <3>1, <3>2
  <2>8. QED
    BY <1>6, <2>3, <2>5, <2>6, <2>7 DEF Due
<1>21. \A w \in InLine(t) : w <= n + 1
  BY <1>15, <1>16
<1>22. QED
  BY <1>1, <1>2, <1>4, <1>11, <1>14, <1>15, <1>19, <1>20, <1>21 DEF Extended

LEMMA DrainPlaces ==
    ASSUME NEW c, NEW b, ChainFits(c, b), NEW g \in BOOLEAN, NEW h, HandleFits(h, c, b, g),
           NEW m \in Drains(h)
    PROVE  /\ m \in Nat /\ Len(h.sidecar) \in Nat /\ Len(h.sidecar) <= m
           /\ m # Len(h.sidecar) => m <= Len(c) /\ h.managed = "auto"
<1>1. h.waiting \subseteq 1 .. Len(c) /\ Len(c) \in Nat /\ Len(h.sidecar) \in Nat
  BY SidecarFacts, ChainFacts DEF HandleFits
<1>2. Cardinality(h.waiting) \in Nat
  <2>1. PICK W : W = h.waiting
    OBVIOUS
  <2>2. IsFiniteSet(1 .. Len(c))
    BY <1>1, FS_Interval
  <2>3. IsFiniteSet(W)
    BY <1>1, <2>1, <2>2, FS_Subset
  <2>4. QED
    BY <2>1, <2>3, FS_CardinalityType
<1>3. m \in Nat /\ Len(h.sidecar) <= m /\ Len(h.sidecar) + 1 .. m \subseteq h.waiting
  BY <1>1, <1>2 DEF Drains
<1>4. m # Len(h.sidecar) => m \in Len(h.sidecar) + 1 .. m
  BY <1>1, <1>3
<1>5. QED
  BY <1>1, <1>3, <1>4 DEF HandleFits

\* What a drain leaves alone.
Alike(n, h) == n.managed = h.managed /\ n.rebuild = h.rebuild

LEMMA DrainKeeps ==
    ASSUME NEW c, NEW b, ChainFits(c, b), NEW g \in BOOLEAN, NEW h, Good(h, c, b, g),
           NEW m \in Drains(h), NEW n, n = DrainEdges(h, c, m)
    PROVE  Good(n, c, b, g) /\ Alike(n, h)
<1>1. HandleFits(h, c, b, g)
  BY DEF Good
<1>2. CASE h.rebuild \/ m = Len(h.sidecar)
  <2>1. n = h
    BY <1>2 DEF DrainEdges
  <2>2. QED
    BY <2>1 DEF Alike
<1>3. CASE ~ h.rebuild /\ m # Len(h.sidecar)
  <2>1. /\ m \in Nat /\ Len(h.sidecar) \in Nat /\ Len(h.sidecar) < m /\ m <= Len(c)
        /\ h.managed = "auto"
    BY <1>1, <1>3, DrainPlaces
  <2>2. PICK W : W = h.waiting \ 1 .. m
    OBVIOUS
  <2>3. W \subseteq 1 .. Len(c)
    BY <1>1, <2>2 DEF HandleFits
  <2>4. PICK t : t = [h EXCEPT !.sidecar = Prefix(c, m), !.waiting = W]
    OBVIOUS
  <2>5. n = QueueEdges(t, Len(h.sidecar) + 1, m)
    BY <1>3, <2>2, <2>4 DEF DrainEdges
  <2>6. Extended(t, h, c, b, g, m)
    BY <2>1, <2>3, <2>4, ExtendKeeps
  <2>7. PICK from \in Nat \ {0} : from = Len(h.sidecar) + 1 /\ from <= m
    BY <2>1
  <2>8. /\ HandleFits(t, c, b, g) /\ LineFits(t, g) /\ Works(t)
        /\ ToCome(t, c, g, InLine(t) \cup (from .. m)) /\ \A w \in InLine(t) : w <= from
        /\ t.managed = h.managed /\ t.rebuild = h.rebuild
    BY <2>6, <2>7 DEF Extended
  <2>9. Good(n, c, b, g) /\ Beside(n, t)
    BY <2>1, <2>5, <2>7, <2>8, QueueKeeps
  <2>10. QED
    BY <2>8, <2>9 DEF Beside, Alike
<1>4. QED
  BY <1>2, <1>3

\* A chain gets a sidecar of its own.
LEMMA ManageKeeps ==
    ASSUME NEW c, NEW b, ChainFits(c, b), NEW g \in BOOLEAN, NEW h, HandleFits(h, c, b, g),
           g => b <= MaxFullBuild, NEW n, n = Manage(h, c)
    PROVE  Good(n, c, b, g) /\ n.managed = "auto" /\ n.rebuild = h.rebuild
<1>1. PICK m : m = [h EXCEPT !.managed = "auto", !.sidecar = c, !.waiting = {}]
  OBVIOUS
<1>2. n = LoadOverlay(m, c)
  BY <1>1 DEF Manage
<1>3. h \in EdgeHandles /\ SidecarFits(c, c, b) /\ Follows(c, c) /\ c \in Seq(Ids)
  BY WholeChain, ChainFacts DEF HandleFits
<1>4. /\ m \in EdgeHandles /\ m.managed = "auto" /\ m.sidecar = c /\ m.waiting = {}
      /\ m.rebuild = h.rebuild /\ m.overlay = h.overlay /\ m.saved = h.saved /\ m.dirty = h.dirty
  BY <1>1, <1>3 DEF EdgeHandles
<1>5. ASSUME NEW o, KeptFits(o, h.managed, h.sidecar, c, b, g)
      PROVE  KeptFits(o, m.managed, m.sidecar, c, b, g)
  BY <1>4, <1>5 DEF KeptFits, Plain
<1>6. HandleFits(m, c, b, g) /\ Works(m)
  BY <1>3, <1>4, <1>5 DEF HandleFits, Works
<1>7. g => m.sidecar = c /\ b <= MaxFullBuild /\ m.managed = "auto"
  BY <1>4
<1>8. Good(n, c, b, g) /\ n.managed = m.managed /\ n.rebuild = m.rebuild
  BY <1>2, <1>6, <1>7, LoadOverlayKeeps
<1>9. QED
  BY <1>4, <1>8

LEMMA PollKeeps ==
    ASSUME NEW c, NEW b, ChainFits(c, b), NEW g \in BOOLEAN, NEW h, Good(h, c, b, g),
           g => b <= MaxFullBuild, h.managed # "closed", NEW adopt \in BOOLEAN, NEW m,
           NEW n, n = PollEdges(h, c, adopt, m)
    PROVE  Good(n, c, b, g) /\ n.managed # "closed"
<1>1. PICK x : x = IF adopt THEN AdoptRebuild(h, c) ELSE h
  OBVIOUS
<1>2. Good(x, c, b, g) /\ x.managed # "closed"
  <2>1. CASE ~ adopt
    BY <1>1, <2>1
  <2>2. CASE adopt
    <3>1. PICK y : y = [h EXCEPT !.rebuild = FALSE]
      OBVIOUS
    <3>2. x = Manage(y, c)
      BY <1>1, <2>2, <3>1 DEF AdoptRebuild
    <3>3. h \in EdgeHandles /\ HandleFits(h, c, b, g)
      BY DEF Good, HandleFits
    <3>4. /\ y \in EdgeHandles /\ y.managed = h.managed /\ y.sidecar = h.sidecar
          /\ y.waiting = h.waiting /\ y.overlay = h.overlay
          /\ y.queue = h.queue /\ y.job = h.job /\ y.saved = h.saved /\ y.dirty = h.dirty
      BY <3>1, <3>3 DEF EdgeHandles
    <3>5. HandleFits(y, c, b, g)
      BY <3>3, <3>4 DEF HandleFits, Works
    <3>6. Good(x, c, b, g) /\ x.managed = "auto"
      BY <3>2, <3>5, ManageKeeps
    <3>7. QED
      BY <3>6
  <2>3. QED
    BY <2>1, <2>2
<1>3. PICK y : y = IF m \in Drains(x) THEN DrainEdges(x, c, m) ELSE x
  OBVIOUS
<1>4. Good(y, c, b, g) /\ y.managed # "closed"
  <2>1. CASE m \in Drains(x)
    <3>1. y = DrainEdges(x, c, m)
      BY <1>3, <2>1
    <3>2. Good(y, c, b, g) /\ Alike(y, x)
      BY <1>2, <2>1, <3>1, DrainKeeps
    <3>3. QED
      BY <1>2, <3>2 DEF Alike
  <2>2. CASE m \notin Drains(x)
    BY <1>2, <1>3, <2>2
  <2>3. QED
    BY <2>1, <2>2
<1>5. n = AdoptJob(y)
  BY <1>1, <1>3 DEF PollEdges
<1>6. Good(n, c, b, g) /\ Beside(n, y)
  BY <1>4, <1>5, AdoptJobKeeps
<1>7. QED
  BY <1>4, <1>6 DEF Beside

\* The vector of the newest thought may be there already, or has just come.
NearlyGood(h, c, b, g) ==
    /\ HandleFits(h, c, b, g) /\ LineFits(h, g)
    /\ Works(h) => ToCome(h, c, g, InLine(h) \cup ({Len(c)} \cap DOMAIN h.sidecar))

\* The newest thought of the chain is the newest there is.
LEMMA NewestComesLast ==
    ASSUME NEW c, NEW b, ChainFits(c, b), Len(c) > 0, c[Len(c)] = b,
           NEW s, SidecarFits(s, c, b), Len(c) \in DOMAIN s, s[Len(c)] \in ToSet(c),
           NEW known, known \subseteq 1 .. b
    PROVE  s[Len(c)] \in known \/ \A k \in known : k < s[Len(c)]
<1>1. Len(c) \in Nat /\ Len(c) \in 1 .. Len(c) /\ b \in Nat
  BY ChainFacts
<1>2. s[Len(c)] = c[Len(c)]
  BY <1>1 DEF SidecarFits, Aligned
<1>3. QED
  BY <1>1, <1>2

LEMMA GoodIsNearly ==
    ASSUME NEW c, NEW b, ChainFits(c, b), Len(c) > 0, c[Len(c)] = b, NEW g \in BOOLEAN,
           NEW h, Good(h, c, b, g)
    PROVE  NearlyGood(h, c, b, g)
<1>1. PICK R : R = InLine(h) \cup ({Len(c)} \cap DOMAIN h.sidecar)
  OBVIOUS
<1>2. HandleFits(h, c, b, g) /\ LineFits(h, g) /\ SidecarFits(h.sidecar, c, b)
  BY DEF Good, HandleFits
<1>3. ASSUME Works(h) PROVE ToCome(h, c, g, R)
  <2>1. ToCome(h, c, g, InLine(h))
    BY <1>3 DEF Good
  <2>2. Len(c) \in 1 .. Len(c)
    BY ChainFacts
  <2>3. R \subseteq 1 .. Len(c) /\ R \subseteq DOMAIN h.sidecar
    BY <1>1, <2>1, <2>2 DEF ToCome
  <2>4. ASSUME h.overlay # NoOverlay PROVE Due(h.overlay, h.sidecar, c, g, R)
    <3>1. Due(h.overlay, h.sidecar, c, g, InLine(h))
      BY <2>1, <2>4 DEF ToCome
    <3>2. h.overlay.known \subseteq 1 .. b
      BY <1>2, <2>4 DEF HandleFits, KeptFits, OverlayFits
    <3>3. Len(c) \in DOMAIN h.sidecar /\ h.sidecar[Len(c)] \in ToSet(c) =>
            \/ h.sidecar[Len(c)] \in h.overlay.known
            \/ \A k \in h.overlay.known : k < h.sidecar[Len(c)]
      BY <1>2, <3>2, NewestComesLast
    <3>4. QED
      BY <1>1, <3>1, <3>3 DEF Due
  <2>5. QED
    BY <2>3, <2>4 DEF ToCome
<1>4. QED
  BY <1>1, <1>2, <1>3 DEF NearlyGood

LEMMA SyncKeeps ==
    ASSUME NEW c, NEW b, ChainFits(c, b), Len(c) > 0, NEW g \in BOOLEAN,
           NEW h, NearlyGood(h, c, b, g), NEW n, n = SyncOverlay(h, Len(c))
    PROVE  Good(n, c, b, g) /\ n.managed = h.managed
<1>1. HandleFits(h, c, b, g) /\ LineFits(h, g) /\ SidecarFits(h.sidecar, c, b)
  BY DEF NearlyGood, HandleFits
<1>2. Len(h.sidecar) \in Nat /\ DOMAIN h.sidecar = 1 .. Len(h.sidecar)
      /\ Len(c) \in Nat
  BY <1>1, SidecarFacts, ChainFacts
<1>3. CASE Len(h.sidecar) < Len(c)
  <2>1. n = h
    BY <1>3 DEF SyncOverlay
  <2>2. {Len(c)} \cap DOMAIN h.sidecar = {}
    BY <1>2, <1>3
  <2>3. Works(h) => ToCome(h, c, g, InLine(h))
    BY <2>2 DEF NearlyGood
  <2>4. QED
    BY <1>1, <2>1, <2>3 DEF Good
<1>4. CASE ~ (Len(h.sidecar) < Len(c))
  <2>1. n = QueueEdges(h, Len(c), Len(c))
    BY <1>4 DEF SyncOverlay
  <2>2. Len(c) \in DOMAIN h.sidecar
    BY <1>2, <1>4
  <2>3. Works(h)
    <3>1. DOMAIN <<>> = {}
      OBVIOUS
    <3>2. QED
      BY <1>1, <2>2, <3>1 DEF HandleFits
  <2>4. PICK p \in Nat \ {0} : p = Len(c)
    BY <1>2
  <2>5. p .. p = {p} /\ p <= p /\ p \in Nat
    OBVIOUS
  <2>6. {Len(c)} \cap DOMAIN h.sidecar = p .. p
    BY <2>2, <2>4, <2>5
  <2>7. ToCome(h, c, g, InLine(h) \cup (p .. p))
    BY <2>3, <2>6 DEF NearlyGood
  <2>8. \A w \in InLine(h) : w <= p
    BY <1>2, <2>4, <2>7 DEF ToCome
  <2>9. Good(n, c, b, g) /\ Beside(n, h)
    BY <1>1, <2>1, <2>3, <2>4, <2>5, <2>7, <2>8, QueueKeeps
  <2>10. QED
    BY <2>9 DEF Beside
<1>5. QED
  BY <1>3, <1>4

-----------------------------------------------------------------------------
(* A chain that grows, or loses its newest thought. *)

\* What is known of less.
LEMMA WeakerFits ==
    ASSUME NEW c, NEW b, NEW g \in BOOLEAN, NEW k \in BOOLEAN, k => g
    PROVE  /\ \A o : OverlayFits(o, c, b, g) => OverlayFits(o, c, b, k)
           /\ \A o, m, s : KeptFits(o, m, s, c, b, g) => KeptFits(o, m, s, c, b, k)
           /\ \A h : HandleFits(h, c, b, g) => HandleFits(h, c, b, k)
           /\ \A h, R : ToCome(h, c, g, R) => ToCome(h, c, k, R)
           /\ \A h : LineFits(h, g) => LineFits(h, k)
           /\ \A h : Good(h, c, b, g) => Good(h, c, b, k)
<1>1. \A o : OverlayFits(o, c, b, g) => OverlayFits(o, c, b, k)
  BY DEF OverlayFits
<1>2. \A o, m, s : KeptFits(o, m, s, c, b, g) => KeptFits(o, m, s, c, b, k)
  BY <1>1 DEF KeptFits
<1>3. \A h : HandleFits(h, c, b, g) => HandleFits(h, c, b, k)
  BY <1>2 DEF HandleFits
<1>4. \A h, R : ToCome(h, c, g, R) => ToCome(h, c, k, R)
  BY DEF ToCome, Due
<1>5. \A h : LineFits(h, g) => LineFits(h, k)
  BY DEF LineFits
<1>6. QED
  BY <1>1, <1>2, <1>3, <1>4, <1>5 DEF Good

\* d is c with a thought appended.
Longer(d, c, b) ==
    /\ ChainFits(d, b + 1) /\ Len(d) = Len(c) + 1 /\ d[Len(d)] = b + 1
    /\ \A p \in 1 .. Len(c) : d[p] = c[p]
    /\ ToSet(d) = ToSet(c) \cup {b + 1}

LEMMA LongerChain ==
    ASSUME NEW c, NEW b, ChainFits(c, b), b + 1 \in Ids, NEW d, d = Append(c, b + 1)
    PROVE  Longer(d, c, b)
<1>1. /\ b \in Nat /\ Len(c) \in Nat /\ DOMAIN c = 1 .. Len(c) /\ c \in Seq(1 .. b) /\ c \in Seq(Nat)
      /\ Len(c) <= b /\ MaxBorn \in Nat /\ b + 1 <= MaxBorn
      /\ \A p \in 1 .. Len(c) : c[p] \in 1 .. b /\ c[p] \in Nat
  <2>1. /\ b \in Nat /\ Len(c) \in Nat /\ DOMAIN c = 1 .. Len(c) /\ c \in Seq(1 .. b)
        /\ c \in Seq(Nat) /\ \A p \in 1 .. Len(c) : c[p] \in 1 .. b /\ c[p] \in Nat
    BY ChainFacts
  <2>2. MaxBorn \in Nat /\ b + 1 <= MaxBorn
    BY EdgeConstants DEF Ids
  <2>3. Len(c) <= b
    BY DEF ChainFits
  <2>4. QED
    BY <2>1, <2>2, <2>3
<1>2. /\ d \in Seq(Nat) /\ Len(d) = Len(c) + 1 /\ DOMAIN d = 1 .. Len(c) + 1
      /\ d[Len(c) + 1] = b + 1 /\ \A p \in 1 .. Len(c) : d[p] = c[p]
  BY <1>1
<1>3. d \in Seq(1 .. b + 1)
  <2>1. PICK S : S = 1 .. b + 1
    OBVIOUS
  <2>2. c \in Seq(S)
    <3>1. \A p \in 1 .. Len(c) : c[p] \in S
      BY <1>1, <2>1
    <3>2. QED
      BY <1>1, <3>1
  <2>3. b + 1 \in S
    BY <1>1, <2>1
  <2>4. d \in Seq(S)
    BY <2>2, <2>3
  <2>5. QED
    BY <2>1, <2>4
<1>4. Rises(d)
  BY <1>1, <1>2 DEF Rises, ChainFits
<1>5. ToSet(d) = ToSet(c) \cup {b + 1}
  <2>1. ToSet(d) = {d[p] : p \in 1 .. Len(c) + 1}
    BY <1>2 DEF ToSet
  <2>2. ToSet(c) = {c[p] : p \in 1 .. Len(c)}
    BY <1>1 DEF ToSet
  <2>3. \A p : p \in 1 .. Len(c) + 1 <=> p \in 1 .. Len(c) \/ p = Len(c) + 1
    BY <1>1
  <2>4. QED
    BY <1>2, <2>1, <2>2, <2>3
<1>6. QED
  BY <1>1, <1>2, <1>3, <1>4, <1>5 DEF Longer, ChainFits

LEMMA GrownSidecar ==
    ASSUME NEW c, NEW b, ChainFits(c, b), NEW d, Longer(d, c, b), NEW s, SidecarFits(s, c, b)
    PROVE  SidecarFits(s, d, b + 1)
<1>1. /\ b \in Nat /\ Len(c) \in Nat /\ DOMAIN c = 1 .. Len(c) /\ DOMAIN d = 1 .. Len(d)
      /\ Len(d) = Len(c) + 1 /\ ToSet(d) = ToSet(c) \cup {b + 1}
      /\ \A p \in 1 .. Len(c) : d[p] = c[p]
  BY ChainFacts DEF Longer, ChainFits
<1>2. s \in Seq(Nat) /\ \A p \in DOMAIN s : s[p] \in 1 .. b
  BY SidecarFacts
<1>3. s \in Seq(1 .. b + 1)
  <2>1. PICK S : S = 1 .. b + 1
    OBVIOUS
  <2>2. \A p \in 1 .. Len(s) : s[p] \in S
    BY <1>1, <1>2, <2>1
  <2>3. s \in Seq(S)
    BY <1>2, <2>2
  <2>4. QED
    BY <2>1, <2>3
<1>4. Aligned(s, d)
  <2>1. SUFFICES ASSUME NEW p \in DOMAIN s, s[p] \in ToSet(d), NEW q \in 1 .. p
                 PROVE  q \in DOMAIN d /\ d[q] = s[q]
    BY DEF Aligned
  <2>2. s[p] \in ToSet(c)
    BY <1>1, <1>2, <2>1
  <2>3. q \in DOMAIN c /\ c[q] = s[q]
    BY <2>2 DEF SidecarFits, Aligned
  <2>4. QED
    BY <1>1, <2>3
<1>5. QED
  BY <1>3, <1>4 DEF SidecarFits

LEMMA GrownFits ==
    ASSUME NEW c, NEW b, ChainFits(c, b), NEW d, Longer(d, c, b), NEW g \in BOOLEAN,
           NEW o, OverlayFits(o, c, b, g)
    PROVE  OverlayFits(o, d, b + 1, g) /\ (Plain(o, d) => Plain(o, c))
<1>1. /\ b \in Nat /\ Len(c) \in Nat /\ Len(d) = Len(c) + 1 /\ ToSet(d) = ToSet(c) \cup {b + 1}
      /\ d[Len(d)] = b + 1 /\ \A p \in 1 .. Len(c) : d[p] = c[p]
      /\ MaxBorn \in Nat /\ b + 1 <= MaxBorn
      /\ o \in Overlays /\ o.known \subseteq 1 .. b /\ o.head <= b /\ o.head \in Nat
      /\ ToSet(c) \subseteq 1 .. b
  <2>1. b \in Nat /\ Len(c) \in Nat /\ MaxBorn \in Nat /\ ToSet(c) \subseteq 1 .. b
    BY ChainFacts, EdgeConstants
  <2>2. /\ Len(d) = Len(c) + 1 /\ ToSet(d) = ToSet(c) \cup {b + 1} /\ b + 1 <= MaxBorn
        /\ d[Len(d)] = b + 1 /\ \A p \in 1 .. Len(c) : d[p] = c[p]
    BY <2>1 DEF Longer, ChainFits
  <2>3. o \in Overlays /\ o.known \subseteq 1 .. b /\ o.head <= b /\ o.head \in Nat
    BY DEF OverlayFits, Overlays
  <2>4. QED
    BY <2>1, <2>2, <2>3
<1>2. Plain(o, d) => Plain(o, c)
  BY <1>1 DEF Plain
<1>3. ASSUME Plain(o, c), NEW i \in ToSet(d) \cup (b + 2 .. MaxBorn)
      PROVE  o.edges[i] = Neighbours(d, i, o.known)
  <2>1. i \in ToSet(c) \cup (b + 1 .. MaxBorn) /\ i \in Nat
    BY <1>1
  <2>2. Compared(d, i, o.known) = Compared(c, i, o.known)
    BY <1>1, <2>1 DEF Compared
  <2>3. o.edges[i] = Neighbours(c, i, o.known)
    BY <1>3, <2>1 DEF OverlayFits, EdgesFit
  <2>4. QED
    BY <2>2, <2>3 DEF Neighbours
<1>4. Plain(o, d) => EdgesFit(o, d, b + 1) /\ \A k \in o.known : k <= o.head
  <2>1. b + 1 + 1 = b + 2
    BY <1>1
  <2>2. QED
    BY <1>2, <1>3, <2>1 DEF EdgesFit, OverlayFits
<1>5. ASSUME g PROVE Covers(o, d)
  <2>1. SUFFICES ASSUME o.covered \in 1 .. Len(d), d[o.covered] = o.head, NEW q \in 1 .. o.covered
                 PROVE  d[q] \in o.known
    BY DEF Covers
  <2>2. o.covered # Len(d)
    BY <1>1, <2>1
  <2>3. o.covered \in 1 .. Len(c) /\ q \in 1 .. Len(c)
    BY <1>1, <2>1, <2>2
  <2>4. c[o.covered] = o.head
    BY <1>1, <2>1, <2>3
  <2>5. Covers(o, c)
    BY <1>5 DEF OverlayFits
  <2>6. QED
    BY <1>1, <2>3, <2>4, <2>5 DEF Covers
<1>6. o.known \subseteq 1 .. b + 1 /\ o.head <= b + 1
  BY <1>1
<1>7. QED
  BY <1>1, <1>2, <1>4, <1>5, <1>6 DEF OverlayFits

LEMMA GrowKeeps ==
    ASSUME NEW c, NEW b, ChainFits(c, b), NEW d, Longer(d, c, b), NEW g \in BOOLEAN,
           NEW h, Good(h, c, b, g)
    PROVE  Good(h, d, b + 1, g)
<1>1. /\ Len(c) \in Nat /\ DOMAIN c = 1 .. Len(c) /\ DOMAIN d = 1 .. Len(d) /\ Len(d) = Len(c) + 1
      /\ ToSet(d) = ToSet(c) \cup {b + 1} /\ \A p \in 1 .. Len(c) : d[p] = c[p] /\ p \in 1 .. Len(d)
      /\ b \in Nat
  BY ChainFacts DEF Longer, ChainFits
<1>2. /\ HandleFits(h, c, b, g) /\ (Works(h) => ToCome(h, c, g, InLine(h))) /\ LineFits(h, g)
      /\ SidecarFits(h.sidecar, c, b)
  BY DEF Good, HandleFits
<1>3. ASSUME NEW o, NEW m, NEW s, KeptFits(o, m, s, c, b, g) PROVE KeptFits(o, m, s, d, b + 1, g)
  <2>1. SUFFICES ASSUME o # NoOverlay
                 PROVE  OverlayFits(o, d, b + 1, g)
                        /\ (m = "auto" /\ Plain(o, d) => o.known \subseteq ToSet(s))
    BY DEF KeptFits
  <2>2. OverlayFits(o, c, b, g) /\ (m = "auto" /\ Plain(o, c) => o.known \subseteq ToSet(s))
    BY <1>3, <2>1 DEF KeptFits
  <2>3. OverlayFits(o, d, b + 1, g) /\ (Plain(o, d) => Plain(o, c))
    BY <2>2, GrownFits
  <2>4. QED
    BY <2>2, <2>3
<1>4. SidecarFits(h.sidecar, d, b + 1)
  BY <1>2, GrownSidecar
<1>5. h.managed = "auto" => Follows(h.sidecar, d)
  BY <1>1, <1>2 DEF HandleFits, Follows
<1>6. h.waiting \subseteq 1 .. Len(d)
  BY <1>1, <1>2 DEF HandleFits
<1>7. HandleFits(h, d, b + 1, g)
  BY <1>2, <1>3, <1>4, <1>5, <1>6 DEF HandleFits
<1>8. ASSUME Works(h) PROVE ToCome(h, d, g, InLine(h))
  <2>1. ToCome(h, c, g, InLine(h))
    BY <1>2, <1>8
  <2>2. InLine(h) \subseteq 1 .. Len(d) /\ InLine(h) \subseteq DOMAIN h.sidecar
    BY <1>1, <2>1 DEF ToCome
  <2>3. ASSUME h.overlay # NoOverlay PROVE Due(h.overlay, h.sidecar, d, g, InLine(h))
    <3>1. Due(h.overlay, h.sidecar, c, g, InLine(h)) /\ OverlayFits(h.overlay, c, b, g)
      BY <1>2, <2>1, <2>3 DEF ToCome, HandleFits, KeptFits
    <3>2. Plain(h.overlay, d) => Plain(h.overlay, c)
      BY <3>1, GrownFits
    <3>3. \A p \in DOMAIN h.sidecar : h.sidecar[p] \in ToSet(d) => h.sidecar[p] \in ToSet(c)
      <4>1. \A p \in DOMAIN h.sidecar : h.sidecar[p] \in 1 .. b
        BY <1>2, SidecarFacts
      <4>2. QED
        BY <1>1, <4>1
    <3>4. QED
      BY <2>2, <3>1, <3>2, <3>3 DEF Due
  <2>4. QED
    BY <2>2, <2>3 DEF ToCome
<1>9. QED
  BY <1>2, <1>7, <1>8 DEF Good

LEMMA CutSidecar ==
    ASSUME NEW c, NEW b, ChainFits(c, b), NEW s, SidecarFits(s, c, b), NEW n \in 0 .. Len(s),
           NEW t, t = Prefix(s, n)
    PROVE  SidecarFits(t, c, b)
<1>1. s \in Seq(1 .. b) /\ Len(s) \in Nat /\ DOMAIN s = 1 .. Len(s) /\ n \in Nat
  BY SidecarFacts DEF SidecarFits
<1>2. PICK S : S = 1 .. b
  OBVIOUS
<1>3. /\ t \in Seq(S) /\ Len(t) = n /\ \A p \in 1 .. n : t[p] = s[p] /\ p \in 1 .. Len(s)
  <2>1. t = SubSeq(s, 1, n) /\ s \in Seq(S)
    BY <1>1, <1>2 DEF Prefix
  <2>2. QED
    BY <1>1, <2>1
<1>4. DOMAIN t = 1 .. n
  BY <1>3
<1>5. Rises(t)
  BY <1>1, <1>3, <1>4 DEF SidecarFits, Rises
<1>6. Aligned(t, c)
  <2>1. SUFFICES ASSUME NEW p \in 1 .. n, t[p] \in ToSet(c), NEW q \in 1 .. p
                 PROVE  q \in DOMAIN c /\ c[q] = t[q]
    BY <1>4 DEF Aligned
  <2>2. s[p] \in ToSet(c) /\ p \in DOMAIN s
    BY <1>1, <1>3, <2>1
  <2>3. q \in DOMAIN c /\ c[q] = s[q]
    BY <2>2 DEF SidecarFits, Aligned
  <2>4. q \in 1 .. n
    BY <1>1
  <2>5. QED
    BY <1>3, <2>3, <2>4
<1>7. QED
  BY <1>2, <1>3, <1>5, <1>6 DEF SidecarFits

\* d is what is left of c.
Shorter(d, c, b) ==
    /\ ChainFits(d, b) /\ Len(d) \in Nat /\ Len(d) <= Len(c) /\ DOMAIN d = 1 .. Len(d)
    /\ \A p \in 1 .. Len(d) : d[p] = c[p] /\ p \in DOMAIN c
    /\ ToSet(d) \subseteq ToSet(c)
    /\ \A i \in ToSet(d), j \in ToSet(c) : j \notin ToSet(d) => i < j

LEMMA ShorterChain ==
    ASSUME NEW c, NEW b, ChainFits(c, b), NEW n \in 0 .. Len(c), NEW d, d = Prefix(c, n)
    PROVE  Shorter(d, c, b)
<1>1. /\ b \in 0 .. MaxBorn /\ Len(c) \in Nat /\ DOMAIN c = 1 .. Len(c) /\ Len(c) <= b /\ b \in Nat
      /\ n \in Nat /\ n <= Len(c) /\ \A p \in 1 .. Len(c) : c[p] \in Nat
  <2>1. b \in 0 .. MaxBorn /\ Len(c) <= b
    BY DEF ChainFits
  <2>2. Len(c) \in Nat /\ DOMAIN c = 1 .. Len(c) /\ b \in Nat
        /\ \A p \in 1 .. Len(c) : c[p] \in Nat
    BY ChainFacts
  <2>3. QED
    BY <2>1, <2>2
<1>2. /\ d \in Seq(1 .. b) /\ Rises(d) /\ Len(d) = n /\ DOMAIN d = 1 .. n
      /\ \A p \in 1 .. n : d[p] = c[p] /\ p \in 1 .. Len(c)
  <2>1. SidecarFits(d, c, b) /\ Len(d) = n /\ DOMAIN d = 1 .. n /\ \A p \in 1 .. n : d[p] = c[p]
    BY ChainFollowsItself
  <2>2. QED
    BY <1>1, <2>1 DEF SidecarFits
<1>3. ChainFits(d, b)
  BY <1>1, <1>2 DEF ChainFits
<1>4. ToSet(d) \subseteq ToSet(c)
  BY <1>1, <1>2 DEF ToSet
<1>5. ASSUME NEW i \in ToSet(d), NEW j \in ToSet(c), j \notin ToSet(d) PROVE i < j
  <2>1. PICK p \in 1 .. n : i = c[p]
    BY <1>2 DEF ToSet
  <2>2. PICK q \in 1 .. Len(c) : j = c[q]
    BY <1>1 DEF ToSet
  <2>3. q \notin 1 .. n
    BY <1>2, <1>5, <2>2 DEF ToSet
  <2>4. p < q /\ p \in DOMAIN c /\ q \in DOMAIN c
    BY <1>1, <2>3
  <2>5. QED
    BY <2>1, <2>2, <2>4 DEF ChainFits, Rises
<1>6. QED
  BY <1>1, <1>2, <1>3, <1>4, <1>5 DEF Shorter

LEMMA ShrunkSidecar ==
    ASSUME NEW c, NEW b, ChainFits(c, b), NEW d, Shorter(d, c, b), NEW s, SidecarFits(s, c, b)
    PROVE  SidecarFits(s, d, b)
<1>1. /\ Len(d) \in Nat /\ DOMAIN d = 1 .. Len(d) /\ DOMAIN c = 1 .. Len(c) /\ Len(c) \in Nat
      /\ \A p \in 1 .. Len(d) : d[p] = c[p] /\ p \in DOMAIN c
      /\ \A p \in 1 .. Len(c) : c[p] \in Nat /\ c[p] \in ToSet(c)
      /\ \A i \in ToSet(d), j \in ToSet(c) : j \notin ToSet(d) => i < j
      /\ ToSet(d) \subseteq ToSet(c)
  BY ChainFacts DEF Shorter
<1>2. Aligned(s, d)
  <2>1. SUFFICES ASSUME NEW p \in DOMAIN s, s[p] \in ToSet(d), NEW q \in 1 .. p
                 PROVE  q \in DOMAIN d /\ d[q] = s[q]
    BY DEF Aligned
  <2>2. p \in Nat
    BY SidecarFacts
  <2>3. s[p] \in ToSet(c) /\ p \in 1 .. p
    BY <1>1, <2>1, <2>2, SidecarFacts
  <2>4. p \in 1 .. Len(c) /\ c[p] = s[p] /\ q \in 1 .. Len(c) /\ c[q] = s[q]
    BY <1>1, <2>1, <2>3 DEF SidecarFits, Aligned
  <2>5. PICK k \in 1 .. Len(d) : d[k] = s[p]
    BY <1>1, <2>1 DEF ToSet
  <2>6. k \in 1 .. Len(c) /\ c[k] = c[p]
    BY <1>1, <2>4, <2>5
  <2>7. k = p
    <3>1. k \in DOMAIN c /\ p \in DOMAIN c /\ k \in Nat /\ c[k] \in Nat
      BY <1>1, <2>4, <2>6
    <3>2. \A x, y \in DOMAIN c : x < y => c[x] < c[y]
      BY DEF ChainFits, Rises
    <3>3. (k < p => c[k] < c[p]) /\ (p < k => c[p] < c[k])
      BY <3>1, <3>2
    <3>4. ~ (k < p) /\ ~ (p < k)
      BY <2>6, <3>1, <3>3
    <3>5. QED
      BY <2>2, <3>1, <3>4
  <2>8. q \in 1 .. Len(d)
    BY <1>1, <2>2, <2>7
  <2>9. QED
    BY <1>1, <2>4, <2>8
<1>3. QED
  BY <1>2 DEF SidecarFits

LEMMA ShrunkFits ==
    ASSUME NEW c, NEW b, ChainFits(c, b), NEW d, Shorter(d, c, b), NEW g \in BOOLEAN,
           NEW o, OverlayFits(o, c, b, g)
    PROVE  OverlayFits(o, d, b, g)
<1>1. /\ Len(d) \in Nat /\ Len(d) <= Len(c) /\ Len(c) \in Nat /\ b \in Nat /\ MaxBorn \in Nat
      /\ \A p \in 1 .. Len(d) : d[p] = c[p]
      /\ ToSet(d) \subseteq ToSet(c) /\ ToSet(c) \subseteq 1 .. b
      /\ \A i \in ToSet(d), j \in ToSet(c) : j \notin ToSet(d) => i < j
  BY ChainFacts, EdgeConstants DEF Shorter
<1>2. o \in Overlays /\ o.known \subseteq 1 .. b /\ o.covered \in Nat
  BY DEF OverlayFits, Overlays
<1>3. Plain(o, d) => Plain(o, c)
  BY <1>1 DEF Plain
<1>4. ASSUME Plain(o, d), NEW i \in ToSet(d) \cup (b + 1 .. MaxBorn)
      PROVE  o.edges[i] = Neighbours(d, i, o.known)
  <2>1. o.known \subseteq ToSet(d)
    BY <1>4 DEF Plain
  <2>2. ASSUME NEW j \in ToSet(c), j \notin ToSet(d)
        PROVE  ~ (j < i /\ i \in o.known) /\ ~ (i < j /\ j \in o.known)
    <3>1. j \in 1 .. b /\ j \notin o.known
      BY <1>1, <2>1, <2>2
    <3>2. CASE i \in ToSet(d)
      <4>1. i < j /\ i \in 1 .. b
        BY <1>1, <2>2, <3>2
      <4>2. QED
        BY <1>1, <3>1, <4>1
    <3>3. CASE i \in b + 1 .. MaxBorn
      BY <1>1, <1>2, <3>1, <3>3
    <3>4. QED
      BY <3>2, <3>3
  <2>3. Compared(d, i, o.known) = Compared(c, i, o.known)
    BY <1>1, <2>2 DEF Compared
  <2>4. i \in ToSet(c) \cup (b + 1 .. MaxBorn)
    BY <1>1
  <2>5. o.edges[i] = Neighbours(c, i, o.known)
    BY <1>3, <1>4, <2>4 DEF OverlayFits, EdgesFit
  <2>6. QED
    BY <2>3, <2>5 DEF Neighbours
<1>5. Plain(o, d) => EdgesFit(o, d, b) /\ \A k \in o.known : k <= o.head
  BY <1>3, <1>4 DEF EdgesFit, OverlayFits
<1>6. ASSUME g PROVE Covers(o, d)
  <2>1. SUFFICES ASSUME o.covered \in 1 .. Len(d), d[o.covered] = o.head, NEW q \in 1 .. o.covered
                 PROVE  d[q] \in o.known
    BY DEF Covers
  <2>2. o.covered \in 1 .. Len(c) /\ c[o.covered] = o.head /\ q \in 1 .. Len(d)
    BY <1>1, <1>2, <2>1
  <2>3. c[q] \in o.known
    BY <1>6, <2>2 DEF OverlayFits, Covers
  <2>4. QED
    BY <1>1, <2>2, <2>3
<1>7. QED
  BY <1>5, <1>6 DEF OverlayFits

LEMMA ClosedKeeps ==
    ASSUME NEW c, NEW b, ChainFits(c, b), NEW g \in BOOLEAN, NEW o,
           o = NoOverlay \/ OverlayFits(o, c, b, g), NEW n, n = Closed(o)
    PROVE  /\ Good(n, c, b, g) /\ n = Closed(n.saved) /\ n.managed = "closed"
           /\ n.saved = o /\ ~ n.rebuild /\ n.job = NoJob
<1>1. o \in Overlays \cup {NoOverlay}
  BY DEF OverlayFits
<1>2. <<>> \in Seq(Ids) /\ <<>> \in Seq(Nat) /\ {} \in SUBSET Nat /\ DOMAIN <<>> = {}
  OBVIOUS
<1>3. n \in EdgeHandles
  BY <1>1, <1>2 DEF EdgeHandles, Closed
<1>4. /\ n.managed = "closed" /\ n.sidecar = <<>> /\ n.waiting = {} /\ ~ n.rebuild
      /\ n.overlay = NoOverlay /\ n.queue = <<>> /\ n.job = NoJob /\ n.dirty = NoOverlay
      /\ n.saved = o
  BY DEF Closed
<1>5. SidecarFits(<<>>, c, b)
  <2>1. PICK S : S = 1 .. b
    OBVIOUS
  <2>2. <<>> \in Seq(S)
    OBVIOUS
  <2>3. QED
    BY <1>2, <2>1, <2>2 DEF SidecarFits, Rises, Aligned
<1>6. HandleFits(n, c, b, g)
  <2>1. KeptFits(o, "closed", <<>>, c, b, g) /\ KeptFits(NoOverlay, "closed", <<>>, c, b, g)
    BY DEF KeptFits
  <2>2. QED
    BY <1>3, <1>4, <1>5, <2>1 DEF HandleFits
<1>7. LineFits(n, g)
  BY <1>4 DEF LineFits, Works
<1>8. QED
  BY <1>4, <1>6, <1>7 DEF Good, Works

-----------------------------------------------------------------------------
(* A new thought and its vector. *)

\* n is h with the vectors at W on their way.
Parked(n, h, c, b, g, W) == Good(n, c, b, g) /\ n.managed = h.managed /\ n.waiting = W

LEMMA ParkedIsGood ==
    ASSUME NEW c, NEW b, ChainFits(c, b), NEW g \in BOOLEAN, NEW h, Good(h, c, b, g),
           h.managed = "auto", NEW W, W \subseteq 1 .. Len(c),
           NEW n, n = [h EXCEPT !.waiting = W] \/ n = [h EXCEPT !.rebuild = TRUE, !.waiting = W]
    PROVE  Parked(n, h, c, b, g, W)
<1>1. h \in EdgeHandles /\ W \in SUBSET Nat
  BY ChainFacts DEF Good, HandleFits
<1>2. PICK X : X = 1 .. Len(c)
  OBVIOUS
<1>3. /\ n \in EdgeHandles
      /\ n.managed = h.managed /\ n.sidecar = h.sidecar /\ n.overlay = h.overlay
      /\ n.queue = h.queue /\ n.job = h.job /\ n.saved = h.saved /\ n.dirty = h.dirty
      /\ n.waiting = W
  <2>1. CASE n = [h EXCEPT !.waiting = W]
    BY <1>1, <2>1 DEF EdgeHandles
  <2>2. CASE n = [h EXCEPT !.rebuild = TRUE, !.waiting = W]
    BY <1>1, <2>2 DEF EdgeHandles
  <2>3. QED
    BY <2>1, <2>2
<1>4. QED
  <2>1. Good(n, c, b, g)
    BY <1>3, GoodAlike
  <2>2. QED
    BY <1>3, <2>1 DEF Parked

LEMMA EmbedsKeeps ==
    ASSUME NEW c, NEW b, ChainFits(c, b), Len(c) > 0, c[Len(c)] = b, NEW g \in BOOLEAN,
           NEW h, Good(h, c, b, g), NEW x \in Embeds(h, c)
    PROVE  NearlyGood(x, c, b, g) /\ x.managed = h.managed
<1>1. PICK n \in Nat \ {0} : n = Len(c)
  BY ChainFacts
<1>2. PICK parked, P, E : /\ parked = [h EXCEPT !.waiting = P]
                         /\ P = h.waiting \cup {n} /\ E = {}
  OBVIOUS
<1>3. \/ x = h
      \/ h.managed = "auto" /\ x = parked
      \/ h.managed = "auto" /\ x = RemakeAll(h)
      \/ h.managed = "auto" /\ \E m \in Drains(parked) : x = DrainEdges(parked, c, m)
      \/ h.managed = "auto" /\ Len(h.sidecar) = n - 1 /\ x = [h EXCEPT !.sidecar = c]
  BY <1>1, <1>2 DEF Embeds
<1>4. /\ HandleFits(h, c, b, g) /\ h \in EdgeHandles /\ h.waiting \subseteq 1 .. Len(c)
      /\ SidecarFits(h.sidecar, c, b)
  BY DEF Good, HandleFits
<1>5. P \subseteq 1 .. Len(c) /\ E \subseteq 1 .. Len(c)
  BY <1>1, <1>2, <1>4
<1>6. CASE x = h
  BY <1>6, GoodIsNearly
<1>7. CASE h.managed = "auto" /\ x = parked
  <2>1. Good(x, c, b, g) /\ x.managed = h.managed
    <3>1. Parked(x, h, c, b, g, P)
      BY <1>2, <1>5, <1>7, ParkedIsGood
    <3>2. QED
      BY <3>1 DEF Parked
  <2>2. QED
    BY <2>1, GoodIsNearly
<1>8. CASE h.managed = "auto" /\ x = RemakeAll(h)
  <2>1. x = [h EXCEPT !.rebuild = TRUE, !.waiting = E]
    BY <1>2, <1>8 DEF RemakeAll
  <2>2. Good(x, c, b, g) /\ x.managed = h.managed
    <3>1. Parked(x, h, c, b, g, E)
      BY ZenonT(40), <1>5, <1>8, <2>1, ParkedIsGood
    <3>2. QED
      BY <3>1 DEF Parked
  <2>3. QED
    BY <2>2, GoodIsNearly
<1>9. CASE h.managed = "auto" /\ \E m \in Drains(parked) : x = DrainEdges(parked, c, m)
  <2>1. Good(parked, c, b, g) /\ parked.managed = h.managed
    <3>1. Parked(parked, h, c, b, g, P)
      BY <1>2, <1>5, <1>9, ParkedIsGood
    <3>2. QED
      BY <3>1 DEF Parked
  <2>2. PICK m \in Drains(parked) : x = DrainEdges(parked, c, m)
    BY <1>9
  <2>3. Good(x, c, b, g) /\ Alike(x, parked)
    BY <2>1, <2>2, DrainKeeps
  <2>4. QED
    BY <2>1, <2>3, GoodIsNearly DEF Alike
<1>10. CASE h.managed = "auto" /\ Len(h.sidecar) = n - 1 /\ x = [h EXCEPT !.sidecar = c]
  <2>1. PICK W : W = h.waiting
    OBVIOUS
  <2>2. c = Prefix(c, n) /\ SidecarFits(c, c, b)
    BY <1>1, WholeChain
  <2>3. x = [h EXCEPT !.sidecar = Prefix(c, n), !.waiting = W]
    <3>1. x = [h EXCEPT !.sidecar = c, !.waiting = W]
      BY <1>4, <1>10, <2>1 DEF EdgeHandles
    <3>2. QED
      BY <2>2, <3>1
  <2>4. Len(h.sidecar) < n /\ n <= Len(c) /\ n \in Nat /\ W \subseteq 1 .. Len(c)
    BY <1>1, <1>4, <1>10, <2>1
  <2>5. Extended(x, h, c, b, g, n)
    <3>1. PICK t : t = [h EXCEPT !.sidecar = Prefix(c, n), !.waiting = W]
      OBVIOUS
    <3>2. h.managed = "auto"
      BY <1>10
    <3>3. Extended(t, h, c, b, g, n)
      BY <2>4, <3>1, <3>2, ExtendKeeps
    <3>4. QED
      BY <2>3, <3>1, <3>3
  <2>6. /\ HandleFits(x, c, b, g) /\ LineFits(x, g) /\ x.managed = h.managed
        /\ ToCome(x, c, g, InLine(x) \cup (Len(h.sidecar) + 1 .. n)) /\ x.sidecar = c
    BY <2>2, <2>5 DEF Extended
  <2>7. Len(h.sidecar) + 1 .. n = {Len(c)} /\ {Len(c)} \cap DOMAIN x.sidecar = {Len(c)}
    <3>1. Len(h.sidecar) + 1 = n /\ n .. n = {n}
      BY <1>1, <1>10
    <3>2. n \in DOMAIN c
      BY <1>1, ChainFacts
    <3>3. QED
      BY <1>1, <2>6, <3>1, <3>2
  <2>8. QED
    BY <2>6, <2>7 DEF NearlyGood
<1>11. QED
  BY <1>3, <1>6, <1>7, <1>8, <1>9, <1>10

-----------------------------------------------------------------------------
(* The invariant, and every step of the chain under it. *)

\* No scan has failed, vectors were never disabled, the chain is short enough to build.
Spared == scanFaults = 0 /\ toggles = 0 /\ born <= MaxFullBuild

SettingsFit(e, f, t) == e \in BOOLEAN /\ f \in Nat /\ t \in Nat /\ (t = 0 => e)
\* Of a closed chain only the overlay's file is left.
ClosedFits(h) == h.managed = "closed" => h = Closed(h.saved)

\* The invariant: chain, sidecars and overlays agree, the thoughts still to be added are
\* in line, and as long as Spared holds every thought is added or in line.
EdgesInv ==
    /\ ChainFits(chain, born) /\ SidecarFits(sidecarFile, chain, born)
    /\ SettingsFit(enabled, scanFaults, toggles)
    /\ ClosedFits(handle) /\ Good(handle, chain, born, Spared)

LEMMA AppendStays ==
    ASSUME EdgesInv, AppendThought
    PROVE  EdgesInv'
<1>0. PICK g \in BOOLEAN : g = Spared
  BY DEF Spared
<1>1. PICK c, b, h : c = chain /\ b = born /\ h = handle /\ g = Spared
  BY <1>0
<1>k. PICK k \in BOOLEAN : k = Spared'
  BY DEF Spared
<1>d. PICK d : d = Append(c, b + 1)
  OBVIOUS
<1>a. PICK adopt \in BOOLEAN, m \in 0 .. Len(d) - 1 :
        \E y \in Embeds(PollEdges(h, d, adopt, m), d) : handle' = SyncOverlay(y, Len(d))
  <2>1. h.rebuild \in BOOLEAN
    BY <1>1 DEF EdgesInv, Good, HandleFits, EdgeHandles
  <2>2. \E adopt \in {FALSE, h.rebuild}, m \in 0 .. Len(d) - 1 :
          \E y \in Embeds(PollEdges(h, d, adopt, m), d) : handle' = SyncOverlay(y, Len(d))
    BY <1>1, <1>d DEF AppendThought
  <2>3. QED
    BY <2>1, <2>2
<1>2. PICK x, y, n :
        /\ d = chain' /\ d = Append(c, b + 1) /\ b + 1 \in Ids /\ born' = b + 1
        /\ x = PollEdges(h, d, adopt, m) /\ y \in Embeds(x, d)
        /\ n = SyncOverlay(y, Len(d)) /\ n = handle' /\ k = Spared' /\ h.managed # "closed"
  <2>1. /\ d = chain' /\ b + 1 \in Ids /\ born' = b + 1 /\ h.managed # "closed"
    BY <1>1, <1>d DEF AppendThought, IsOpen
  <2>2. QED
    BY <1>k, <1>d, <1>a, <2>1
<1>3. ChainFits(c, b) /\ Good(h, c, b, g) /\ SidecarFits(sidecarFile, c, b) /\ b \in Nat
  BY <1>1, ChainFacts DEF EdgesInv
<1>4. (k => g) /\ (k => b + 1 <= MaxFullBuild)
  <2>1. k => scanFaults = 0 /\ toggles = 0 /\ b + 1 <= MaxFullBuild
    BY <1>2 DEF Spared, AppendThought
  <2>2. MaxFullBuild \in Nat
    BY OverlayAssumption
  <2>3. QED
    BY <1>1, <1>3, <2>1, <2>2 DEF Spared
<1>5. Longer(d, c, b)
  BY <1>2, <1>3, LongerChain
<1>6. PICK e : e = b + 1
  OBVIOUS
<1>7. ChainFits(d, e) /\ Len(d) > 0 /\ d[Len(d)] = e
  BY <1>3, <1>5, <1>6, ChainFacts DEF Longer
<1>8. Good(h, d, e, k)
  <2>1. Good(h, d, e, g)
    BY <1>3, <1>5, <1>6, GrowKeeps
  <2>2. QED
    BY <1>4, <2>1, WeakerFits
<1>9. Good(x, d, e, k)
  BY <1>2, <1>4, <1>6, <1>7, <1>8, PollKeeps
<1>10. x.managed # "closed"
  BY <1>2, <1>4, <1>6, <1>7, <1>8, PollKeeps
<1>11. NearlyGood(y, d, e, k) /\ y.managed = x.managed
  <2>1. y \in Embeds(x, d)
    BY <1>2
  <2>2. QED
    BY <1>7, <1>9, <2>1, EmbedsKeeps
<1>12. Good(n, d, e, k) /\ n.managed = y.managed
  <2>1. n = SyncOverlay(y, Len(d)) /\ NearlyGood(y, d, e, k)
    BY <1>2, <1>11
  <2>2. QED
    BY <1>7, <2>1, SyncKeeps
<1>13. SidecarFits(sidecarFile, d, e)
  BY <1>3, <1>5, <1>6, GrownSidecar
<1>14. SettingsFit(enabled, scanFaults, toggles)
  BY DEF EdgesInv
<1>15. UNCHANGED <<enabled, sidecarFile, scanFaults, toggles>>
  BY DEF AppendThought
<1>16. ClosedFits(n)
  BY <1>10, <1>11, <1>12 DEF ClosedFits
<1>17. QED
  BY <1>2, <1>6, <1>7, <1>12, <1>13, <1>14, <1>15, <1>16 DEF EdgesInv

LEMMA CommitStays ==
    ASSUME EdgesInv, CommitVectors
    PROVE  EdgesInv'
<1>0. PICK g \in BOOLEAN : g = Spared
  BY DEF Spared
<1>1. PICK c, b, h, n : c = chain /\ b = born /\ h = handle /\ n = handle' /\ g = Spared
  BY <1>0
<1>2. ChainFits(c, b) /\ Good(h, c, b, g)
  BY <1>1 DEF EdgesInv
<1>3. PICK A, E : A = h.waiting \ 1 .. Len(h.sidecar) /\ E = {}
  OBVIOUS
<1>4. A \subseteq 1 .. Len(c) /\ E \subseteq 1 .. Len(c)
  BY <1>2, <1>3 DEF Good, HandleFits
<1>5. PICK known : known = [h EXCEPT !.waiting = A]
  OBVIOUS
<1>6. /\ h.managed = "auto"
      /\ n = RemakeAll(h) \/ \E m \in Drains(known) : n = DrainEdges(known, c, m)
  BY <1>1, <1>3, <1>5 DEF CommitVectors
<1>7. Good(n, c, b, g) /\ n.managed = h.managed
  <2>1. CASE n = RemakeAll(h)
    <3>1. n = [h EXCEPT !.rebuild = TRUE, !.waiting = E]
      BY <1>3, <2>1 DEF RemakeAll
    <3>2. Parked(n, h, c, b, g, E)
      BY ZenonT(40), <1>2, <1>4, <1>6, <3>1, ParkedIsGood
    <3>3. QED
      BY <3>2 DEF Parked
  <2>2. CASE \E m \in Drains(known) : n = DrainEdges(known, c, m)
    <3>1. Parked(known, h, c, b, g, A)
      BY <1>2, <1>4, <1>5, <1>6, ParkedIsGood
    <3>2. Good(known, c, b, g) /\ known.managed = h.managed
      BY <3>1 DEF Parked
    <3>3. PICK m \in Drains(known) : n = DrainEdges(known, c, m)
      BY <2>2
    <3>4. Good(n, c, b, g) /\ Alike(n, known)
      BY <1>2, <3>2, <3>3, DrainKeeps
    <3>5. QED
      BY <3>2, <3>4 DEF Alike
  <2>3. QED
    BY <1>6, <2>1, <2>2
<1>8. UNCHANGED <<chain, enabled, sidecarFile, born, scanFaults, toggles>>
  BY DEF CommitVectors
<1>9. Spared' = Spared
  BY <1>8 DEF Spared
<1>10. ClosedFits(n)
  BY <1>6, <1>7 DEF ClosedFits
<1>11. QED
  BY <1>1, <1>7, <1>8, <1>9, <1>10 DEF EdgesInv

LEMMA ScanStays ==
    ASSUME EdgesInv, ScanEnds
    PROVE  EdgesInv'
<1>0. PICK g \in BOOLEAN, k \in BOOLEAN : g = Spared /\ k = Spared'
  BY DEF Spared
<1>1. PICK c, b, h, n :
        c = chain /\ b = born /\ h = handle /\ n = handle' /\ g = Spared /\ k = Spared'
  BY <1>0
<1>2. ChainFits(c, b) /\ Good(h, c, b, g) /\ ClosedFits(h) /\ SettingsFit(enabled, scanFaults, toggles)
  BY <1>1 DEF EdgesInv
<1>3. PICK state \in {"done", "failed"} :
        /\ n = [h EXCEPT !.job.state = state] /\ h.job # NoJob
        /\ IF state = "done" THEN scanFaults' = scanFaults ELSE scanFaults' = scanFaults + 1
  BY <1>1 DEF ScanEnds
<1>4. UNCHANGED <<chain, enabled, sidecarFile, born, toggles>>
  BY DEF ScanEnds
<1>5. /\ scanFaults' \in Nat /\ (k => g) /\ (k => state # "failed")
  <2>1. scanFaults \in Nat /\ toggles' = toggles /\ born' = born
    BY <1>2, <1>4 DEF SettingsFit
  <2>2. CASE state = "done"
    <3>1. scanFaults' = scanFaults
      BY <1>3, <2>2
    <3>2. Spared' = Spared
      BY <2>1, <3>1 DEF Spared
    <3>3. QED
      BY <1>1, <2>1, <2>2, <3>1, <3>2
  <2>3. CASE state = "failed"
    <3>1. scanFaults' = scanFaults + 1
      BY <1>3, <2>3
    <3>2. scanFaults' \in Nat /\ scanFaults' # 0
      BY <2>1, <3>1
    <3>3. ~ Spared'
      BY <3>2 DEF Spared
    <3>4. QED
      BY <1>1, <3>2, <3>3
  <2>4. QED
    BY <2>2, <2>3
<1>6. /\ HandleFits(h, c, b, k) /\ (Works(h) => ToCome(h, c, k, InLine(h))) /\ LineFits(h, k)
      /\ h \in EdgeHandles
  <2>1. Good(h, c, b, k)
    BY <1>2, <1>5, WeakerFits
  <2>2. QED
    BY <2>1 DEF Good, HandleFits
<1>7. PICK j, i : j = [i EXCEPT !.state = state] /\ i = h.job
  OBVIOUS
<1>8. i \in EdgeJobs
  BY <1>3, <1>6, <1>7 DEF EdgeHandles
<1>9. /\ j \in EdgeJobs /\ j.items = i.items /\ j.found = i.found /\ j.sealed = i.sealed
      /\ j.stale = i.stale /\ j.state = state
  BY <1>7, <1>8 DEF EdgeJobs
<1>10. j # NoJob
  BY <1>9, AbsentIsNone
<1>11. n = [h EXCEPT !.job = j]
  BY <1>3, <1>7
<1>12. /\ n \in EdgeHandles
       /\ n.managed = h.managed /\ n.sidecar = h.sidecar /\ n.waiting = h.waiting
       /\ n.overlay = h.overlay /\ n.queue = h.queue /\ n.job = j /\ n.saved = h.saved
       /\ n.dirty = h.dirty
  BY <1>6, <1>9, <1>11 DEF EdgeHandles
<1>13. HandleFits(n, c, b, k)
  BY <1>6, <1>12 DEF HandleFits, Works
<1>14. ItemsOf(n) = ItemsOf(h) /\ InLine(n) = InLine(h)
  <2>1. ItemsOf(n) = ItemsOf(h)
    BY <1>3, <1>7, <1>9, <1>10, <1>12 DEF ItemsOf
  <2>2. QED
    BY <1>12, <2>1 DEF InLine
<1>15. Works(n) => ToCome(n, c, k, InLine(n))
  BY <1>6, <1>12, <1>14 DEF Works, ToCome
<1>16. Works(n) => WorkFits(n)
  <2>1. SUFFICES ASSUME Works(n) PROVE WorkFits(n)
    OBVIOUS
  <2>2. WorkFits(h)
    BY <1>6, <1>12, <2>1 DEF Works, LineFits
  <2>3. JobFits(j, h.sidecar)
    BY <1>3, <1>7, <1>9, <2>2 DEF WorkFits, JobFits
  <2>4. h.overlay # NoOverlay
    BY <1>3, <2>2 DEF WorkFits
  <2>5. QED
    BY <1>12, <1>14, <2>2, <2>3, <2>4 DEF WorkFits
<1>17. LineFits(n, k)
  BY <1>3, <1>5, <1>6, <1>7, <1>9, <1>12, <1>16 DEF LineFits, Works
<1>18. Good(n, c, b, k)
  BY <1>13, <1>15, <1>17 DEF Good
<1>19. ClosedFits(n)
  <2>1. h.managed # "closed"
    BY <1>2, <1>3 DEF ClosedFits, Closed
  <2>2. QED
    BY <1>12, <2>1 DEF ClosedFits
<1>20. SettingsFit(enabled', scanFaults', toggles')
  BY <1>2, <1>4, <1>5 DEF SettingsFit
<1>21. SidecarFits(sidecarFile, chain, born)
  BY DEF EdgesInv
<1>22. QED
  BY <1>1, <1>2, <1>4, <1>18, <1>19, <1>20, <1>21 DEF EdgesInv

LEMMA RepairStays ==
    ASSUME EdgesInv, RepairIdle
    PROVE  EdgesInv'
<1>0. PICK g \in BOOLEAN : g = Spared
  BY DEF Spared
<1>1. PICK c, b, h : c = chain /\ b = born /\ h = handle /\ g = Spared
  BY <1>0
<1>2. /\ ChainFits(c, b) /\ Good(h, c, b, g) /\ ClosedFits(h) /\ h \in EdgeHandles
      /\ (g => b <= MaxFullBuild)
  BY <1>1 DEF EdgesInv, Good, HandleFits, Spared
<1>a. PICK adopt \in BOOLEAN : adopt = h.rebuild
  BY <1>2 DEF EdgeHandles
<1>3. PICK x, n, m :
        /\ x = IF h.overlay = NoOverlay THEN LoadOverlay(h, c) ELSE h
        /\ n = PollEdges(x, c, adopt, m) /\ n = handle'
  <2>1. adopt = h.rebuild
    BY <1>a
  <2>2. PICK x : x = IF h.overlay = NoOverlay THEN LoadOverlay(h, c) ELSE h
    OBVIOUS
  <2>3. handle' = PollEdges(x, c, adopt, 0)
    BY <1>1, <2>1, <2>2 DEF RepairIdle
  <2>4. QED
    BY <2>2, <2>3
<1>4. h.managed # "closed"
  <2>1. \/ h.rebuild
        \/ h.job # NoJob
        \/ h.managed \in {"auto", "search"}
    BY <1>1 DEF RepairIdle
  <2>2. QED
    BY <1>2, <2>1 DEF ClosedFits, Closed
<1>5. Good(x, c, b, g) /\ x.managed = h.managed
  <2>1. CASE h.overlay = NoOverlay /\ Works(h)
    <3>1. ~ g
      BY <1>2, <2>1 DEF Good, LineFits, Works
    <3>2. HandleFits(h, c, b, g)
      BY <1>2 DEF Good
    <3>3. x = LoadOverlay(h, c)
      BY <1>3, <2>1
    <3>4. QED
      BY <1>2, <2>1, <3>1, <3>2, <3>3, LoadOverlayKeeps
  <2>2. CASE ~ (h.overlay = NoOverlay /\ Works(h))
    <3>1. x = h
      BY <1>3, <2>2 DEF LoadOverlay, Works
    <3>2. QED
      BY <1>2, <3>1
  <2>3. QED
    BY <2>1, <2>2
<1>6. Good(n, c, b, g) /\ n.managed # "closed"
  <2>1. x.managed # "closed" /\ n = PollEdges(x, c, adopt, m) /\ Good(x, c, b, g)
    BY <1>3, <1>4, <1>5
  <2>2. QED
    BY <1>2, <2>1, PollKeeps
<1>7. UNCHANGED <<chain, enabled, sidecarFile, born, scanFaults, toggles>>
  BY DEF RepairIdle
<1>8. Spared' = Spared
  BY <1>7 DEF Spared
<1>9. ClosedFits(n)
  BY <1>6 DEF ClosedFits
<1>10. QED
  BY <1>1, <1>3, <1>6, <1>7, <1>8, <1>9 DEF EdgesInv

LEMMA FlushStays ==
    ASSUME EdgesInv, FlushDerived
    PROVE  EdgesInv'
<1>0. PICK g \in BOOLEAN : g = Spared
  BY DEF Spared
<1>1. PICK c, b, h, n : c = chain /\ b = born /\ h = handle /\ n = handle' /\ g = Spared
  BY <1>0
<1>2. ChainFits(c, b) /\ Good(h, c, b, g) /\ HandleFits(h, c, b, g) /\ h \in EdgeHandles
      /\ SidecarFits(h.sidecar, c, b) /\ SidecarFits(sidecarFile, c, b)
  BY <1>1 DEF EdgesInv, Good, HandleFits
<1>3. h.managed # "closed"
  BY <1>1 DEF FlushDerived, IsOpen
<1>4. Good(n, c, b, g) /\ n.managed = h.managed
  <2>1. CASE h.dirty = NoOverlay
    <3>1. n = h
      BY <1>1, <2>1 DEF FlushDerived
    <3>2. QED
      BY <1>2, <3>1
  <2>2. CASE h.dirty # NoOverlay
    <3>1. PICK o : o = h.dirty
      OBVIOUS
    <3>2. n = [h EXCEPT !.saved = o, !.dirty = NoOverlay]
      BY <1>1, <2>2, <3>1 DEF FlushDerived
    <3>3. o \in Overlays \cup {NoOverlay} /\ NoOverlay \in Overlays \cup {NoOverlay}
      BY <1>2, <3>1 DEF EdgeHandles
    <3>4. /\ n \in EdgeHandles /\ n.managed = h.managed /\ n.sidecar = h.sidecar
          /\ n.waiting = h.waiting /\ n.overlay = h.overlay /\ n.queue = h.queue
          /\ n.job = h.job /\ n.saved = o /\ n.dirty = NoOverlay
      <4>1. PICK y : y = [h EXCEPT !.saved = o]
        OBVIOUS
      <4>2. y \in EdgeHandles /\ n = [y EXCEPT !.dirty = NoOverlay]
        BY <1>2, <3>2, <3>3, <4>1 DEF EdgeHandles
      <4>3. n \in EdgeHandles
        BY <3>3, <4>2 DEF EdgeHandles
      <4>4. QED
        BY <1>2, <3>2, <4>3 DEF EdgeHandles
    <3>5. KeptFits(o, h.managed, h.sidecar, c, b, g)
          /\ KeptFits(NoOverlay, h.managed, h.sidecar, c, b, g)
      BY <1>2, <3>1 DEF HandleFits, KeptFits
    <3>6. HandleFits(n, c, b, g)
      BY <1>2, <3>4, <3>5 DEF HandleFits, Works
    <3>7. InLine(n) = InLine(h) /\ ItemsOf(n) = ItemsOf(h)
      BY <3>4 DEF InLine, ItemsOf
    <3>8. Works(n) => ToCome(n, c, g, InLine(n))
      BY <1>2, <3>4, <3>7 DEF Good, Works, ToCome
    <3>9. LineFits(n, g)
      BY <1>2, <3>4, <3>7 DEF Good, LineFits, Works, WorkFits
    <3>10. QED
      BY <3>4, <3>6, <3>8, <3>9 DEF Good
  <2>3. QED
    BY <2>1, <2>2
<1>5. SidecarFits(sidecarFile', c, b)
  BY <1>1, <1>2 DEF FlushDerived
<1>6. UNCHANGED <<chain, enabled, born, scanFaults, toggles>>
  BY DEF FlushDerived
<1>7. Spared' = Spared
  BY <1>6 DEF Spared
<1>8. ClosedFits(n)
  BY <1>3, <1>4 DEF ClosedFits
<1>9. QED
  BY <1>1, <1>4, <1>5, <1>6, <1>7, <1>8 DEF EdgesInv

LEMMA EnableStays ==
    ASSUME EdgesInv, Enable
    PROVE  EdgesInv'
<1>0. PICK g \in BOOLEAN : g = Spared
  BY DEF Spared
<1>1. PICK c, b, h, n : c = chain /\ b = born /\ h = handle /\ n = handle' /\ g = Spared
  BY <1>0
<1>2. ChainFits(c, b) /\ HandleFits(h, c, b, g) /\ SettingsFit(enabled, scanFaults, toggles)
  BY <1>1 DEF EdgesInv, Good
<1>3. /\ n = Manage(h, c) /\ sidecarFile' = c /\ enabled' = TRUE /\ toggles' = toggles + 1
      /\ UNCHANGED <<chain, born, scanFaults>>
  BY <1>1 DEF Enable
<1>4. SettingsFit(enabled', scanFaults', toggles') /\ toggles' # 0
  BY <1>2, <1>3 DEF SettingsFit
<1>5. PICK k \in BOOLEAN : ~ k /\ Spared' = k
  <2>1. Spared' = FALSE
    BY <1>4 DEF Spared
  <2>2. QED
    BY <2>1
<1>6. Good(n, c, b, k) /\ n.managed = "auto"
  <2>1. HandleFits(h, c, b, k)
    BY <1>2, <1>5, WeakerFits
  <2>2. QED
    BY <1>2, <1>3, <1>5, <2>1, ManageKeeps
<1>7. SidecarFits(c, c, b)
  BY <1>2, WholeChain
<1>8. ClosedFits(n)
  BY <1>6 DEF ClosedFits
<1>9. QED
  BY <1>1, <1>2, <1>3, <1>4, <1>5, <1>6, <1>7, <1>8 DEF EdgesInv

LEMMA DisableStays ==
    ASSUME EdgesInv, Disable
    PROVE  EdgesInv'
<1>0. PICK g \in BOOLEAN : g = Spared
  BY DEF Spared
<1>1. PICK c, b, h, n : c = chain /\ b = born /\ h = handle /\ n = handle' /\ g = Spared
  BY <1>0
<1>2. /\ ChainFits(c, b) /\ HandleFits(h, c, b, g) /\ h \in EdgeHandles
      /\ SettingsFit(enabled, scanFaults, toggles) /\ SidecarFits(sidecarFile, c, b)
  BY <1>1 DEF EdgesInv, Good, HandleFits
<1>3. PICK j : j = IF h.job = NoJob THEN NoJob ELSE [h.job EXCEPT !.stale = TRUE]
  OBVIOUS
<1>4. /\ n = [h EXCEPT !.managed = "none", !.sidecar = <<>>, !.waiting = {}, !.job = j]
      /\ enabled' = FALSE /\ toggles' = toggles + 1
      /\ UNCHANGED <<chain, sidecarFile, born, scanFaults>>
  BY <1>1, <1>3 DEF Disable
<1>5. SettingsFit(enabled', scanFaults', toggles') /\ toggles' # 0
  <2>1. toggles \in Nat /\ scanFaults \in Nat
    BY <1>2 DEF SettingsFit
  <2>2. toggles' \in Nat /\ toggles' # 0 /\ scanFaults' \in Nat
    BY <1>4, <2>1
  <2>3. enabled' \in BOOLEAN
    BY <1>4
  <2>4. QED
    BY <2>2, <2>3 DEF SettingsFit
<1>6. PICK k \in BOOLEAN : ~ k /\ Spared' = k
  <2>1. Spared' = FALSE
    BY <1>5 DEF Spared
  <2>2. QED
    BY <2>1
<1>7. HandleFits(h, c, b, k)
  BY <1>2, <1>6, WeakerFits
<1>8. j \in EdgeJobs \cup {NoJob} /\ (j # NoJob => j.stale)
  <2>1. CASE h.job = NoJob
    BY <1>3, <2>1
  <2>2. CASE h.job # NoJob
    <3>1. PICK i : i = h.job
      OBVIOUS
    <3>2. i \in EdgeJobs /\ j = [i EXCEPT !.stale = TRUE]
      BY <1>2, <1>3, <2>2, <3>1 DEF EdgeHandles
    <3>3. QED
      BY <3>2 DEF EdgeJobs
  <2>3. QED
    BY <2>1, <2>2
<1>9. <<>> \in Seq(Ids) /\ {} \in SUBSET Nat
  OBVIOUS
<1>10. PICK x : x = [h EXCEPT !.managed = "none", !.sidecar = <<>>, !.waiting = {}]
  OBVIOUS
<1>11. x \in EdgeHandles
  BY <1>2, <1>9, <1>10 DEF EdgeHandles
<1>12. n = [x EXCEPT !.job = j]
  BY <1>2, <1>4, <1>10 DEF EdgeHandles
<1>13. n \in EdgeHandles
  BY <1>8, <1>11, <1>12 DEF EdgeHandles
<1>14. /\ n.managed = "none" /\ n.sidecar = <<>> /\ n.waiting = {} /\ n.job = j
       /\ n.overlay = h.overlay /\ n.saved = h.saved /\ n.dirty = h.dirty
  BY <1>2, <1>4 DEF EdgeHandles
<1>15. SidecarFits(<<>>, c, b)
  <2>1. Closed(NoOverlay).sidecar = <<>>
    BY DEF Closed
  <2>2. Good(Closed(NoOverlay), c, b, k)
    BY <1>2, ClosedKeeps
  <2>3. QED
    BY <2>1, <2>2 DEF Good, HandleFits
<1>16. ASSUME NEW o, KeptFits(o, h.managed, h.sidecar, c, b, k)
       PROVE  KeptFits(o, n.managed, n.sidecar, c, b, k)
  BY <1>14, <1>16 DEF KeptFits
<1>17. HandleFits(n, c, b, k)
  BY <1>7, <1>13, <1>14, <1>15, <1>16 DEF HandleFits
<1>18. LineFits(n, k) /\ ~ Works(n)
  BY <1>6, <1>8, <1>14 DEF LineFits, Works
<1>19. Good(n, c, b, k) /\ ClosedFits(n)
  BY <1>14, <1>17, <1>18 DEF Good, ClosedFits
<1>20. QED
  BY <1>1, <1>2, <1>4, <1>5, <1>6, <1>19 DEF EdgesInv

LEMMA CrashStays ==
    ASSUME EdgesInv, CrashEdges
    PROVE  EdgesInv'
<1>0. PICK g \in BOOLEAN : g = Spared
  BY DEF Spared
<1>1. PICK c, b, h, n, d : /\ c = chain /\ b = born /\ h = handle /\ n = handle' /\ d = chain'
                           /\ g = Spared
  BY <1>0
<1>2. /\ ChainFits(c, b) /\ HandleFits(h, c, b, g) /\ SidecarFits(h.sidecar, c, b)
      /\ SidecarFits(sidecarFile, c, b) /\ Len(c) \in Nat /\ KeptFits(h.saved, h.managed, h.sidecar, c, b, g)
      /\ SettingsFit(enabled, scanFaults, toggles)
  BY <1>1, ChainFacts DEF EdgesInv, Good, HandleFits
<1>3. PICK m \in 0 .. Len(c) : d = Prefix(c, m)
  <2>1. PICK m \in {Len(c), Len(c) - 1} \cap Nat : d = Prefix(c, m)
    BY <1>1 DEF CrashEdges
  <2>2. m \in 0 .. Len(c)
    BY <1>2
  <2>3. QED
    BY <2>1, <2>2
<1>4. Shorter(d, c, b)
  BY <1>2, <1>3, ShorterChain
<1>5. ChainFits(d, b)
  BY <1>4 DEF Shorter
<1>6. SidecarFits(sidecarFile', d, b)
  <2>1. SidecarFits(sidecarFile', c, b)
    <3>1. CASE sidecarFile' = sidecarFile
      BY <1>2, <3>1
    <3>2. CASE sidecarFile' # sidecarFile
      <4>1. PICK q \in Len(sidecarFile) .. Len(h.sidecar) : sidecarFile' = Prefix(h.sidecar, q)
        BY <1>1, <3>2 DEF CrashEdges
      <4>2. Len(sidecarFile) \in Nat /\ Len(h.sidecar) \in Nat
        BY <1>2, SidecarFacts
      <4>3. q \in 0 .. Len(h.sidecar)
        BY <4>2
      <4>4. PICK t : t = Prefix(h.sidecar, q)
        OBVIOUS
      <4>5. SidecarFits(t, c, b)
        BY <1>2, <4>3, <4>4, CutSidecar
      <4>6. QED
        BY <4>1, <4>4, <4>5
    <3>3. QED
      BY <3>1, <3>2
  <2>2. PICK t : t = sidecarFile'
    OBVIOUS
  <2>3. SidecarFits(t, d, b)
    BY <1>2, <1>4, <2>1, <2>2, ShrunkSidecar
  <2>4. QED
    BY <2>2, <2>3
<1>7. PICK o : o = h.saved
  OBVIOUS
<1>8. o = NoOverlay \/ OverlayFits(o, d, b, g)
  <2>1. SUFFICES ASSUME o # NoOverlay PROVE OverlayFits(o, d, b, g)
    OBVIOUS
  <2>2. OverlayFits(o, c, b, g)
    BY <1>2, <1>7, <2>1 DEF KeptFits
  <2>3. QED
    BY <1>2, <1>4, <2>2, ShrunkFits
<1>9. n = Closed(o)
  BY <1>1, <1>7 DEF CrashEdges
<1>10. Good(n, d, b, g) /\ n = Closed(n.saved)
  BY <1>5, <1>8, <1>9, ClosedKeeps
<1>11. UNCHANGED <<enabled, born, scanFaults, toggles>>
  BY DEF CrashEdges
<1>12. Spared' = Spared
  BY <1>11 DEF Spared
<1>13. ClosedFits(n)
  BY <1>10 DEF ClosedFits
<1>14. QED
  BY <1>1, <1>2, <1>5, <1>6, <1>10, <1>11, <1>12, <1>13 DEF EdgesInv

LEMMA CloseStays ==
    ASSUME EdgesInv, CloseChain
    PROVE  EdgesInv'
<1>0. PICK g \in BOOLEAN : g = Spared
  BY DEF Spared
<1>1. PICK c, b, h, n : c = chain /\ b = born /\ h = handle /\ n = handle' /\ g = Spared
  BY <1>0
<1>2. /\ ChainFits(c, b) /\ SidecarFits(h.sidecar, c, b) /\ SidecarFits(sidecarFile, c, b)
      /\ KeptFits(h.overlay, h.managed, h.sidecar, c, b, g)
      /\ KeptFits(h.dirty, h.managed, h.sidecar, c, b, g)
      /\ KeptFits(h.saved, h.managed, h.sidecar, c, b, g)
      /\ SettingsFit(enabled, scanFaults, toggles)
  BY <1>1 DEF EdgesInv, Good, HandleFits
<1>3. PICK o \in {h.overlay, h.dirty, h.saved} : n = Closed(o)
  BY <1>1 DEF CloseChain
<1>4. o = NoOverlay \/ OverlayFits(o, c, b, g)
  BY <1>2, <1>3 DEF KeptFits
<1>5. Good(n, c, b, g) /\ n = Closed(n.saved)
  BY <1>2, <1>3, <1>4, ClosedKeeps
<1>6. SidecarFits(sidecarFile', c, b)
  BY <1>1, <1>2 DEF CloseChain
<1>7. UNCHANGED <<chain, enabled, born, scanFaults, toggles>>
  BY DEF CloseChain
<1>8. Spared' = Spared
  BY <1>7 DEF Spared
<1>9. ClosedFits(n)
  BY <1>5 DEF ClosedFits
<1>10. QED
  BY <1>1, <1>2, <1>5, <1>6, <1>7, <1>8, <1>9 DEF EdgesInv

LEMMA OpenStays ==
    ASSUME EdgesInv, OpenChain
    PROVE  EdgesInv'
<1>0. PICK g \in BOOLEAN : g = Spared
  BY DEF Spared
<1>1. PICK c, b, h, n, s : /\ c = chain /\ b = born /\ h = [handle EXCEPT !.managed = "none"]
                           /\ n = handle' /\ s = sidecarFile /\ g = Spared
  BY <1>0
<1>2. /\ ChainFits(c, b) /\ SidecarFits(s, c, b) /\ HandleFits(handle, c, b, g)
      /\ handle \in EdgeHandles /\ SettingsFit(enabled, scanFaults, toggles)
      /\ handle = Closed(handle.saved) /\ (g => b <= MaxFullBuild) /\ (g => enabled)
  <2>1. handle.managed = "closed"
    BY DEF OpenChain
  <2>2. /\ ChainFits(c, b) /\ SidecarFits(s, c, b) /\ HandleFits(handle, c, b, g)
        /\ handle \in EdgeHandles /\ SettingsFit(enabled, scanFaults, toggles)
        /\ ClosedFits(handle)
    BY <1>1 DEF EdgesInv, Good, HandleFits
  <2>3. (g => b <= MaxFullBuild) /\ (g => toggles = 0)
    BY <1>1 DEF Spared
  <2>4. QED
    BY <2>1, <2>2, <2>3 DEF ClosedFits, SettingsFit
<1>3. /\ handle.sidecar = <<>> /\ handle.waiting = {} /\ ~ handle.rebuild
      /\ handle.overlay = NoOverlay /\ handle.queue = <<>> /\ handle.job = NoJob
      /\ handle.dirty = NoOverlay /\ handle.managed = "closed"
  BY <1>2 DEF Closed
<1>4. /\ h \in EdgeHandles /\ h.managed = "none" /\ h.sidecar = <<>> /\ h.waiting = {} /\ ~ h.rebuild
      /\ h.overlay = NoOverlay /\ h.queue = <<>> /\ h.job = NoJob /\ h.dirty = NoOverlay
      /\ h.saved = handle.saved
  BY <1>1, <1>2, <1>3 DEF EdgeHandles
<1>5. HandleFits(h, c, b, g)
  <2>1. SidecarFits(<<>>, c, b)
    BY <1>2, <1>3 DEF HandleFits
  <2>2. KeptFits(h.saved, "none", <<>>, c, b, g) /\ KeptFits(NoOverlay, "none", <<>>, c, b, g)
    BY <1>2, <1>4 DEF HandleFits, KeptFits
  <2>3. QED
    BY <1>4, <2>1, <2>2 DEF HandleFits
<1>7. ASSUME n = [h EXCEPT !.rebuild = TRUE], sidecarFile' = s
      PROVE  Good(n, c, b, g) /\ n.managed # "closed" /\ SidecarFits(sidecarFile', c, b)
  <2>1. /\ n \in EdgeHandles /\ n.managed = "none" /\ n.sidecar = h.sidecar
        /\ n.waiting = h.waiting /\ n.overlay = h.overlay
        /\ n.queue = h.queue /\ n.job = NoJob /\ n.saved = h.saved /\ n.dirty = h.dirty
    BY <1>4, <1>7 DEF EdgeHandles
  <2>2. HandleFits(n, c, b, g)
    BY <1>4, <1>5, <2>1 DEF HandleFits, Works
  <2>3. LineFits(n, g) /\ ~ Works(n)
    BY <2>1 DEF LineFits, Works
  <2>4. Good(n, c, b, g)
    BY <2>2, <2>3 DEF Good
  <2>5. QED
    BY <1>2, <1>7, <2>1, <2>4
<1>8. ASSUME ~ enabled, sidecarFile' = s,
             n = LoadOverlay([h EXCEPT !.managed = "search", !.sidecar = s], c)
      PROVE  Good(n, c, b, g) /\ n.managed # "closed" /\ SidecarFits(sidecarFile', c, b)
  <2>1. PICK x : x = [h EXCEPT !.managed = "search", !.sidecar = s]
    OBVIOUS
  <2>2. s \in Seq(Ids)
    BY <1>2, SidecarFacts
  <2>3. /\ x \in EdgeHandles /\ x.managed = "search" /\ x.sidecar = s
        /\ x.waiting = {} /\ x.overlay = NoOverlay /\ x.queue = <<>>
        /\ x.job = NoJob /\ x.saved = h.saved /\ x.dirty = NoOverlay
    BY <1>4, <2>1, <2>2 DEF EdgeHandles
  <2>4. KeptFits(h.saved, "search", s, c, b, g) /\ KeptFits(NoOverlay, "search", s, c, b, g)
    BY <1>5 DEF HandleFits, KeptFits
  <2>5. HandleFits(x, c, b, g) /\ Works(x)
    BY <1>2, <2>3, <2>4 DEF HandleFits, Works
  <2>6. ~ g
    BY <1>2, <1>8
  <2>7. n = LoadOverlay(x, c)
    BY <1>8, <2>1
  <2>8. Good(n, c, b, g) /\ n.managed = x.managed
    BY <1>2, <2>5, <2>6, <2>7, LoadOverlayKeeps
  <2>9. QED
    BY <1>2, <1>8, <2>3, <2>8
<1>9. Good(n, c, b, g) /\ n.managed # "closed" /\ SidecarFits(sidecarFile', c, b)
  <2>1. \/ n = Manage(h, c) /\ sidecarFile' = c
        \/ n = [h EXCEPT !.rebuild = TRUE] /\ sidecarFile' = s
        \/ /\ ~ enabled /\ sidecarFile' = s
           /\ n = LoadOverlay([h EXCEPT !.managed = "search", !.sidecar = s], c)
    BY <1>1 DEF OpenChain
  <2>2. CASE n = Manage(h, c) /\ sidecarFile' = c
    <3>1. Good(n, c, b, g) /\ n.managed = "auto"
      BY <1>2, <1>5, <2>2, ManageKeeps
    <3>2. QED
      BY <1>2, <2>2, <3>1, WholeChain
  <2>3. QED
    BY <1>7, <1>8, <2>1, <2>2
<1>10. UNCHANGED <<chain, enabled, born, scanFaults, toggles>>
  BY DEF OpenChain
<1>11. Spared' = Spared
  BY <1>10 DEF Spared
<1>12. ClosedFits(n)
  BY <1>9 DEF ClosedFits
<1>13. QED
  BY <1>1, <1>2, <1>9, <1>10, <1>11, <1>12 DEF EdgesInv

\* A new chain has nothing in line.
LEMMA EdgesBegin == EdgeInit => EdgesInv
<1> SUFFICES ASSUME EdgeInit PROVE EdgesInv
  OBVIOUS
<1>0. PICK g \in BOOLEAN : g = Spared
  BY DEF Spared
<1>1. PICK c, b, h, o : c = chain /\ b = born /\ h = handle /\ o = NewOverlay /\ g = Spared
  BY <1>0
<1>2. /\ c = <<>> /\ b = 0 /\ h = [Closed(o) EXCEPT !.managed = "auto", !.overlay = o]
      /\ enabled = TRUE /\ sidecarFile = <<>> /\ scanFaults = 0 /\ toggles = 0
  BY <1>1 DEF EdgeInit
<1>3. ChainFits(c, b)
  <2>1. PICK S : S = 1 .. b
    OBVIOUS
  <2>2. <<>> \in Seq(S) /\ Len(<<>>) = 0 /\ DOMAIN <<>> = {}
    OBVIOUS
  <2>3. b \in 0 .. MaxBorn
    BY <1>2, EdgeConstants
  <2>4. QED
    BY <1>2, <2>1, <2>2, <2>3 DEF ChainFits, Rises
<1>4. SidecarFits(<<>>, c, b)
  <2>1. c = <<>> /\ SidecarFits(c, c, b)
    BY <1>2, <1>3, WholeChain
  <2>2. QED
    BY <2>1
<1>5. OverlayFits(o, c, b, g) /\ o.known = {}
  <2>1. /\ o \in Overlays /\ o.known = {} /\ o.covered = 0 /\ o.head = 0
        /\ (\A j \in Ids : o.edges[j] = {})
    BY <1>1, EmptyOverlay DEF NewOverlay
  <2>2. PICK a : a = SetCoverage(o, 0, 0)
    OBVIOUS
  <2>3. a = o
    BY <2>1, <2>2 DEF SetCoverage, Overlays
  <2>4. OverlayFits(a, c, b, FALSE)
    <3>1. PICK z \in Nat : z = 0 /\ z <= b
      BY <1>2
    <3>2. a = SetCoverage(NewOverlay, z, z)
      BY <1>1, <2>2, <3>1
    <3>3. QED
      BY <1>3, <3>1, <3>2, EmptyFits
  <2>5. Covers(o, c)
    BY <2>1 DEF Covers
  <2>6. QED
    BY <2>1, <2>3, <2>4, <2>5 DEF OverlayFits
<1>6. o \in Overlays /\ o # NoOverlay
  BY <1>5, AbsentIsNone DEF OverlayFits
<1>7. /\ h.managed = "auto" /\ h.sidecar = <<>> /\ h.waiting = {} /\ ~ h.rebuild
      /\ h.overlay = o /\ h.queue = <<>> /\ h.job = NoJob /\ h.unsaved = 0
      /\ h.dirty = NoOverlay /\ h.saved = o /\ h \in EdgeHandles
  <2>1. h = [managed |-> "auto", sidecar |-> <<>>, waiting |-> {}, rebuild |-> FALSE,
             overlay |-> o, queue |-> <<>>, job |-> NoJob, unsaved |-> 0,
             dirty |-> NoOverlay, saved |-> o]
    BY <1>2 DEF Closed
  <2>2. <<>> \in Seq(Ids) /\ <<>> \in Seq(Nat) /\ {} \in SUBSET Nat
    OBVIOUS
  <2>3. QED
    BY <1>6, <2>1, <2>2 DEF EdgeHandles
<1>8. KeptFits(o, "auto", <<>>, c, b, g) /\ KeptFits(NoOverlay, "auto", <<>>, c, b, g)
  BY <1>5 DEF KeptFits
<1>9. DOMAIN <<>> = {} /\ Follows(<<>>, c)
  BY DEF Follows
<1>10. HandleFits(h, c, b, g) /\ Works(h)
  BY <1>4, <1>7, <1>8, <1>9 DEF HandleFits, Works
<1>11. InLine(h) = {} /\ WorkFits(h)
  BY <1>7, NobodyInLine
<1>12. ToCome(h, c, g, {})
  <2>1. Due(o, <<>>, c, g, {})
    BY <1>9 DEF Due
  <2>2. QED
    BY <1>7, <2>1 DEF ToCome
<1>13. LineFits(h, g)
  BY <1>6, <1>7, <1>10, <1>11 DEF LineFits
<1>14. Good(h, c, b, g) /\ ClosedFits(h)
  BY <1>7, <1>10, <1>11, <1>12, <1>13 DEF Good, ClosedFits
<1>15. SettingsFit(enabled, scanFaults, toggles)
  BY <1>2 DEF SettingsFit
<1>16. QED
  BY <1>1, <1>2, <1>3, <1>4, <1>14, <1>15 DEF EdgesInv

\* No step breaks it.
LEMMA EdgesInductive == EdgesInv /\ [EdgeNext]_edgeVars => EdgesInv'
<1> SUFFICES ASSUME EdgesInv, [EdgeNext]_edgeVars PROVE EdgesInv'
  OBVIOUS
<1>1. CASE UNCHANGED edgeVars
  BY <1>1 DEF EdgesInv, Spared, edgeVars
<1>2. CASE EdgeNext
  BY <1>2, AppendStays, CommitStays, ScanStays, RepairStays, FlushStays, EnableStays,
     DisableStays, CrashStays, CloseStays, OpenStays DEF EdgeNext
<1>3. QED
  BY <1>1, <1>2

\* It says what the run checks.
LEMMA EdgesInvImplies == EdgesInv => OverlayIsTrue
<1> SUFFICES ASSUME EdgesInv PROVE OverlayIsTrue
  OBVIOUS
<1>0. PICK g \in BOOLEAN : g = Spared
  BY DEF Spared
<1>1. PICK c, b, h : c = chain /\ b = born /\ h = handle /\ g = Spared
  BY <1>0
<1>2. ChainFits(c, b) /\ Good(h, c, b, g) /\ HandleFits(h, c, b, g) /\ SidecarFits(h.sidecar, c, b)
  BY <1>1 DEF EdgesInv, Good, HandleFits
<1>3. \A o \in {h.overlay, h.saved} \ {NoOverlay} : OverlayFits(o, c, b, g)
  BY <1>2 DEF HandleFits, KeptFits
<1>4. EdgesAreScratch
  <2>1. SUFFICES ASSUME NEW o \in {h.overlay, h.saved} \ {NoOverlay}, Plain(o, c),
                        NEW i \in ToSet(c)
                 PROVE  o.edges[i] = Reference(i, o.known)
    BY <1>1 DEF EdgesAreScratch, Plain
  <2>2. o.edges[i] = Neighbours(c, i, o.known)
    BY <1>3, <2>1 DEF OverlayFits, EdgesFit
  <2>3. QED
    BY <1>1, <2>2 DEF Reference, Neighbours, Compared
<1>5. ASSUME g, NEW o \in {h.overlay, h.saved} \ {NoOverlay},
             o.covered \in 1 .. Len(c), c[o.covered] = o.head
      PROVE  ToSet(Prefix(c, o.covered)) \subseteq o.known
  <2>1. \A q \in 1 .. o.covered : c[q] \in o.known
    BY <1>3, <1>5 DEF OverlayFits, Covers
  <2>2. PICK n \in 0 .. Len(c) : n = o.covered
    BY <1>5
  <2>3. PICK s : s = Prefix(c, n)
    OBVIOUS
  <2>4. DOMAIN s = 1 .. n /\ \A p \in 1 .. n : s[p] = c[p]
    BY <1>2, <2>3, ChainFollowsItself
  <2>5. QED
    BY <2>1, <2>2, <2>3, <2>4 DEF ToSet
<1>6. ASSUME g, h.queue = <<>>, h.job = NoJob, h.overlay # NoOverlay
      PROVE  ToSet(h.sidecar) \subseteq h.overlay.known
  <2>1. CASE Works(h)
    <3>1. InLine(h) = {}
      BY <1>6, NobodyInLine
    <3>2. Due(h.overlay, h.sidecar, c, g, {})
      BY <1>2, <1>6, <2>1, <3>1 DEF Good, ToCome
    <3>3. QED
      BY <1>6, <3>2 DEF Due, ToSet
  <2>2. CASE ~ Works(h)
    <3>1. h.sidecar = <<>> /\ ToSet(<<>>) = {}
      BY <1>2, <2>2, EmptyLine DEF HandleFits
    <3>2. QED
      BY <3>1
  <2>3. QED
    BY <2>1, <2>2
<1>7. CoverageIsTrue
  BY <1>1, <1>5, <1>6 DEF CoverageIsTrue, Spared, EdgesSettled
<1>8. QED
  BY <1>4, <1>7 DEF OverlayIsTrue

\* Whatever scans, replays, rebuilds, crashes and changes of the setting an overlay has
\* been through, its lists are those a comparison of every pair would give, unless a
\* thought was added twice; and while no scan failed and vectors stayed enabled it has
\* every thought it covers (load_or_rebuild_implicit_edge_overlay, queue_implicit_edges,
\* adopt_finished_edge_job in lib.rs).
THEOREM OverlaysStayTrue == EdgeSpec => []OverlayIsTrue
<1>1. EdgeSpec => []EdgesInv
  BY EdgesBegin, EdgesInductive, PTL DEF EdgeSpec
<1>2. QED
  BY <1>1, EdgesInvImplies, PTL

=============================================================================
