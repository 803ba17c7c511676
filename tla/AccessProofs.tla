----------------------------- MODULE AccessProofs -----------------------------
(***************************************************************************)
(* Proofs about governed chains (ChainAccess), for every number of agents, *)
(* keys, thoughts, changes, faults and openings.                           *)
(*                                                                         *)
(* The policy is computed from the chain by a recursive function, so the   *)
(* first lemmas are about it: it satisfies its defining equation, what     *)
(* holds of every step holds of every prefix, and prefixes that agree have *)
(* the same policies.  They rest on induction in the form that every       *)
(* non-empty set of natural numbers has a least element.                   *)
(*                                                                         *)
(* The invariants then speak of every length the chain has had, so that a  *)
(* lost tail takes nothing from them.                                      *)
(***************************************************************************)
EXTENDS ChainAccess, Integers, TLAPS, FiniteSetTheorems, SequenceTheorems

-----------------------------------------------------------------------------
(* Induction, as the least number principle for a set. *)

\* A set of natural numbers has a least element.
LEMMA LeastNumber ==
    ASSUME NEW B \in SUBSET Nat, NEW b \in B
    PROVE  \E m \in B : \A k \in B : m <= k
<1> DEFINE up == 0 .. b
           below == {0 .. k : k \in {j \in B : j <= b}}
<1>1. IsFiniteSet(up)
  BY FS_Interval
<1>2. below \subseteq SUBSET up /\ below # {}
  <2>1. \A k \in B : k <= b => 0 .. k \subseteq up
    OBVIOUS
  <2>2. 0 .. b \in below
    OBVIOUS
  <2>3. QED
    BY <2>1, <2>2
<1>3. IsWellFoundedOn(StrictSubsetOrdering(up), FiniteSubsetsOf(up))
  BY <1>1, FS_StrictSubsetOrderingWellFounded
<1>4. below \subseteq FiniteSubsetsOf(up)
  BY <1>1, <1>2, FS_Subset DEF FiniteSubsetsOf
<1> HIDE DEF below, up
<1>5. PICK x \in below : \A y \in below : ~(<<y, x>> \in StrictSubsetOrdering(up))
  BY <1>2, <1>3, <1>4, WFMin
<1>6. PICK m \in B : m <= b /\ x = 0 .. m
  BY <1>5 DEF below
<1>7. ASSUME NEW k \in B, k < m
      PROVE  FALSE
  <2>1. 0 .. k \in below
    BY <1>6, <1>7 DEF below
  <2>2. 0 .. k \subseteq 0 .. m /\ m \in 0 .. m /\ m \notin 0 .. k
    BY <1>7
  <2>3. <<0 .. k, x>> \in StrictSubsetOrdering(up)
    BY <2>1, <2>2, <1>2, <1>5, <1>6 DEF StrictSubsetOrdering
  <2>4. QED
    BY <1>5, <2>1, <2>3
<1>8. QED
  BY <1>7

\* What replaying does with the nth thought.
Step(p, ts, n) ==
    IF ts[n].record # NoRecord /\ CheckRecord(p, ts[n], PrevHash(ts, n))
      THEN CommitRecord(p, ts[n].record, ts[n].hash, n - 1)
      ELSE p

\* The recursive function exists: it satisfies its own equation.
LEMMA ReplaysLaw ==
    ASSUME NEW ts, Len(ts) \in Nat
    PROVE  Replays(ts) = [n \in 0 .. Len(ts) |-> IF n = 0 THEN NoPolicy ELSE Step(Replays(ts)[n - 1], ts, n)]
<1> DEFINE F(g, m) == [n \in 0 .. m |-> IF n = 0 THEN NoPolicy ELSE Step(g[n - 1], ts, n)]
           B == {m \in Nat : ~ \E g : g = F(g, m)}
<1>1. B = {}
  <2> SUFFICES ASSUME B # {} PROVE FALSE
    OBVIOUS
  <2>1. PICK m \in B : \A k \in B : m <= k
    <3>1. B \in SUBSET Nat
      OBVIOUS
    <3>2. PICK b : b \in B
      OBVIOUS
    <3> HIDE DEF B
    <3>3. QED
      BY <3>1, <3>2, LeastNumber
  <2>2. m # 0
    <3>1. [n \in 0 .. 0 |-> NoPolicy] = F([n \in 0 .. 0 |-> NoPolicy], 0)
      OBVIOUS
    <3>2. QED
      BY <3>1, <2>1
  <2>3. m - 1 \in Nat /\ m - 1 \notin B
    BY SMTT(30), <2>1, <2>2
  <2>4. PICK g : g = F(g, m - 1)
    BY <2>3
  <2> DEFINE h == [n \in 0 .. m |-> IF n = m THEN Step(g[m - 1], ts, m) ELSE g[n]]
  <2>5. h = F(h, m)
    <3>1. ASSUME NEW n \in 0 .. m
          PROVE  h[n] = IF n = 0 THEN NoPolicy ELSE Step(h[n - 1], ts, n)
      <4>1. CASE n = m
        <5>1. h[m] = Step(g[m - 1], ts, m) /\ h[m - 1] = g[m - 1]
          BY <2>2, <2>3
        <5>2. QED
          BY <4>1, <5>1, <2>2
      <4>2. CASE n # m
        <5>1. n \in 0 .. m - 1 /\ h[n] = g[n]
          BY <4>2
        <5>2. g[n] = IF n = 0 THEN NoPolicy ELSE Step(g[n - 1], ts, n)
          BY <2>4, <5>1
        <5>3. n # 0 => h[n - 1] = g[n - 1]
          BY <5>1
        <5>4. QED
          BY <5>1, <5>2, <5>3
      <4>3. QED
        BY <4>1, <4>2
    <3>2. QED
      BY <3>1
  <2>6. QED
    BY <2>1, <2>5
<1>2. \E g : g = F(g, Len(ts))
  BY <1>1
<1>3. Replays(ts) = CHOOSE g : g = F(g, Len(ts))
  BY DEF Replays, Step
<1>4. QED
  BY <1>2, <1>3

\* What holds of 0 and passes on to the next number holds up to m.
LEMMA UpTo ==
    ASSUME NEW m \in Nat, NEW S, 0 \in S, \A n \in Nat : n < m /\ n \in S => n + 1 \in S
    PROVE  0 .. m \subseteq S
<1> SUFFICES ASSUME NEW b \in (0 .. m) \ S PROVE FALSE
  OBVIOUS
<1> DEFINE B == (0 .. m) \ S
<1>1. B \in SUBSET Nat /\ b \in B
  OBVIOUS
<1> HIDE DEF B
<1>2. PICK k \in B : \A j \in B : k <= j
  BY <1>1, LeastNumber
<1>3. k \in 0 .. m /\ k \notin S
  BY <1>2 DEF B
<1>4. k # 0
  BY <1>3
<1>5. k - 1 \in Nat /\ k - 1 < m /\ k - 1 \in 0 .. m
  BY <1>3, <1>4
<1>6. k - 1 \notin B
  BY <1>1, <1>2, <1>5
<1>7. k - 1 \in S
  BY <1>5, <1>6 DEF B
<1>8. (k - 1) + 1 \in S
  BY <1>5, <1>7
<1>9. QED
  BY <1>3, <1>8

\* The values the variables range over.
Records == [seq : Nat, mode : Modes, keys : SUBSET AllowedKeys, prev : Nat]

Thoughts == [hash : Nat, by : AllowedKeys \cup {Nobody}, version : 0 .. 2, over : Nat,
             record : Records]

Segments == [start : Nat, kind : {"public", "private"}]

Policies == [mode : Modes, seq : Nat, keys : SUBSET AllowedKeys, head : Nat,
             segments : Seq(Segments), records : SUBSET Nat,
             quarantined : SUBSET Nat, locked : BOOLEAN]

\* A policy without what opening adds to it.
Cleared(p) == [p EXCEPT !.quarantined = {}, !.locked = FALSE]

LEMMA PushTyped ==
    ASSUME NEW segments \in Seq(Segments), NEW s \in Segments
    PROVE  PushSegment(segments, s) \in Seq(Segments)
BY DEF PushSegment

LEMMA SamePolicy ==
    ASSUME NEW p \in Policies, NEW q \in Policies,
           p.mode = q.mode, p.seq = q.seq, p.keys = q.keys, p.head = q.head,
           p.segments = q.segments, p.records = q.records,
           p.quarantined = q.quarantined, p.locked = q.locked
    PROVE  p = q
BY DEF Policies

LEMMA ClearedTyped ==
    ASSUME NEW p \in Policies
    PROVE  /\ Cleared(p) \in Policies
           /\ Cleared(p).mode = p.mode /\ Cleared(p).seq = p.seq
           /\ Cleared(p).keys = p.keys /\ Cleared(p).head = p.head
           /\ Cleared(p).segments = p.segments /\ Cleared(p).records = p.records
           /\ Cleared(p).quarantined = {} /\ Cleared(p).locked = FALSE
BY DEF Policies, Cleared

\* The positions of the records, with one more.
Holding(positions, i) == positions \cup {i}

\* The segment that record r opens when it is stored at position i.
Opens(r, i) ==
    [start |-> IF r.mode = "open" THEN i + 1 ELSE i, kind |-> SegmentKind(r.mode)]

LEMMA CommitTyped ==
    ASSUME NEW p \in Policies, NEW r \in Records, NEW h \in Nat, NEW i \in Nat
    PROVE  /\ CommitRecord(p, r, h, i) \in Policies
           /\ CommitRecord(p, r, h, i).quarantined = p.quarantined
           /\ CommitRecord(p, r, h, i).locked = p.locked
           /\ CommitRecord(p, r, h, i).seq = r.seq
           /\ CommitRecord(p, r, h, i).mode = r.mode
           /\ CommitRecord(p, r, h, i).keys = r.keys
           /\ CommitRecord(p, r, h, i).head = h
           /\ CommitRecord(p, r, h, i).records = Holding(p.records, i)
           /\ CommitRecord(p, r, h, i).segments
                = PushSegment(p.segments, Opens(r, i))
<1> DEFINE s == Opens(r, i)
           s2 == [start |-> IF SegmentKind(r.mode) = "private" THEN i ELSE i + 1,
                  kind |-> SegmentKind(r.mode)]
           q == PushSegment(p.segments, s)
<1>1. s \in Segments /\ s = s2
  BY DEF Opens, Records, Segments, SegmentKind
<1>2. q \in Seq(Segments)
  BY <1>1, PushTyped DEF Policies
<1>3. CommitRecord(p, r, h, i)
        = [p EXCEPT !.records = @ \cup {i}, !.segments = PushSegment(@, s2),
                    !.mode = r.mode, !.seq = r.seq, !.keys = r.keys, !.head = h]
  BY DEF CommitRecord
<1>4. PushSegment(p.segments, s2) = q
  BY <1>1
<1> HIDE DEF q, s2
<1> DEFINE g == PushSegment(p.segments, s2)
<1>5. CommitRecord(p, r, h, i)
        = [p EXCEPT !.records = @ \cup {i}, !.segments = g,
                    !.mode = r.mode, !.seq = r.seq, !.keys = r.keys, !.head = h]
  BY <1>3
<1> HIDE DEF g
<1>6. g \in Seq(Segments) /\ g = q
  BY <1>2, <1>4 DEF g
<1> DEFINE c == CommitRecord(p, r, h, i)
<1> HIDE DEF c
<1>7. r.mode \in Modes /\ r.seq \in Nat /\ r.keys \in SUBSET AllowedKeys
  BY DEF Records
<1>8. /\ c.records = p.records \cup {i} /\ c.segments = g
      /\ c.mode = r.mode /\ c.seq = r.seq /\ c.keys = r.keys /\ c.head = h
      /\ c.quarantined = p.quarantined /\ c.locked = p.locked
  BY <1>5 DEF Policies, c
<1> DEFINE b == p.records \cup {i}
<1>9. b \in SUBSET Nat
  BY DEF Policies
<1>10. c = [p EXCEPT !.records = b, !.segments = g, !.mode = r.mode, !.seq = r.seq,
                     !.keys = r.keys, !.head = h]
  BY <1>5 DEF c, Policies
<1> HIDE DEF b
<1>11. c \in Policies
  BY <1>6, <1>7, <1>9, <1>10 DEF Policies
<1>12. QED
  BY <1>6, <1>8, <1>11 DEF Holding, q, s, c

LEMMA CommitKeys ==
    ASSUME NEW p \in Policies, NEW r \in Records, NEW h \in Nat, NEW i \in Nat
    PROVE  CommitRecord(p, r, h, i).keys = r.keys /\ CommitRecord(p, r, h, i).seq = r.seq
<1>1. CommitRecord(p, r, h, i).seq = r.seq
  BY CommitTyped
<1>2. CommitRecord(p, r, h, i).keys = r.keys
  BY CommitTyped
<1>3. QED
  BY <1>1, <1>2

LEMMA CommitCleared ==
    ASSUME NEW p \in Policies, NEW r \in Records, NEW h \in Nat, NEW i \in Nat
    PROVE  Cleared(CommitRecord(p, r, h, i)) = CommitRecord(Cleared(p), r, h, i)
<1> DEFINE c == CommitRecord(p, r, h, i)
           d == CommitRecord(Cleared(p), r, h, i)
           k == Cleared(p)
<1>1. /\ k \in Policies
      /\ k.segments = p.segments /\ k.records = p.records
      /\ k.quarantined = {} /\ k.locked = FALSE
  BY ClearedTyped
<1>2. /\ c \in Policies /\ c.seq = r.seq /\ c.mode = r.mode /\ c.keys = r.keys
      /\ c.head = h /\ c.records = Holding(p.records, i)
      /\ c.segments = PushSegment(p.segments, Opens(r, i))
  <2>1. c \in Policies /\ c.seq = r.seq
    BY CommitTyped
  <2>2. c.mode = r.mode /\ c.keys = r.keys
    BY CommitTyped
  <2>3. c.head = h /\ c.records = Holding(p.records, i)
    BY CommitTyped
  <2>4. c.segments = PushSegment(p.segments, Opens(r, i))
    BY CommitTyped
  <2> HIDE DEF c
  <2>5. QED
    BY <2>1, <2>2, <2>3, <2>4
<1> HIDE DEF c, k
<1>3. /\ d \in Policies /\ d.seq = r.seq /\ d.mode = r.mode /\ d.keys = r.keys
      /\ d.head = h /\ d.records = Holding(k.records, i)
      /\ d.quarantined = k.quarantined /\ d.locked = k.locked
      /\ d.segments = PushSegment(k.segments, Opens(r, i))
  BY <1>1, CommitTyped DEF k
<1> HIDE DEF d
<1>4. /\ Cleared(c) \in Policies
      /\ Cleared(c).mode = c.mode /\ Cleared(c).seq = c.seq
      /\ Cleared(c).keys = c.keys /\ Cleared(c).head = c.head
      /\ Cleared(c).segments = c.segments /\ Cleared(c).records = c.records
      /\ Cleared(c).quarantined = {} /\ Cleared(c).locked = FALSE
  BY <1>2, ClearedTyped
<1>5. d.segments = c.segments /\ d.records = c.records
  BY <1>1, <1>2, <1>3
<1>6. d.quarantined = {} /\ d.locked = FALSE
  BY <1>1, <1>3
<1>7. Cleared(c) = d
  BY <1>2, <1>3, <1>4, <1>5, <1>6, SamePolicy
<1>8. QED
  BY <1>7 DEF c, d

LEMMA CheckCleared ==
    ASSUME NEW p \in Policies, NEW t, NEW h
    PROVE  CheckRecord(Cleared(p), t, h) = CheckRecord(p, t, h)
BY ClearedTyped DEF CheckRecord

\* What the segments of a replayed policy say about the n positions before it.
Sound(p, n) ==
    /\ \A s \in DOMAIN p.segments : p.segments[s].start <= n
    /\ p.mode # "open" => p.segments # <<>> /\ p.segments[Len(p.segments)].kind = "private"

\* A policy as replaying n thoughts leaves it.
Plain(p, n) ==
    /\ p \in Policies
    /\ p.quarantined = {} /\ p.locked = FALSE
    /\ p.seq = 0 => p.keys = {}
    /\ Sound(p, n)

LEMMA PushSound ==
    ASSUME NEW segments \in Seq(Segments), NEW n \in Nat, NEW s \in Segments,
           \A k \in DOMAIN segments : segments[k].start <= n,
           n <= s.start, s.start <= n + 1
    PROVE  /\ \A k \in DOMAIN PushSegment(segments, s) : PushSegment(segments, s)[k].start <= n + 1
           /\ PushSegment(segments, s) # <<>>
           /\ PushSegment(segments, s)[Len(PushSegment(segments, s))] = s
<1>0. s.start \in Nat /\ \A k \in DOMAIN segments : segments[k].start \in Nat
  <2>1. \A k \in DOMAIN segments : segments[k] \in Segments
    OBVIOUS
  <2>2. QED
    BY <2>1 DEF Segments
<1>1. CASE Len(segments) = 0 \/ segments[Len(segments)].start < s.start
  <2>1. PushSegment(segments, s) = Append(segments, s)
    BY <1>1 DEF PushSegment
  <2>2. QED
    BY <2>1, <1>0
<1>2. CASE ~(Len(segments) = 0 \/ segments[Len(segments)].start < s.start)
  <2>1. Len(segments) \in DOMAIN segments
    BY <1>2
  <2>2. segments[Len(segments)].start = s.start
    BY <1>0, <1>2, <2>1
  <2>3. PushSegment(segments, s) = [segments EXCEPT ![Len(segments)] = s]
    BY <1>2, <2>2 DEF PushSegment
  <2>4. QED
    BY <2>1, <2>3, <1>0
<1>3. QED
  BY <1>1, <1>2

LEMMA CommitPlain ==
    ASSUME NEW p, NEW n \in Nat, Plain(p, n),
           NEW r \in Records, r.seq # 0, NEW h \in Nat
    PROVE  Plain(CommitRecord(p, r, h, n), n + 1)
<1> DEFINE s == Opens(r, n)
           c == CommitRecord(p, r, h, n)
<1>1. p \in Policies
  BY DEF Plain
<1>2. /\ c \in Policies /\ c.quarantined = p.quarantined /\ c.locked = p.locked
      /\ c.seq = r.seq /\ c.mode = r.mode
      /\ c.segments = PushSegment(p.segments, s)
  BY <1>1, CommitTyped
<1> HIDE DEF c
<1>3. p.segments \in Seq(Segments) /\ \A k \in DOMAIN p.segments : p.segments[k].start <= n
  BY <1>1 DEF Plain, Sound, Policies
<1>4. s \in Segments /\ n <= s.start /\ s.start <= n + 1
  BY DEF Opens, Segments, SegmentKind
<1>5. /\ \A k \in DOMAIN c.segments : c.segments[k].start <= n + 1
      /\ c.segments # <<>> /\ c.segments[Len(c.segments)] = s
  BY <1>2, <1>3, <1>4, PushSound
<1>6. c.mode # "open" => s.kind = "private"
  BY <1>2 DEF Opens, SegmentKind
<1>7. Sound(c, n + 1)
  BY <1>5, <1>6 DEF Sound
<1>8. QED
  BY <1>2, <1>7 DEF Plain, c

LEMMA ThoughtTyped ==
    ASSUME NEW ts \in Seq(Thoughts), NEW n \in 1 .. Len(ts)
    PROVE  /\ ts[n] \in Thoughts
           /\ ts[n].hash \in Nat /\ ts[n].over \in Nat /\ ts[n].version \in 0 .. 2
           /\ ts[n].by \in AllowedKeys \cup {Nobody} /\ ts[n].record \in Records
           /\ PrevHash(ts, n) \in Nat
<1>1. ts[n] \in Thoughts /\ (n # 1 => ts[n - 1] \in Thoughts)
  OBVIOUS
<1>2. QED
  BY <1>1 DEF Thoughts, PrevHash

LEMMA PlainInitially ==
    Plain(NoPolicy, 0)
<1>1. NoPolicy \in Policies
  BY DEF NoPolicy, Policies, Modes
<1>2. QED
  BY <1>1 DEF NoPolicy, Plain, Sound

LEMMA PlainLater ==
    ASSUME NEW p, NEW n \in Nat, Plain(p, n)
    PROVE  Plain(p, n + 1)
<1>1. p.segments \in Seq(Segments)
  BY DEF Plain, Policies
<1>2. \A k \in DOMAIN p.segments : p.segments[k] \in Segments
  BY <1>1
<1>3. \A k \in DOMAIN p.segments : p.segments[k].start \in Nat
  BY <1>2 DEF Segments
<1>4. \A k \in DOMAIN p.segments : p.segments[k].start <= n + 1
  BY <1>3 DEF Plain, Sound
<1>5. QED
  BY <1>4 DEF Plain, Sound

LEMMA StepPlain ==
    ASSUME NEW ts \in Seq(Thoughts), NEW n \in Nat, n < Len(ts), NEW p, Plain(p, n)
    PROVE  Plain(Step(p, ts, n + 1), n + 1)
<1>1. n + 1 \in 1 .. Len(ts)
  OBVIOUS
<1>2. ts[n + 1].hash \in Nat /\ ts[n + 1].record \in Records
  BY <1>1, ThoughtTyped
<1>3. CASE ts[n + 1].record # NoRecord /\ CheckRecord(p, ts[n + 1], PrevHash(ts, n + 1))
  <2>1. ts[n + 1].record.seq # 0
    <3>1. p.seq \in Nat
      BY DEF Plain, Policies
    <3>2. QED
      BY <1>3, <3>1 DEF CheckRecord
  <2>2. Plain(CommitRecord(p, ts[n + 1].record, ts[n + 1].hash, n), n + 1)
    BY <1>2, <2>1, CommitPlain
  <2>3. QED
    BY <1>3, <2>2 DEF Step
<1>4. CASE ~(ts[n + 1].record # NoRecord /\ CheckRecord(p, ts[n + 1], PrevHash(ts, n + 1)))
  <2>1. Step(p, ts, n + 1) = p
    BY <1>4 DEF Step
  <2>2. QED
    BY <2>1, PlainLater
<1>5. QED
  BY <1>3, <1>4

LEMMA ReplaysAt ==
    ASSUME NEW ts, Len(ts) \in Nat
    PROVE  /\ Replays(ts)[0] = NoPolicy
           /\ \A n \in Nat : n < Len(ts) => Replays(ts)[n + 1] = Step(Replays(ts)[n], ts, n + 1)
<1> DEFINE P == Replays(ts)
<1>1. P = [n \in 0 .. Len(ts) |-> IF n = 0 THEN NoPolicy ELSE Step(P[n - 1], ts, n)]
  BY ReplaysLaw
<1> HIDE DEF P
<1>2. P[0] = NoPolicy
  BY <1>1
<1>3. ASSUME NEW n \in Nat, n < Len(ts)
      PROVE  P[n + 1] = Step(P[n], ts, n + 1)
  <2>1. n + 1 \in 0 .. Len(ts) /\ n + 1 # 0 /\ (n + 1) - 1 = n
    BY <1>3
  <2>2. P[n + 1] = Step(P[(n + 1) - 1], ts, n + 1)
    BY <1>1, <2>1
  <2>3. QED
    BY <2>1, <2>2
<1>4. QED
  BY <1>2, <1>3 DEF P

\* Every policy that replaying reaches is well formed.
LEMMA ReplaysPlain ==
    ASSUME NEW ts \in Seq(Thoughts), NEW n \in 0 .. Len(ts)
    PROVE  Plain(Replays(ts)[n], n)
<1> DEFINE P == Replays(ts)
           S == {m \in Nat : Plain(P[m], m)}
<1>1. 0 \in S
  BY ReplaysAt, PlainInitially
<1>2. ASSUME NEW m \in Nat, m < Len(ts), m \in S
      PROVE  m + 1 \in S
  <2>1. Plain(P[m], m)
    BY <1>2
  <2>2. P[m + 1] = Step(P[m], ts, m + 1)
    BY <1>2, ReplaysAt
  <2> HIDE DEF P
  <2>3. Plain(P[m + 1], m + 1)
    BY <1>2, <2>1, <2>2, StepPlain
  <2>4. QED
    BY <2>3
<1>3. 0 .. Len(ts) \subseteq S
  <2>1. Len(ts) \in Nat
    OBVIOUS
  <2> HIDE DEF S
  <2>2. QED
    BY <1>1, <1>2, <2>1, UpTo
<1>4. QED
  BY <1>3

\* Chains that agree up to m have the same policies up to m.
LEMMA ReplaysPrefix ==
    ASSUME NEW ts, Len(ts) \in Nat, NEW us, Len(us) \in Nat,
           NEW m \in Nat, m <= Len(ts), m <= Len(us),
           \A k \in 1 .. m : ts[k] = us[k],
           NEW n \in 0 .. m
    PROVE  Replays(ts)[n] = Replays(us)[n]
<1> DEFINE P == Replays(ts)
           Q == Replays(us)
           S == {k \in Nat : P[k] = Q[k]}
<1>1. 0 \in S
  BY ReplaysAt
<1>2. ASSUME NEW k \in Nat, k < m, k \in S
      PROVE  k + 1 \in S
  <2>1. P[k] = Q[k]
    BY <1>2
  <2>2. P[k + 1] = Step(P[k], ts, k + 1)
    BY <1>2, ReplaysAt
  <2>3. Q[k + 1] = Step(Q[k], us, k + 1)
    BY <1>2, ReplaysAt
  <2>4. ts[k + 1] = us[k + 1] /\ PrevHash(ts, k + 1) = PrevHash(us, k + 1)
    BY <1>2 DEF PrevHash
  <2>5. Step(P[k], ts, k + 1) = Step(Q[k], us, k + 1)
    BY <2>1, <2>4 DEF Step
  <2> HIDE DEF P, Q
  <2>6. QED
    BY <2>2, <2>3, <2>5
<1> HIDE DEF S
<1>3. 0 .. m \subseteq S
  BY <1>1, <1>2, UpTo
<1>4. QED
  BY <1>3 DEF S

-----------------------------------------------------------------------------
(* The registry. *)

Registries == [keys : [Agents -> [KeyIds -> Keys \cup {NoKey}]],
               revoked : SUBSET (Agents \X KeyIds), disabled : SUBSET Agents]

Checkpoints == [count : Nat, head : Nat, seq : Nat, keys : SUBSET AllowedKeys,
                quarantined : SUBSET Nat, exists : BOOLEAN]

LEMMA AllowedTyped ==
    ASSUME NEW e \in AllowedKeys
    PROVE  e.agent \in Agents /\ e.id \in KeyIds /\ e.key \in Keys /\ e.key # NoKey
BY OperatorAssumption DEF AllowedKeys

LEMMA OperatorTyped ==
    /\ OperatorEntry \in AllowedKeys
    /\ OperatorEntry.agent = Operator /\ OperatorEntry.id = OperatorKeyId
    /\ OperatorEntry.key = OperatorKey /\ OperatorKey # NoKey
BY OperatorAssumption DEF OperatorEntry, AllowedKeys

LEMMA AddKeyFacts ==
    ASSUME NEW r \in Registries, NEW e \in AllowedKeys
    PROVE  /\ AddKey(r, e) \in Registries
           /\ KeyOf(AddKey(r, e), e.agent, e.id) = e.key
           /\ \A a \in Agents, i \in KeyIds :
                 ~(a = e.agent /\ i = e.id) => KeyOf(AddKey(r, e), a, i) = KeyOf(r, a, i)
<1> DEFINE k == [r.keys EXCEPT ![e.agent][e.id] = e.key]
           v == r.revoked \ {<<e.agent, e.id>>}
<1>1. r.keys \in [Agents -> [KeyIds -> Keys \cup {NoKey}]] /\ v \in SUBSET (Agents \X KeyIds)
  BY DEF Registries
<1>2. /\ k \in [Agents -> [KeyIds -> Keys \cup {NoKey}]]
      /\ k[e.agent][e.id] = e.key
      /\ \A a \in Agents, i \in KeyIds : ~(a = e.agent /\ i = e.id) => k[a][i] = r.keys[a][i]
  BY <1>1, AllowedTyped
<1>3. AddKey(r, e) = [r EXCEPT !.keys = k, !.revoked = v]
  BY DEF AddKey, Registries
<1> HIDE DEF k, v
<1>4. AddKey(r, e) \in Registries /\ AddKey(r, e).keys = k
  BY <1>1, <1>2, <1>3 DEF Registries
<1>5. QED
  BY <1>2, <1>4 DEF KeyOf

LEMMA RowFacts ==
    ASSUME NEW r \in Registries, NEW a \in Agents
    PROVE  /\ [r EXCEPT !.disabled = @ \ {a}] \in Registries
           /\ [r EXCEPT !.disabled = @ \ {a}].keys = r.keys
           /\ [r EXCEPT !.disabled = @ \cup {a}] \in Registries
           /\ [r EXCEPT !.disabled = @ \cup {a}].keys = r.keys
BY DEF Registries

LEMMA RevokeFacts ==
    ASSUME NEW r \in Registries, NEW a \in Agents, NEW i \in KeyIds
    PROVE  /\ [r EXCEPT !.revoked = @ \cup {<<a, i>>}] \in Registries
           /\ [r EXCEPT !.revoked = @ \cup {<<a, i>>}].keys = r.keys
BY DEF Registries

LEMMA OperatorFacts ==
    ASSUME NEW r \in Registries
    PROVE  /\ WithOperator(r) \in Registries
           /\ \A a \in Agents, i \in KeyIds :
                 \/ KeyOf(WithOperator(r), a, i) = KeyOf(r, a, i)
                 \/ /\ a = Operator /\ i = OperatorKeyId /\ KeyOf(r, a, i) = NoKey
                    /\ KeyOf(WithOperator(r), a, i) = OperatorKey
<1>1. CASE OperatorRegistered(r)
  BY <1>1 DEF WithOperator
<1>2. CASE ~OperatorRegistered(r)
  <2> DEFINE q == [r EXCEPT !.disabled = @ \ {Operator}]
  <2>1. q \in Registries /\ q.keys = r.keys
    BY RowFacts, OperatorAssumption
  <2>2. WithOperator(r) = AddKey(q, OperatorEntry)
    BY <1>2 DEF WithOperator
  <2> HIDE DEF q
  <2>3. /\ AddKey(q, OperatorEntry) \in Registries
        /\ KeyOf(AddKey(q, OperatorEntry), Operator, OperatorKeyId) = OperatorKey
        /\ \A a \in Agents, i \in KeyIds :
              ~(a = Operator /\ i = OperatorKeyId) =>
                 KeyOf(AddKey(q, OperatorEntry), a, i) = KeyOf(q, a, i)
    BY <2>1, AddKeyFacts, OperatorTyped
  <2>4. \A a \in Agents, i \in KeyIds : KeyOf(q, a, i) = KeyOf(r, a, i)
    BY <2>1 DEF KeyOf
  <2>5. KeyOf(r, Operator, OperatorKeyId) = NoKey
    BY <1>2 DEF OperatorRegistered
  <2>6. QED
    BY <2>2, <2>3, <2>4, <2>5
<1>3. QED
  BY <1>1, <1>2

LEMMA UpsertFacts ==
    ASSUME registry \in Registries, NEW named \in Named
    PROVE  /\ Upserted(named) \in Registries
           /\ \A e \in named : e \in AllowedKeys
           /\ \A e \in named : KeyOf(registry, e.agent, e.id) = NoKey =>
                 KeyOf(Upserted(named), e.agent, e.id) = e.key
           /\ \A a \in Agents, i \in KeyIds :
                 \/ KeyOf(Upserted(named), a, i) = KeyOf(registry, a, i)
                 \/ KeyOf(registry, a, i) = NoKey /\ KeyOf(Upserted(named), a, i) # NoKey
<1> DEFINE new == {e \in named : KeyOf(registry, e.agent, e.id) = NoKey}
<1>1. CASE new = {}
  BY <1>1 DEF Upserted, Named
<1>2. CASE new # {}
  <2>1. PICK e \in AllowedKeys : named = {e}
    BY <1>2 DEF Named
  <2>2. new = {e} /\ KeyOf(registry, e.agent, e.id) = NoKey
    BY <1>2, <2>1
  <2>3. Upserted(named) = AddKey(registry, e)
    BY <2>2 DEF Upserted
  <2>4. /\ AddKey(registry, e) \in Registries
        /\ KeyOf(AddKey(registry, e), e.agent, e.id) = e.key
        /\ \A a \in Agents, i \in KeyIds :
              ~(a = e.agent /\ i = e.id) =>
                 KeyOf(AddKey(registry, e), a, i) = KeyOf(registry, a, i)
    BY AddKeyFacts
  <2>5. e.key # NoKey
    BY AllowedTyped
  <2>6. QED
    BY <2>1, <2>2, <2>3, <2>4, <2>5
<1>3. QED
  BY <1>1, <1>2

OperatorId == <<Operator, OperatorKeyId>>

\* What a step may do to the two registries: a change of an identity's key, and a
\* file that falls behind, are both remembered.
Moves(r, f, d) ==
    /\ r \in Registries /\ f \in Registries
    /\ d \in SUBSET (Agents \X KeyIds) /\ doubtful \subseteq d
    /\ \A a \in Agents, i \in KeyIds : <<a, i>> \notin d =>
          /\ KeyOf(r, a, i) # KeyOf(registry, a, i) =>
                /\ KeyOf(registry, a, i) = NoKey
                /\ <<a, i>> = OperatorId => KeyOf(r, a, i) = OperatorKey
          /\ \/ KeyOf(f, a, i) = KeyOf(r, a, i)
             \/ /\ KeyOf(f, a, i) = KeyOf(saved, a, i)
                /\ KeyOf(r, a, i) = KeyOf(registry, a, i)

LEMMA ChangedFacts ==
    ASSUME NEW r
    PROVE  /\ KeysChanged(r) \subseteq Agents \X KeyIds
           /\ KeysReplaced(r) \subseteq KeysChanged(r)
           /\ \A a \in Agents, i \in KeyIds :
                 /\ <<a, i>> \notin KeysChanged(r) => KeyOf(r, a, i) = KeyOf(registry, a, i)
                 /\ <<a, i>> \notin KeysReplaced(r) /\ KeyOf(r, a, i) # KeyOf(registry, a, i) =>
                       /\ KeyOf(registry, a, i) = NoKey
                       /\ <<a, i>> = OperatorId => KeyOf(r, a, i) = OperatorKey
BY DEF KeysChanged, KeysReplaced, OperatorId

\* A change that was saved, and one whose save failed.
LEMMA MovesSaved ==
    ASSUME NEW r \in Registries, NEW f \in Registries, f = r \/ (f = saved /\ r = registry),
           doubtful \in SUBSET (Agents \X KeyIds)
    PROVE  Moves(r, f, doubtful \cup KeysReplaced(r))
<1>1. doubtful \cup KeysReplaced(r) \in SUBSET (Agents \X KeyIds)
  BY ChangedFacts
<1>2. QED
  BY <1>1, ChangedFacts DEF Moves

LEMMA MovesFailed ==
    ASSUME NEW r \in Registries, NEW f \in Registries,
           doubtful \in SUBSET (Agents \X KeyIds),
           \A a \in Agents, i \in KeyIds : <<a, i>> \notin KeysChanged(r) =>
               \/ KeyOf(f, a, i) = KeyOf(r, a, i)
               \/ KeyOf(f, a, i) = KeyOf(saved, a, i)
    PROVE  Moves(r, f, doubtful \cup KeysChanged(r))
<1>1. doubtful \cup KeysChanged(r) \in SUBSET (Agents \X KeyIds)
  BY ChangedFacts
<1>2. QED
  BY <1>1, ChangedFacts DEF Moves

LEMMA PersistMoves ==
    ASSUME registry \in Registries, saved \in Registries,
           doubtful \in SUBSET (Agents \X KeyIds),
           NEW r \in Registries, Persist(r)
    PROVE  Moves(registry', saved', doubtful')
<1>1. CASE saved' = r /\ doubtful' = doubtful \cup KeysReplaced(r)
  <2>1. Moves(r, r, doubtful \cup KeysReplaced(r))
    BY MovesSaved
  <2>2. QED
    BY <1>1, <2>1 DEF Persist
<1>2. CASE saved' \in {saved, r} /\ doubtful' = doubtful \cup KeysChanged(r)
  <2>1. Moves(r, saved', doubtful \cup KeysChanged(r))
    BY <1>2, MovesFailed
  <2>2. QED
    BY <1>2, <2>1 DEF Persist
<1>3. QED
  BY <1>1, <1>2 DEF Persist

-----------------------------------------------------------------------------
(* What a step does. *)

\* The type invariant.
Typed ==
    /\ thoughts \in Seq(Thoughts)
    /\ registry \in Registries /\ saved \in Registries
    /\ policy \in Policies /\ checkpoint \in Checkpoints
    /\ opened \in BOOLEAN /\ minted \in Nat
    /\ secret \in SUBSET (1 .. minted) /\ pushed \in SUBSET (1 .. minted)
    /\ sealed \in Seq(Nat)
    /\ doubtful \in SUBSET (Agents \X KeyIds)

\* A thought is stored; the variables that follow from it.
Grows(t) ==
    /\ t \in Thoughts /\ t.hash = minted + 1
    /\ thoughts' = Append(thoughts, t)
    /\ minted' = minted + 1
    /\ secret' = IF t.record # NoRecord \/ policy.mode # "open"
                 THEN secret \cup {t.hash} ELSE secret
    /\ pushed' = IF t.record = NoRecord /\ PublicSees(policy, Len(thoughts))
                 THEN pushed \cup {t.hash} ELSE pushed

Appended(t) ==
    /\ Grows(t)
    /\ t.record = NoRecord
    /\ t.version # 0 => t.by \in AllowedKeys
    /\ CheckAppendAccess(t)
    /\ policy' = policy

\* The operator's id names no other key, unless it is doubtful.
OperatorKnown ==
    OperatorId \in doubtful \/ KeyOf(registry, Operator, OperatorKeyId) \in {NoKey, OperatorKey}

\* The operator is among the keys of a policy in force.
OperatorIn(p) ==
    /\ p.seq = 0 => p.keys = {}
    /\ p.seq > 0 => OperatorEntry \in p.keys

\* The record keeps the operator, but for a command that brings another key under
\* the operator's id.
Recorded(t) ==
    /\ Grows(t)
    /\ t.record # NoRecord
    /\ CheckRecord(policy, t, HeadHash(thoughts))
    /\ policy' = CommitRecord(policy, t.record, t.hash, Len(thoughts))
    /\ OperatorKnown /\ OperatorIn(policy) =>
          OperatorEntry \in t.record.keys \/ OperatorId \in doubtful'

\* The steps of an open handle.
Works ==
    /\ opened /\ opened'
    /\ Moves(registry', saved', doubtful')
    /\ UNCHANGED <<checkpoint, sealed>>
    /\ \/ UNCHANGED <<thoughts, policy, minted, secret, pushed>>
       \/ \E t \in Thoughts : Appended(t) \/ Recorded(t)

LEMMA SubmissionTyped ==
    ASSUME Typed, NEW t \in Submissions
    PROVE  /\ t \in Thoughts /\ t.hash = minted + 1 /\ t.record = NoRecord
           /\ t.version # 0 => t.by \in AllowedKeys
<1>1. NoRecord \in Records
  BY DEF NoRecord, Records, Modes
<1>2. ASSUME NEW by \in AllowedKeys \cup {Nobody}, NEW version \in 0 .. 2, NEW over \in Nat
      PROVE  /\ Thought(by, version, over, NoRecord) \in Thoughts
             /\ Thought(by, version, over, NoRecord).hash = minted + 1
             /\ Thought(by, version, over, NoRecord).record = NoRecord
             /\ Thought(by, version, over, NoRecord).by = by
             /\ Thought(by, version, over, NoRecord).version = version
  BY <1>1 DEF Thought, Thoughts, Typed
<1>3. \A n \in DOMAIN thoughts : thoughts[n].hash \in Nat
  BY ThoughtTyped DEF Typed
<1>4. CASE t = Thought(Nobody, 0, 0, NoRecord)
  BY <1>2, <1>4
<1>5. CASE \E by \in AllowedKeys : t = Thought(by, 1, 0, NoRecord)
  BY <1>2, <1>5
<1>6. CASE \E by \in AllowedKeys, over \in {0} \cup {thoughts[n].hash : n \in DOMAIN thoughts} :
              t = Thought(by, 2, over, NoRecord)
  <2>1. PICK by \in AllowedKeys, over \in {0} \cup {thoughts[n].hash : n \in DOMAIN thoughts} :
              t = Thought(by, 2, over, NoRecord)
    BY <1>6
  <2>2. over \in Nat
    BY <1>3
  <2>3. QED
    BY <1>2, <2>1, <2>2
<1>7. QED
  BY <1>4, <1>5, <1>6 DEF Submissions

LEMMA HeadTyped ==
    ASSUME NEW ts \in Seq(Thoughts)
    PROVE  HeadHash(ts) \in Nat
<1>1. Len(ts) # 0 => ts[Len(ts)].hash \in Nat
  BY ThoughtTyped
<1>2. QED
  BY <1>1 DEF HeadHash, PrevHash

LEMMA PolicyThoughtTyped ==
    ASSUME Typed, NEW mode \in Modes, NEW keys \in SUBSET AllowedKeys
    PROVE  /\ PolicyThought(mode, keys) \in Thoughts
           /\ PolicyThought(mode, keys).hash = minted + 1
           /\ PolicyThought(mode, keys).record.keys = keys
           /\ PolicyThought(mode, keys).record # NoRecord
<1>1. policy.seq \in Nat /\ policy.head \in Nat
  BY DEF Typed, Policies
<1>2. /\ NextRecord(mode, keys) \in Records
      /\ NextRecord(mode, keys).keys = keys
      /\ NextRecord(mode, keys).seq # 0
  BY <1>1 DEF NextRecord, Records
<1>3. NextRecord(mode, keys) # NoRecord
  BY <1>2 DEF NoRecord
<1>4. HeadHash(thoughts) \in Nat /\ minted + 1 \in Nat
  BY HeadTyped DEF Typed
<1> DEFINE r == NextRecord(mode, keys)
           h == HeadHash(thoughts)
<1>5. PolicyThought(mode, keys)
        = [hash |-> minted + 1, by |-> OperatorEntry, version |-> 2, over |-> h, record |-> r]
  BY DEF PolicyThought, Thought
<1> HIDE DEF r, h
<1>6. QED
  BY <1>2, <1>3, <1>4, <1>5, OperatorTyped DEF Thoughts, r, h

LEMMA AppendWorks ==
    ASSUME Typed, NEW t \in Submissions, AppendThought(t)
    PROVE  Works
<1>1. /\ t \in Thoughts /\ t.hash = minted + 1 /\ t.record = NoRecord
      /\ t.version # 0 => t.by \in AllowedKeys
  BY SubmissionTyped
<1>2. Appended(t)
  BY <1>1 DEF AppendThought, Push, Appended, Grows
<1>3. registry' = registry /\ saved' \in {saved, registry} /\ doubtful' = doubtful
  BY DEF AppendThought, Push
<1>4. Moves(registry', saved', doubtful')
  BY <1>3 DEF Moves, Typed
<1>5. QED
  BY <1>1, <1>2, <1>4 DEF Works, AppendThought

LEMMA PersistWorks ==
    ASSUME Typed, NEW r \in Registries, Persist(r)
    PROVE  Works
<1>1. Moves(registry', saved', doubtful')
  BY PersistMoves DEF Typed
<1>2. QED
  BY <1>1 DEF Works, Persist

\* The keys of a command's record.
KeepsOperator(keys, named) ==
    OperatorIn(policy) =>
        \/ OperatorEntry \in keys
        \/ \E e \in named : <<e.agent, e.id>> = OperatorId /\ e.key # OperatorKey

LEMMA CommandRegisters ==
    ASSUME Typed, NEW named \in Named
    PROVE  /\ WithOperator(Upserted(named)) \in Registries
           /\ \A a \in Agents, i \in KeyIds :
                 KeyOf(WithOperator(Upserted(named)), a, i) # KeyOf(registry, a, i) =>
                    KeyOf(registry, a, i) = NoKey
           /\ \A a \in Agents, i \in KeyIds :
                 KeyOf(WithOperator(Upserted(named)), a, i) # KeyOf(Upserted(named), a, i) =>
                    KeyOf(WithOperator(Upserted(named)), a, i) # KeyOf(registry, a, i)
           /\ \A e \in named : KeyOf(registry, e.agent, e.id) = NoKey =>
                 KeyOf(WithOperator(Upserted(named)), e.agent, e.id) = e.key
<1> DEFINE u == Upserted(named)
           r == WithOperator(u)
<1>1. /\ u \in Registries
      /\ \A e \in named : e \in AllowedKeys
      /\ \A e \in named : KeyOf(registry, e.agent, e.id) = NoKey =>
            KeyOf(u, e.agent, e.id) = e.key
      /\ \A a \in Agents, i \in KeyIds :
            \/ KeyOf(u, a, i) = KeyOf(registry, a, i)
            \/ KeyOf(registry, a, i) = NoKey /\ KeyOf(u, a, i) # NoKey
  BY UpsertFacts DEF Typed
<1> HIDE DEF u
<1>2. /\ r \in Registries
      /\ \A a \in Agents, i \in KeyIds :
            \/ KeyOf(r, a, i) = KeyOf(u, a, i)
            \/ /\ a = Operator /\ i = OperatorKeyId /\ KeyOf(u, a, i) = NoKey
               /\ KeyOf(r, a, i) = OperatorKey
  BY <1>1, OperatorFacts
<1> HIDE DEF r
<1>3. \A e \in named : e.agent \in Agents /\ e.id \in KeyIds /\ e.key # NoKey
  BY <1>1, AllowedTyped
<1>4. OperatorKey # NoKey
  BY OperatorTyped
<1>5. QED
  BY <1>1, <1>2, <1>3, <1>4 DEF r, u

LEMMA CommitWorks ==
    ASSUME Typed, NEW mode \in Modes, NEW keys \in SUBSET AllowedKeys, NEW named \in Named,
           CommitPolicy(mode, keys, named), KeepsOperator(keys, named)
    PROVE  Works
<1> DEFINE u == Upserted(named)
           r == WithOperator(u)
           t == PolicyThought(mode, keys)
<1>1. u \in Registries /\ \A e \in named : e \in AllowedKeys
  BY UpsertFacts DEF Typed
<1>2. /\ r \in Registries
      /\ \A a \in Agents, i \in KeyIds :
            KeyOf(r, a, i) # KeyOf(u, a, i) => KeyOf(r, a, i) # KeyOf(registry, a, i)
      /\ \A e \in named : KeyOf(registry, e.agent, e.id) = NoKey =>
            KeyOf(r, e.agent, e.id) = e.key
  BY CommandRegisters
<1>3. /\ t \in Thoughts /\ t.hash = minted + 1
      /\ t.record.keys = keys /\ t.record # NoRecord
  BY PolicyThoughtTyped
<1>4. /\ opened /\ opened' = opened /\ UNCHANGED <<checkpoint, sealed>>
      /\ \A e \in named : UpsertAllowed(registry, e)
      /\ PolicyCommitted(t, r) \/ PolicyFailed(named, r) \/ PolicyRefused(t, r)
  BY DEF CommitPolicy
<1>5. saved \in Registries /\ doubtful \in SUBSET (Agents \X KeyIds)
  BY DEF Typed
<1> HIDE DEF r, t
<1>6. CASE PolicyCommitted(t, r)
  <2>1. /\ registry' = r /\ saved' \in {SavedAfter(r), r}
        /\ doubtful' = doubtful \cup KeysReplaced(r)
    BY <1>6 DEF PolicyCommitted, Push
  <2>2. saved' = r \/ (saved' = saved /\ r = registry)
    BY <2>1 DEF SavedAfter
  <2>3. Moves(r, saved', doubtful \cup KeysReplaced(r))
    BY <1>2, <1>5, <2>2, MovesSaved
  <2>4. ASSUME OperatorKnown, OperatorIn(policy), OperatorEntry \notin keys
        PROVE  OperatorId \in doubtful'
    <3>1. PICK e \in named : <<e.agent, e.id>> = OperatorId /\ e.key # OperatorKey
      BY <2>4 DEF KeepsOperator
    <3>2. e.agent = Operator /\ e.id = OperatorKeyId /\ e.key # NoKey
      BY <1>1, <3>1, AllowedTyped DEF OperatorId
    <3>3. CASE KeyOf(registry, Operator, OperatorKeyId) = NoKey
      <4>1. KeyOf(r, Operator, OperatorKeyId) = e.key
        BY <1>2, <3>2, <3>3
      <4>2. OperatorId \in KeysReplaced(r)
        BY <3>1, <3>2, <3>3, <4>1, OperatorAssumption DEF KeysReplaced, KeysChanged, OperatorId
      <4>3. QED
        BY <2>1, <4>2
    <3>4. CASE KeyOf(registry, Operator, OperatorKeyId) # NoKey
      <4>1. KeyOf(registry, Operator, OperatorKeyId) = e.key
        BY <1>4, <3>2, <3>4 DEF UpsertAllowed
      <4>2. QED
        BY <2>1, <2>4, <3>1, <3>4, <4>1 DEF OperatorKnown
    <3>5. QED
      BY <3>3, <3>4
  <2>5. Grows(t)
    BY <1>3, <1>6 DEF PolicyCommitted, Push, Grows
  <2>6. Recorded(t)
    BY <1>3, <1>6, <2>4, <2>5 DEF Recorded, PolicyCommitted
  <2>7. QED
    BY <1>3, <1>4, <2>1, <2>3, <2>6 DEF Works
<1>7. CASE PolicyFailed(named, r)
  <2> DEFINE row == [u EXCEPT !.disabled = @ \ {Operator}]
  <2>1. row \in Registries /\ row.keys = u.keys
    BY <1>1, RowFacts, OperatorAssumption
  <2>2. /\ \/ registry' = u /\ saved' \in {saved, u}
           \/ registry' = row /\ saved' \in {SavedAfter(u), row}
           \/ registry' = r /\ saved' \in {row, r}
           \/ registry' = r /\ saved' = SavedAfter(u)
           \/ registry' = r /\ saved' = SavedAfter(r)
        /\ doubtful' = doubtful \cup KeysChanged(registry')
        /\ UNCHANGED <<thoughts, policy, minted, secret, pushed>>
    BY <1>7 DEF PolicyFailed
  <2> HIDE DEF row, u
  <2>3. SavedAfter(u) \in {saved, u} /\ SavedAfter(r) \in {saved, r}
    BY DEF SavedAfter
  <2>4. registry' \in Registries /\ saved' \in Registries
    BY <1>1, <1>2, <1>5, <2>1, <2>2, <2>3
  <2>5. \A a \in Agents, i \in KeyIds : KeyOf(row, a, i) = KeyOf(u, a, i)
    BY <2>1 DEF KeyOf
  <2>6. ASSUME NEW a \in Agents, NEW i \in KeyIds, <<a, i>> \notin KeysChanged(registry')
        PROVE  \/ KeyOf(saved', a, i) = KeyOf(registry', a, i)
               \/ KeyOf(saved', a, i) = KeyOf(saved, a, i)
    <3>1. KeyOf(registry', a, i) = KeyOf(registry, a, i)
      BY <2>6, ChangedFacts
    <3>2. registry' = r => KeyOf(r, a, i) = KeyOf(u, a, i)
      BY <3>1, <1>2
    <3>3. QED
      BY <2>2, <2>3, <2>5, <3>2
  <2>7. Moves(registry', saved', doubtful \cup KeysChanged(registry'))
    BY <1>5, <2>4, <2>6, MovesFailed
  <2>8. QED
    BY <1>4, <2>2, <2>7 DEF Works
<1>8. CASE PolicyRefused(t, r)
  <2>1. /\ registry' = r /\ saved' = SavedAfter(r)
        /\ doubtful' = doubtful \cup KeysReplaced(r)
        /\ UNCHANGED <<thoughts, policy, minted, secret, pushed>>
    BY <1>8 DEF PolicyRefused
  <2>2. saved' = r \/ (saved' = saved /\ r = registry)
    BY <2>1 DEF SavedAfter
  <2>3. Moves(r, saved', doubtful \cup KeysReplaced(r))
    BY <1>2, <1>5, <2>1, <2>2, MovesSaved
  <2>4. QED
    BY <1>4, <2>1, <2>3 DEF Works
<1>9. QED
  BY <1>4, <1>6, <1>7, <1>8

\* The three commands: what the record's keys are, and that the operator's entry
\* is among them.
LEMMA EntryFacts ==
    ASSUME NEW keys \in SUBSET AllowedKeys, NEW e \in AllowedKeys
    PROVE  /\ WithEntry(keys, e) \in SUBSET AllowedKeys
           /\ e \in WithEntry(keys, e)
           /\ OperatorEntry \in keys =>
                 \/ OperatorEntry \in WithEntry(keys, e)
                 \/ <<e.agent, e.id>> = OperatorId /\ e.key # OperatorKey
<1>1. WithEntry(keys, e) \in SUBSET AllowedKeys /\ e \in WithEntry(keys, e)
  BY DEF WithEntry, Without
<1>2. ASSUME OperatorEntry \in keys, e.agent = Operator, e.id = OperatorKeyId,
             e.key = OperatorKey
      PROVE  e = OperatorEntry
  BY <1>2 DEF OperatorEntry, AllowedKeys
<1>3. OperatorEntry.agent = Operator /\ OperatorEntry.id = OperatorKeyId
  BY OperatorTyped
<1>4. QED
  BY <1>1, <1>2, <1>3 DEF WithEntry, Without, OperatorId

LEMMA SetModeWorks ==
    ASSUME Typed, NEW mode \in Modes, NEW named \in Named, SetMode(mode, named)
    PROVE  Works
<1> DEFINE o == WithEntry(policy.keys, OperatorEntry)
<1>1. policy.keys \in SUBSET AllowedKeys
  BY DEF Typed, Policies
<1>2. o \in SUBSET AllowedKeys /\ OperatorEntry \in o
  BY <1>1, EntryFacts, OperatorTyped
<1> HIDE DEF o
<1>3. KeysOfMode(named) \in SUBSET AllowedKeys /\ KeepsOperator(KeysOfMode(named), named)
  <2>1. CASE named = {}
    BY <1>2, <2>1 DEF KeysOfMode, KeepsOperator, o
  <2>2. CASE named # {}
    <3>1. PICK e \in AllowedKeys : named = {e}
      BY <2>2 DEF Named
    <3>2. KeysOfMode(named) = WithEntry(o, e)
      BY <3>1 DEF KeysOfMode, o
    <3>3. /\ WithEntry(o, e) \in SUBSET AllowedKeys
          /\ \/ OperatorEntry \in WithEntry(o, e)
             \/ <<e.agent, e.id>> = OperatorId /\ e.key # OperatorKey
      BY <1>2, EntryFacts
    <3>4. QED
      BY <3>1, <3>2, <3>3 DEF KeepsOperator
  <2>3. QED
    BY <2>1, <2>2
<1>4. QED
  BY <1>3, CommitWorks DEF SetMode

LEMMA AllowKeyWorks ==
    ASSUME Typed, NEW e \in AllowedKeys, AllowKey(e)
    PROVE  Works
<1>1. policy.keys \in SUBSET AllowedKeys /\ policy.mode \in Modes
  BY DEF Typed, Policies
<1>2. /\ WithEntry(policy.keys, e) \in SUBSET AllowedKeys
      /\ OperatorEntry \in policy.keys =>
            \/ OperatorEntry \in WithEntry(policy.keys, e)
            \/ <<e.agent, e.id>> = OperatorId /\ e.key # OperatorKey
  BY <1>1, EntryFacts
<1>3. KeepsOperator(WithEntry(policy.keys, e), {e})
  BY <1>2 DEF KeepsOperator, OperatorIn, AllowKey
<1>4. {e} \in Named
  BY DEF Named
<1>5. CommitPolicy(policy.mode, WithEntry(policy.keys, e), {e})
  BY DEF AllowKey
<1>6. QED
  BY <1>1, <1>2, <1>3, <1>4, <1>5, CommitWorks

LEMMA DenyKeyWorks ==
    ASSUME Typed, NEW agent \in Agents, NEW id \in KeyIds, DenyKey(agent, id)
    PROVE  Works
<1>1. policy.keys \in SUBSET AllowedKeys /\ policy.mode \in Modes /\ policy.seq \in Nat
  BY DEF Typed, Policies
<1>2. Without(policy.keys, agent, id) \in SUBSET AllowedKeys
  BY <1>1 DEF Without
<1>3. policy.keys # {}
  BY DEF DenyKey, Without
<1>4. OperatorEntry \in policy.keys => OperatorEntry \in Without(policy.keys, agent, id)
  BY OperatorTyped DEF DenyKey, Without
<1>5. KeepsOperator(Without(policy.keys, agent, id), {})
  BY <1>1, <1>3, <1>4 DEF KeepsOperator, OperatorIn
<1>6. {} \in Named
  BY DEF Named
<1>7. CommitPolicy(policy.mode, Without(policy.keys, agent, id), {})
  BY DEF DenyKey
<1>8. QED
  BY <1>1, <1>2, <1>5, <1>6, <1>7, CommitWorks

\* Every step is one of five.
LEMMA NextWorks ==
    ASSUME Typed, Next
    PROVE  Works \/ Stop \/ PowerFails \/ DeleteCheckpoint \/ Open
<1>1. registry \in Registries
  BY DEF Typed
<1>2. ASSUME NEW e \in AllowedKeys, AddAgentKey(e) \/ AddAgentKeyAsOperator(e) \/ AllowKey(e)
      PROVE  Works
  <2>1. AddKey(registry, e) \in Registries
    BY <1>1, AddKeyFacts
  <2>2. CASE AddAgentKey(e) \/ AddAgentKeyAsOperator(e)
    BY <2>1, <2>2, PersistWorks DEF AddAgentKey, AddAgentKeyAsOperator
  <2>3. CASE AllowKey(e)
    BY <2>3, AllowKeyWorks
  <2>4. QED
    BY <1>2, <2>2, <2>3
<1>3. ASSUME NEW a \in Agents, NEW i \in KeyIds, RevokeAgentKey(a, i) \/ DenyKey(a, i)
      PROVE  Works
  <2>1. [registry EXCEPT !.revoked = @ \cup {<<a, i>>}] \in Registries
    BY <1>1, RevokeFacts
  <2>2. CASE RevokeAgentKey(a, i)
    BY <2>1, <2>2, PersistWorks DEF RevokeAgentKey
  <2>3. CASE DenyKey(a, i)
    BY <2>3, DenyKeyWorks
  <2>4. QED
    BY <1>3, <2>2, <2>3
<1>4. ASSUME NEW a \in Agents, DisableAgent(a) \/ EnableAgent(a)
      PROVE  Works
  <2>1. /\ [registry EXCEPT !.disabled = @ \cup {a}] \in Registries
        /\ [registry EXCEPT !.disabled = @ \ {a}] \in Registries
    BY <1>1, RowFacts
  <2>2. QED
    BY <1>4, <2>1, PersistWorks DEF DisableAgent, EnableAgent
<1>5. QED
  BY <1>2, <1>3, <1>4, AppendWorks, SetModeWorks DEF Next

-----------------------------------------------------------------------------
(* Replaying a longer chain, and a shorter one. *)

LEMMA AppendReplays ==
    ASSUME NEW ts \in Seq(Thoughts), NEW t \in Thoughts
    PROVE  /\ \A n \in 0 .. Len(ts) : Replays(Append(ts, t))[n] = Replays(ts)[n]
           /\ t.record # NoRecord /\ CheckRecord(Replay(ts), t, HeadHash(ts)) =>
                 Replays(Append(ts, t))[Len(ts) + 1]
                    = CommitRecord(Replay(ts), t.record, t.hash, Len(ts))
           /\ ~(t.record # NoRecord /\ CheckRecord(Replay(ts), t, HeadHash(ts))) =>
                 Replays(Append(ts, t))[Len(ts) + 1] = Replay(ts)
           /\ Replay(Append(ts, t)) = Replays(Append(ts, t))[Len(ts) + 1]
<1> DEFINE us == Append(ts, t)
           l == Len(ts)
<1>1. /\ us \in Seq(Thoughts) /\ l \in Nat /\ Len(us) = l + 1 /\ us[l + 1] = t
      /\ \A k \in 1 .. l : us[k] = ts[k]
  OBVIOUS
<1> HIDE DEF us
<1>2. \A n \in 0 .. l : Replays(us)[n] = Replays(ts)[n]
  BY <1>1, ReplaysPrefix
<1>3. Replays(us)[l + 1] = Step(Replays(us)[l], us, l + 1)
  BY <1>1, ReplaysAt
<1>4. PrevHash(us, l + 1) = HeadHash(ts)
  BY <1>1 DEF PrevHash, HeadHash
<1>5. Replays(us)[l] = Replay(ts)
  BY <1>1, <1>2 DEF Replay
<1>6. (l + 1) - 1 = l
  BY <1>1
<1>7. Replay(us) = Replays(us)[l + 1]
  BY <1>1 DEF Replay
<1>8. Replays(us)[l + 1]
        = IF t.record # NoRecord /\ CheckRecord(Replay(ts), t, HeadHash(ts))
          THEN CommitRecord(Replay(ts), t.record, t.hash, l) ELSE Replay(ts)
  BY <1>1, <1>3, <1>4, <1>5, <1>6 DEF Step
<1>9. QED
  BY <1>2, <1>7, <1>8 DEF us

LEMMA PrefixReplays ==
    ASSUME NEW ts \in Seq(Thoughts), NEW m \in 0 .. Len(ts)
    PROVE  /\ SubSeq(ts, 1, m) \in Seq(Thoughts)
           /\ Len(SubSeq(ts, 1, m)) = m
           /\ \A k \in 1 .. m : SubSeq(ts, 1, m)[k] = ts[k]
           /\ \A n \in 0 .. m : Replays(SubSeq(ts, 1, m))[n] = Replays(ts)[n]
<1> DEFINE us == SubSeq(ts, 1, m)
<1>1. /\ us \in Seq(Thoughts) /\ Len(us) = m /\ \A k \in 1 .. m : us[k] = ts[k]
  OBVIOUS
<1> HIDE DEF us
<1>2. \A n \in 0 .. m : Replays(us)[n] = Replays(ts)[n]
  BY <1>1, ReplaysPrefix
<1>3. QED
  BY <1>1, <1>2 DEF us

LEMMA ReplayPlain ==
    ASSUME NEW ts \in Seq(Thoughts)
    PROVE  Plain(Replay(ts), Len(ts)) /\ Replay(ts) \in Policies
<1>1. Len(ts) \in 0 .. Len(ts)
  OBVIOUS
<1>2. QED
  BY <1>1, ReplaysPlain DEF Replay, Plain

-----------------------------------------------------------------------------
(* Which positions are private. *)

LEMMA CardinalityBelow ==
    ASSUME NEW l \in Nat, NEW S \in SUBSET (1 .. l), S # {}
    PROVE  Cardinality(S) \in 1 .. l
<1>1. IsFiniteSet(1 .. l) /\ Cardinality(1 .. l) = l
  BY FS_Interval
<1>2. IsFiniteSet(S) /\ Cardinality(S) <= l
  BY <1>1, FS_Subset
<1>3. Cardinality(S) \in Nat /\ Cardinality(S) # 0
  BY <1>2, FS_CardinalityType, FS_EmptySet
<1>4. QED
  BY <1>2, <1>3

LEMMA StartsTyped ==
    ASSUME NEW segments \in Seq(Segments)
    PROVE  \A k \in DOMAIN segments : segments[k].start \in Nat
<1>1. \A k \in DOMAIN segments : segments[k] \in Segments
  OBVIOUS
<1>2. QED
  BY <1>1 DEF Segments

\* The segments that start at a position or before it.
Before(segments, i) == {k \in DOMAIN segments : segments[k].start <= i}

\* A segment that starts later changes nothing about an earlier position.
LEMMA PushKeepsKind ==
    ASSUME NEW segments \in Seq(Segments), NEW s \in Segments, NEW i \in Nat, i < s.start
    PROVE  LET new == PushSegment(segments, s)
               c == Cardinality(Before(segments, i))
           IN  /\ Before(new, i) = Before(segments, i)
               /\ Before(segments, i) # {} => new[c] = segments[c]
<1> DEFINE new == PushSegment(segments, s)
           l == Len(segments)
           before == Before(segments, i)
<1>1. s.start \in Nat /\ l \in Nat /\ DOMAIN segments = 1 .. l
  BY DEF Segments
<1>2. \A k \in DOMAIN segments : segments[k].start \in Nat
  BY StartsTyped
<1>3. before \in SUBSET (1 .. l) /\ \A k \in 1 .. l : k \in before <=> segments[k].start <= i
  BY <1>1 DEF Before
<1>4. CASE l = 0 \/ segments[l].start < s.start
  <2>1. new = Append(segments, s)
    BY <1>4 DEF PushSegment
  <2>2. /\ DOMAIN new = 1 .. l + 1 /\ new[l + 1] = s
        /\ \A k \in 1 .. l : new[k] = segments[k]
    BY <2>1
  <2> HIDE DEF new, before
  <2>3. Before(new, i) = before
    <3>1. ~(new[l + 1].start <= i)
      BY <1>1, <2>2
    <3>2. ASSUME NEW k
          PROVE  k \in Before(new, i) <=> k \in before
      <4>1. k \in 1 .. l + 1 <=> k \in 1 .. l \/ k = l + 1
        BY <1>1
      <4>2. l + 1 \notin 1 .. l
        BY <1>1
      <4>3. QED
        BY <1>3, <2>2, <3>1, <4>1, <4>2 DEF Before
    <3>3. QED
      BY <3>2
  <2>4. before # {} => Cardinality(before) \in 1 .. l
    BY <1>1, <1>3, CardinalityBelow
  <2>5. QED
    BY <2>2, <2>3, <2>4 DEF new, before
<1>5. CASE ~(l = 0 \/ segments[l].start < s.start) /\ segments[l].start = s.start
  <2>1. new = [segments EXCEPT ![l] = s]
    BY <1>5 DEF PushSegment
  <2>2. l \in DOMAIN segments
    BY <1>1, <1>5
  <2>3. /\ DOMAIN new = 1 .. l /\ new[l] = s
        /\ \A k \in DOMAIN segments : k # l => new[k] = segments[k]
    BY <1>1, <2>1, <2>2
  <2> HIDE DEF new, before
  <2>4. before \in SUBSET (1 .. l - 1) /\ l - 1 \in Nat
    BY <1>1, <1>2, <1>3, <1>5, <2>2
  <2>5. Before(new, i) = before
    BY <1>1, <1>3, <1>5, <2>2, <2>3 DEF Before
  <2>6. before # {} => Cardinality(before) \in 1 .. l - 1
    BY <2>4, CardinalityBelow
  <2>7. QED
    BY <1>1, <2>2, <2>3, <2>5, <2>6 DEF new, before
<1>6. CASE ~(l = 0 \/ segments[l].start < s.start) /\ segments[l].start # s.start
  BY <1>6 DEF PushSegment
<1>7. QED
  BY <1>4, <1>5, <1>6

LEMMA KindLaw ==
    ASSUME NEW p, NEW i
    PROVE  KindAt(p, i)
             = IF p.locked \/ i \in p.records THEN "private"
               ELSE IF Before(p.segments, i) = {} THEN "public"
               ELSE p.segments[Cardinality(Before(p.segments, i))].kind
BY DEF KindAt, Before

LEMMA CommitKeepsKind ==
    ASSUME NEW p, NEW n \in Nat, Plain(p, n), NEW r \in Records, NEW h \in Nat,
           NEW i \in Nat, i < n
    PROVE  KindAt(CommitRecord(p, r, h, n), i) = KindAt(p, i)
<1> DEFINE s == Opens(r, n)
           c == CommitRecord(p, r, h, n)
           b == Before(p.segments, i)
<1>1. p \in Policies /\ p.segments \in Seq(Segments)
  BY DEF Plain, Policies
<1>2. /\ c \in Policies /\ c.quarantined = p.quarantined /\ c.locked = p.locked
      /\ c.records = Holding(p.records, n)
      /\ c.segments = PushSegment(p.segments, s)
  <2>1. n \in Nat /\ h \in Nat /\ r \in Records
    OBVIOUS
  <2>2. QED
    BY <1>1, <2>1, CommitTyped
<1>3. s \in Segments /\ i < s.start
  BY DEF Opens, Segments, SegmentKind
<1> HIDE DEF c, s
<1>4. Before(c.segments, i) = b /\ (b # {} => c.segments[Cardinality(b)] = p.segments[Cardinality(b)])
  BY <1>1, <1>2, <1>3, PushKeepsKind
<1>5. i \in c.records <=> i \in p.records
  BY <1>2 DEF Holding
<1>6. KindAt(c, i) = KindAt(p, i)
  BY <1>2, <1>4, <1>5, KindLaw
<1>7. QED
  BY <1>6 DEF c

LEMMA RecordIsPrivate ==
    ASSUME NEW p \in Policies, NEW n \in Nat, NEW r \in Records, NEW h \in Nat
    PROVE  KindAt(CommitRecord(p, r, h, n), n) = "private"
<1> DEFINE c == CommitRecord(p, r, h, n)
<1>1. /\ c \in Policies /\ c.records = Holding(p.records, n)
      /\ c.segments = PushSegment(p.segments, Opens(r, n))
  BY CommitTyped
<1> HIDE DEF c
<1>2. KindAt(c, n) = "private"
  BY <1>1 DEF Holding, KindAt
<1>3. QED
  BY <1>2 DEF c

\* While the chain is signed or allowlisted the next position is private.
LEMMA NextIsPrivate ==
    ASSUME NEW p, NEW n \in Nat, Plain(p, n), p.mode # "open"
    PROVE  KindAt(p, n) = "private"
<1> DEFINE b == Before(p.segments, n)
           l == Len(p.segments)
<1>1. p.segments \in Seq(Segments) /\ l \in Nat /\ DOMAIN p.segments = 1 .. l
  BY DEF Plain, Policies
<1>2. b = 1 .. l
  BY <1>1 DEF Plain, Sound, Before
<1>3. p.segments # <<>> /\ p.segments[l].kind = "private"
  BY DEF Plain, Sound
<1>4. l # 0
  BY <1>1, <1>3
<1>5. Cardinality(1 .. l) = l /\ 1 \in 1 .. l
  BY SMTT(30), <1>1, <1>4, FS_Interval
<1> HIDE DEF b
<1>6. Cardinality(b) = l /\ b # {}
  BY <1>2, <1>5
<1>7. QED
  BY <1>3, <1>6, KindLaw DEF b

LEMMA KindCleared ==
    ASSUME NEW p \in Policies, NEW i
    PROVE  KindAt(p, i) = "private" \/ KindAt(p, i) = KindAt(Cleared(p), i)
BY ClearedTyped DEF KindAt

-----------------------------------------------------------------------------
(* Opening, and the type invariant. *)

LEMMA FindingsTyped ==
    ASSUME NEW r, NEW start \in Nat
    PROVE  Findings(r, start) \in SUBSET Nat
BY DEF Findings

Start == IF checkpoint.exists THEN checkpoint.count ELSE 0

LEMMA MarkedFacts ==
    ASSUME NEW p \in Policies, Cleared(p) = p, NEW q \in SUBSET Nat
    PROVE  /\ [p EXCEPT !.locked = TRUE] \in Policies
           /\ [p EXCEPT !.locked = TRUE].locked
           /\ [p EXCEPT !.locked = TRUE].quarantined = {}
           /\ Cleared([p EXCEPT !.locked = TRUE]) = p
           /\ [p EXCEPT !.quarantined = q] \in Policies
           /\ [p EXCEPT !.quarantined = q].locked = FALSE
           /\ [p EXCEPT !.quarantined = q].quarantined = q
           /\ Cleared([p EXCEPT !.quarantined = q]) = p
<1>1. p.quarantined = {} /\ p.locked = FALSE
  BY ClearedTyped
<1>2. ASSUME NEW l \in Policies,
             l.mode = p.mode, l.seq = p.seq, l.keys = p.keys, l.head = p.head,
             l.segments = p.segments, l.records = p.records
      PROVE  Cleared(l) = p
  <2>1. /\ Cleared(l) \in Policies
        /\ Cleared(l).mode = p.mode /\ Cleared(l).seq = p.seq
        /\ Cleared(l).keys = p.keys /\ Cleared(l).head = p.head
        /\ Cleared(l).segments = p.segments /\ Cleared(l).records = p.records
        /\ Cleared(l).quarantined = {} /\ Cleared(l).locked = FALSE
    BY <1>2, ClearedTyped
  <2>2. QED
    BY <1>1, <2>1, SamePolicy
<1>3. /\ [p EXCEPT !.locked = TRUE] \in Policies
      /\ [p EXCEPT !.quarantined = q] \in Policies
  BY DEF Policies
<1> DEFINE l == [p EXCEPT !.locked = TRUE]
           m == [p EXCEPT !.quarantined = q]
<1>4. /\ l.mode = p.mode /\ l.seq = p.seq /\ l.keys = p.keys /\ l.head = p.head
      /\ l.segments = p.segments /\ l.records = p.records
      /\ l.locked /\ l.quarantined = {}
  BY <1>1 DEF Policies
<1>5. /\ m.mode = p.mode /\ m.seq = p.seq /\ m.keys = p.keys /\ m.head = p.head
      /\ m.segments = p.segments /\ m.records = p.records
      /\ m.locked = FALSE /\ m.quarantined = q
  BY <1>1 DEF Policies
<1> HIDE DEF l, m
<1>6. Cleared(l) = p /\ Cleared(m) = p
  BY <1>2, <1>3, <1>4, <1>5 DEF l, m
<1>7. QED
  BY <1>3, <1>4, <1>5, <1>6 DEF l, m

LEMMA SealFacts ==
    ASSUME Typed, NEW p \in Policies
    PROVE  /\ SealOf(p) \in Checkpoints
           /\ SealOf(p).count = Len(thoughts) /\ SealOf(p).head = HeadHash(thoughts)
           /\ SealOf(p).seq = p.seq /\ SealOf(p).keys = p.keys
           /\ SealOf(p).quarantined = p.quarantined /\ SealOf(p).exists = TRUE
           /\ [n \in DOMAIN thoughts |-> thoughts[n].hash] \in Seq(Nat)
<1> DEFINE l == Len(thoughts)
           h == HeadHash(thoughts)
<1>1. l \in Nat /\ h \in Nat
  BY HeadTyped DEF Typed
<1>2. SealOf(p) = [count |-> l, head |-> h, seq |-> p.seq, keys |-> p.keys,
                   quarantined |-> p.quarantined, exists |-> TRUE]
  BY DEF SealOf
<1>3. p.seq \in Nat /\ p.keys \in SUBSET AllowedKeys /\ p.quarantined \in SUBSET Nat
  BY DEF Policies
<1>4. [n \in DOMAIN thoughts |-> thoughts[n].hash] \in Seq(Nat)
  <2>1. \A n \in 1 .. Len(thoughts) : thoughts[n].hash \in Nat
    BY ThoughtTyped DEF Typed
  <2>2. DOMAIN thoughts = 1 .. Len(thoughts)
    BY DEF Typed
  <2>3. QED
    BY <1>1, <2>1, <2>2
<1> HIDE DEF l, h
<1>5. /\ SealOf(p) \in Checkpoints
      /\ SealOf(p).count = l /\ SealOf(p).head = h
      /\ SealOf(p).seq = p.seq /\ SealOf(p).keys = p.keys
      /\ SealOf(p).quarantined = p.quarantined /\ SealOf(p).exists = TRUE
  BY <1>1, <1>2, <1>3 DEF Checkpoints
<1>6. QED
  BY <1>4, <1>5 DEF l, h

\* The three verdicts of opening: nothing to verify, a mismatch, a verified chain.
Trusted ==
    /\ ~checkpoint.exists
    /\ policy'.quarantined = {} /\ policy'.locked = FALSE
    /\ UNCHANGED <<checkpoint, sealed>>

Locked ==
    /\ checkpoint.exists /\ ~(PrefixMatches /\ StateMatches)
    /\ policy'.quarantined = {} /\ policy'.locked = TRUE
    /\ UNCHANGED <<checkpoint, sealed>>

Verified ==
    /\ checkpoint.exists => PrefixMatches /\ StateMatches
    /\ policy'.quarantined = checkpoint.quarantined \cup Findings(saved, Start)
    /\ policy'.locked = FALSE
    /\ \/ /\ checkpoint' = SealOf(policy')
          /\ sealed' = [n \in DOMAIN thoughts |-> thoughts[n].hash]
       \/ UNCHANGED <<checkpoint, sealed>>

LEMMA OpenFacts ==
    ASSUME Typed, Open
    PROVE  /\ ~opened /\ opened' = TRUE /\ registry' = saved
           /\ UNCHANGED <<thoughts, saved, minted, secret, pushed, doubtful>>
           /\ policy' \in Policies /\ Cleared(policy') = Replay(thoughts)
           /\ Trusted \/ Locked \/ Verified
<1> DEFINE r == Replay(thoughts)
           q == checkpoint.quarantined \cup Findings(saved, Start)
<1>1. r \in Policies /\ r.quarantined = {} /\ r.locked = FALSE
  BY ReplayPlain DEF Typed, Plain
<1>2. Cleared(r) = r
  <2>1. /\ Cleared(r) \in Policies
        /\ Cleared(r).mode = r.mode /\ Cleared(r).seq = r.seq
        /\ Cleared(r).keys = r.keys /\ Cleared(r).head = r.head
        /\ Cleared(r).segments = r.segments /\ Cleared(r).records = r.records
        /\ Cleared(r).quarantined = {} /\ Cleared(r).locked = FALSE
    BY <1>1, ClearedTyped
  <2> HIDE DEF r
  <2>2. QED
    BY <1>1, <2>1, SamePolicy
<1>3. q \in SUBSET Nat
  <2>1. checkpoint.quarantined \in SUBSET Nat /\ Start \in Nat
    BY DEF Typed, Checkpoints, Start
  <2>2. QED
    BY <2>1, FindingsTyped
<1>4. /\ ~opened /\ opened' = TRUE /\ registry' = saved
      /\ UNCHANGED <<thoughts, saved, minted, secret, pushed, doubtful>>
  BY DEF Open
<1>5. \/ /\ ~checkpoint.exists /\ policy' = r /\ UNCHANGED <<checkpoint, sealed>>
      \/ /\ checkpoint.exists /\ ~(PrefixMatches /\ StateMatches)
         /\ policy' = [r EXCEPT !.locked = TRUE] /\ UNCHANGED <<checkpoint, sealed>>
      \/ /\ checkpoint.exists => PrefixMatches /\ StateMatches
         /\ policy' = [r EXCEPT !.quarantined = q]
         /\ \/ /\ checkpoint' = SealOf([r EXCEPT !.quarantined = q])
               /\ sealed' = [n \in DOMAIN thoughts |-> thoughts[n].hash]
            \/ UNCHANGED <<checkpoint, sealed>>
  BY Zenon DEF Open, Start
<1> HIDE DEF r, q
<1>6. /\ [r EXCEPT !.locked = TRUE] \in Policies
      /\ [r EXCEPT !.locked = TRUE].locked
      /\ [r EXCEPT !.locked = TRUE].quarantined = {}
      /\ Cleared([r EXCEPT !.locked = TRUE]) = r
      /\ [r EXCEPT !.quarantined = q] \in Policies
      /\ [r EXCEPT !.quarantined = q].locked = FALSE
      /\ [r EXCEPT !.quarantined = q].quarantined = q
      /\ Cleared([r EXCEPT !.quarantined = q]) = r
  BY <1>1, <1>2, <1>3, MarkedFacts
<1>7. [r EXCEPT !.locked = TRUE].locked = TRUE
  BY <1>6 DEF Policies
<1>8. policy' \in Policies /\ Cleared(policy') = r
  BY <1>1, <1>2, <1>5, <1>6
<1>9. Trusted \/ Locked \/ Verified
  <2>1. CASE ~checkpoint.exists /\ policy' = r /\ UNCHANGED <<checkpoint, sealed>>
    BY <1>1, <2>1 DEF Trusted
  <2>2. CASE /\ checkpoint.exists /\ ~(PrefixMatches /\ StateMatches)
             /\ policy' = [r EXCEPT !.locked = TRUE] /\ UNCHANGED <<checkpoint, sealed>>
    BY <1>6, <1>7, <2>2 DEF Locked
  <2>3. CASE /\ checkpoint.exists => PrefixMatches /\ StateMatches
             /\ policy' = [r EXCEPT !.quarantined = q]
             /\ \/ /\ checkpoint' = SealOf([r EXCEPT !.quarantined = q])
                   /\ sealed' = [n \in DOMAIN thoughts |-> thoughts[n].hash]
                \/ UNCHANGED <<checkpoint, sealed>>
    BY <1>6, <2>3 DEF Verified, q
  <2>4. QED
    BY <1>5, <2>1, <2>2, <2>3
<1>10. QED
  BY <1>4, <1>8, <1>9 DEF r

LEMMA TypedInitially ==
    ASSUME Init
    PROVE  Typed
<1>1. EmptyRegistry \in Registries
  BY DEF EmptyRegistry, Registries
<1>2. NoCheckpoint \in Checkpoints
  BY DEF NoCheckpoint, Checkpoints
<1>3. NoPolicy \in Policies
  BY PlainInitially DEF Plain
<1>4. QED
  BY <1>1, <1>2, <1>3 DEF Init, Typed

LEMMA TypedKept ==
    ASSUME Typed, [Next]_vars
    PROVE  Typed'
<1>1. CASE Works
  <2>1. /\ registry' \in Registries /\ saved' \in Registries
        /\ doubtful' \in SUBSET (Agents \X KeyIds)
        /\ opened' \in BOOLEAN /\ UNCHANGED <<checkpoint, sealed>>
    BY <1>1 DEF Works, Moves, Typed
  <2>2. CASE UNCHANGED <<thoughts, policy, minted, secret, pushed>>
    BY <2>1, <2>2 DEF Typed
  <2>3. ASSUME NEW t \in Thoughts, Appended(t) \/ Recorded(t)
        PROVE  Typed'
    <3>1. Grows(t)
      BY <2>3 DEF Appended, Recorded
    <3>2. thoughts' \in Seq(Thoughts) /\ minted' = minted + 1 /\ minted' \in Nat
      BY <3>1 DEF Grows, Typed
    <3>3. /\ secret' \in SUBSET (1 .. minted') /\ pushed' \in SUBSET (1 .. minted')
      <4>1. 1 .. minted \subseteq 1 .. minted' /\ minted + 1 \in 1 .. minted'
        BY <3>2 DEF Typed
      <4>2. QED
        BY <3>1, <4>1 DEF Grows, Typed
    <3>4. policy' \in Policies
      <4>1. t.record \in Records /\ t.hash \in Nat /\ Len(thoughts) \in Nat
        BY DEF Thoughts, Typed
      <4>2. CommitRecord(policy, t.record, t.hash, Len(thoughts)) \in Policies
        <5>1. policy \in Policies
          BY DEF Typed
        <5>2. QED
          BY <4>1, <5>1, CommitTyped
      <4>3. QED
        BY <2>3, <4>2 DEF Appended, Recorded, Typed
    <3>5. QED
      BY <2>1, <3>2, <3>3, <3>4 DEF Typed
  <2>4. QED
    BY <1>1, <2>2, <2>3 DEF Works
<1>2. CASE Stop
  <2>1. EmptyRegistry \in Registries /\ NoPolicy \in Policies
    BY PlainInitially DEF Plain, EmptyRegistry, Registries
  <2>2. QED
    BY <1>2, <2>1 DEF Stop, Typed
<1>3. CASE PowerFails
  <2>1. thoughts' \in Seq(Thoughts)
    BY <1>3, PrefixReplays DEF PowerFails, Typed
  <2>2. NoCheckpoint \in Checkpoints /\ <<>> \in Seq(Nat)
    BY DEF NoCheckpoint, Checkpoints
  <2>3. QED
    BY <1>3, <2>1, <2>2 DEF PowerFails, Typed
<1>4. CASE DeleteCheckpoint
  <2>1. NoCheckpoint \in Checkpoints /\ <<>> \in Seq(Nat)
    BY DEF NoCheckpoint, Checkpoints
  <2>2. QED
    BY <1>4, <2>1 DEF DeleteCheckpoint, Typed
<1>5. CASE Open
  <2>1. /\ opened' = TRUE /\ registry' = saved
        /\ UNCHANGED <<thoughts, saved, minted, secret, pushed, doubtful>>
        /\ policy' \in Policies
        /\ Trusted \/ Locked \/ Verified
    BY <1>5, OpenFacts
  <2>2. checkpoint' \in Checkpoints /\ sealed' \in Seq(Nat)
    <3>1. /\ SealOf(policy') \in Checkpoints
          /\ [n \in DOMAIN thoughts |-> thoughts[n].hash] \in Seq(Nat)
      BY <2>1, SealFacts
    <3>2. QED
      BY <2>1, <3>1 DEF Trusted, Locked, Verified, Typed
  <2>3. QED
    BY <2>1, <2>2 DEF Typed
<1>6. CASE UNCHANGED vars
  BY <1>6 DEF Typed, vars
<1>7. QED
  BY <1>1, <1>2, <1>3, <1>4, <1>5, <1>6, NextWorks

-----------------------------------------------------------------------------
(* The policy is what the records say. *)

LEMMA GrownReplay ==
    ASSUME Typed, PolicyIsReplay, opened, NEW t \in Thoughts, Appended(t) \/ Recorded(t)
    PROVE  /\ \A n \in 0 .. Len(thoughts) : Replays(thoughts')[n] = Replays(thoughts)[n]
           /\ Replays(thoughts')[Len(thoughts) + 1] = Replay(thoughts')
           /\ Replay(thoughts') = Cleared(policy')
           /\ Appended(t) => Replay(thoughts') = Replay(thoughts)
           /\ Recorded(t) =>
                 /\ CheckRecord(Replay(thoughts), t, HeadHash(thoughts))
                 /\ Replay(thoughts') = CommitRecord(Replay(thoughts), t.record, t.hash, Len(thoughts))
<1>1. /\ thoughts \in Seq(Thoughts) /\ thoughts' = Append(thoughts, t)
      /\ policy \in Policies /\ Cleared(policy) = Replay(thoughts)
  BY DEF Typed, PolicyIsReplay, Cleared, Appended, Recorded, Grows
<1>2. /\ \A n \in 0 .. Len(thoughts) : Replays(thoughts')[n] = Replays(thoughts)[n]
      /\ t.record # NoRecord /\ CheckRecord(Replay(thoughts), t, HeadHash(thoughts)) =>
            Replays(thoughts')[Len(thoughts) + 1]
               = CommitRecord(Replay(thoughts), t.record, t.hash, Len(thoughts))
      /\ ~(t.record # NoRecord /\ CheckRecord(Replay(thoughts), t, HeadHash(thoughts))) =>
            Replays(thoughts')[Len(thoughts) + 1] = Replay(thoughts)
      /\ Replay(thoughts') = Replays(thoughts')[Len(thoughts) + 1]
  BY <1>1, AppendReplays
<1>3. CASE Appended(t)
  <2>1. t.record = NoRecord /\ policy' = policy
    BY <1>3 DEF Appended
  <2>2. ~Recorded(t)
    BY <2>1 DEF Recorded
  <2>3. QED
    BY <1>1, <1>2, <2>1, <2>2
<1>4. CASE Recorded(t)
  <2>1. /\ t.record # NoRecord
        /\ CheckRecord(policy, t, HeadHash(thoughts))
        /\ policy' = CommitRecord(policy, t.record, t.hash, Len(thoughts))
    BY <1>4 DEF Recorded
  <2>2. CheckRecord(Replay(thoughts), t, HeadHash(thoughts))
    BY <1>1, <2>1, CheckCleared
  <2>3. t.record \in Records /\ t.hash \in Nat /\ Len(thoughts) \in Nat
    BY <1>1 DEF Thoughts
  <2>4. Cleared(policy') = CommitRecord(Replay(thoughts), t.record, t.hash, Len(thoughts))
    BY <1>1, <2>1, <2>3, CommitCleared
  <2>5. ~Appended(t)
    BY <2>1 DEF Appended
  <2>6. QED
    BY <1>2, <2>1, <2>2, <2>4, <2>5
<1>5. QED
  BY <1>3, <1>4

LEMMA ReplayKept ==
    ASSUME Typed, PolicyIsReplay, [Next]_vars
    PROVE  PolicyIsReplay'
<1>1. CASE Works
  <2>1. CASE UNCHANGED <<thoughts, policy, minted, secret, pushed>>
    BY <1>1, <2>1 DEF Works, PolicyIsReplay
  <2>2. ASSUME NEW t \in Thoughts, Appended(t) \/ Recorded(t)
        PROVE  PolicyIsReplay'
    <3>1. Replay(thoughts') = Cleared(policy')
      BY <1>1, <2>2, GrownReplay DEF Works
    <3>2. QED
      BY <3>1 DEF PolicyIsReplay, Cleared
  <2>3. QED
    BY <1>1, <2>1, <2>2 DEF Works
<1>2. CASE Stop \/ PowerFails \/ DeleteCheckpoint
  BY <1>2 DEF Stop, PowerFails, DeleteCheckpoint, PolicyIsReplay
<1>3. CASE Open
  <2>1. Cleared(policy') = Replay(thoughts) /\ thoughts' = thoughts
    BY <1>3, OpenFacts
  <2>2. QED
    BY <2>1 DEF PolicyIsReplay, Cleared
<1>4. CASE UNCHANGED vars
  BY <1>4 DEF PolicyIsReplay, vars
<1>5. QED
  BY <1>1, <1>2, <1>3, <1>4, NextWorks

LEMMA ReplayInitially ==
    ASSUME Init
    PROVE  PolicyIsReplay
<1>1. thoughts = <<>> /\ policy = NoPolicy
  BY DEF Init
<1>2. Replay(<<>>) = NoPolicy
  BY ReplaysAt DEF Replay
<1>3. Cleared(NoPolicy) = NoPolicy
  <2>1. NoPolicy \in Policies
    BY PlainInitially DEF Plain
  <2>2. /\ Cleared(NoPolicy) \in Policies
        /\ Cleared(NoPolicy).mode = NoPolicy.mode /\ Cleared(NoPolicy).seq = NoPolicy.seq
        /\ Cleared(NoPolicy).keys = NoPolicy.keys /\ Cleared(NoPolicy).head = NoPolicy.head
        /\ Cleared(NoPolicy).segments = NoPolicy.segments
        /\ Cleared(NoPolicy).records = NoPolicy.records
        /\ Cleared(NoPolicy).quarantined = {} /\ Cleared(NoPolicy).locked = FALSE
    BY <2>1, ClearedTyped
  <2>3. NoPolicy.quarantined = {} /\ NoPolicy.locked = FALSE
    BY DEF NoPolicy
  <2>4. QED
    BY <2>1, <2>2, <2>3, SamePolicy
<1>4. QED
  BY <1>1, <1>2, <1>3 DEF PolicyIsReplay, Cleared

\* The policy in memory is what replaying the chain's records gives, after any
\* sequence of appends, refused and failed changes, crashes and openings
\* (set_access_policy, open_with_storage).
THEOREM PolicyFollowsRecords ==
    Spec => []PolicyIsReplay
<1>1. Init => Typed /\ PolicyIsReplay
  BY TypedInitially, ReplayInitially
<1>2. Typed /\ PolicyIsReplay /\ [Next]_vars => (Typed /\ PolicyIsReplay)'
  BY TypedKept, ReplayKept
<1>3. QED
  BY <1>1, <1>2, PTL DEF Spec

-----------------------------------------------------------------------------
(* The operator. *)

\* At every length the chain has had, and in both registries.
OperatorKept ==
    /\ \A n \in 0 .. Len(thoughts) :
          OperatorId \in doubtful \/ OperatorIn(Replays(thoughts)[n])
    /\ opened => OperatorKnown
    /\ OperatorId \in doubtful \/ KeyOf(saved, Operator, OperatorKeyId) \in {NoKey, OperatorKey}

LEMMA MovesKnown ==
    ASSUME NEW r, NEW f, NEW d, Moves(r, f, d), OperatorKept, opened
    PROVE  /\ OperatorId \in d \/ KeyOf(r, Operator, OperatorKeyId) \in {NoKey, OperatorKey}
           /\ OperatorId \in d \/ KeyOf(f, Operator, OperatorKeyId) \in {NoKey, OperatorKey}
BY OperatorAssumption DEF Moves, OperatorKept, OperatorKnown, OperatorId

LEMMA OperatorStays ==
    ASSUME Typed, PolicyIsReplay, OperatorKept, [Next]_vars
    PROVE  OperatorKept'
<1>0. thoughts \in Seq(Thoughts) /\ Len(thoughts) \in Nat
  BY DEF Typed
<1>1. CASE Works
  <2>1. opened /\ Moves(registry', saved', doubtful')
    BY <1>1 DEF Works
  <2>2. /\ OperatorKnown'
        /\ OperatorId \in doubtful' \/ KeyOf(saved', Operator, OperatorKeyId) \in {NoKey, OperatorKey}
    BY <2>1, MovesKnown DEF OperatorKnown
  <2>3. doubtful \subseteq doubtful'
    BY <2>1 DEF Moves
  <2>4. \A n \in 0 .. Len(thoughts') :
           OperatorId \in doubtful' \/ OperatorIn(Replays(thoughts')[n])
    <3>1. CASE UNCHANGED <<thoughts, policy, minted, secret, pushed>>
      BY <2>3, <3>1 DEF OperatorKept
    <3>2. ASSUME NEW t \in Thoughts, Appended(t) \/ Recorded(t)
          PROVE  \A n \in 0 .. Len(thoughts') :
                    OperatorId \in doubtful' \/ OperatorIn(Replays(thoughts')[n])
      <4>1. /\ \A n \in 0 .. Len(thoughts) : Replays(thoughts')[n] = Replays(thoughts)[n]
            /\ Replays(thoughts')[Len(thoughts) + 1] = Replay(thoughts')
            /\ Appended(t) => Replay(thoughts') = Replay(thoughts)
            /\ Recorded(t) => Replay(thoughts')
                  = CommitRecord(Replay(thoughts), t.record, t.hash, Len(thoughts))
        BY <2>1, <3>2, GrownReplay
      <4>2. Len(thoughts') = Len(thoughts) + 1
        BY <1>0, <3>2 DEF Appended, Recorded, Grows
      <4>3. OperatorId \in doubtful \/ OperatorIn(Replay(thoughts))
        BY <1>0 DEF OperatorKept, Replay
      <4>4. OperatorId \in doubtful' \/ OperatorIn(Replay(thoughts'))
        <5>1. CASE Appended(t)
          BY <2>3, <4>1, <4>3, <5>1
        <5>2. CASE Recorded(t)
          <6>1. policy \in Policies /\ Cleared(policy) = Replay(thoughts)
            BY <2>1 DEF Typed, PolicyIsReplay, Cleared
          <6>2. OperatorIn(policy) <=> OperatorIn(Replay(thoughts))
            BY <6>1, ClearedTyped DEF OperatorIn
          <6>3. OperatorId \in doubtful' \/ OperatorEntry \in t.record.keys
            BY <2>1, <2>3, <4>3, <5>2, <6>2 DEF Recorded, OperatorKept
          <6>4. t.record \in Records /\ t.hash \in Nat
            BY DEF Thoughts
          <6>5. /\ CommitRecord(Replay(thoughts), t.record, t.hash, Len(thoughts)).keys = t.record.keys
                /\ CommitRecord(Replay(thoughts), t.record, t.hash, Len(thoughts)).seq = t.record.seq
            BY <1>0, <6>4, ReplayPlain, CommitKeys
          <6>6. t.record.seq # 0
            <7>1. t.record.seq = policy.seq + 1 /\ policy.seq \in Nat
              BY <5>2, <6>1 DEF Recorded, CheckRecord, Policies
            <7>2. QED
              BY <7>1
          <6>7. QED
            BY <4>1, <5>2, <6>3, <6>5, <6>6 DEF OperatorIn
        <5>3. QED
          BY <3>2, <5>1, <5>2
      <4>5. ASSUME NEW n \in 0 .. Len(thoughts')
            PROVE  OperatorId \in doubtful' \/ OperatorIn(Replays(thoughts')[n])
        <5>1. n \in 0 .. Len(thoughts) \/ n = Len(thoughts) + 1
          BY <1>0, <4>2
        <5>2. QED
          BY <2>3, <4>1, <4>4, <5>1 DEF OperatorKept
      <4>6. QED
        BY <4>5
    <3>3. QED
      BY <1>1, <3>1, <3>2 DEF Works
  <2>5. QED
    BY <2>2, <2>4 DEF OperatorKept
<1>2. CASE Stop
  BY <1>2 DEF Stop, OperatorKept, OperatorKnown
<1>3. CASE PowerFails
  <2>1. PICK m \in 0 .. Len(thoughts) : thoughts' = SubSeq(thoughts, 1, m)
    BY <1>3 DEF PowerFails
  <2>2. /\ Len(thoughts') = m
        /\ \A n \in 0 .. m : Replays(thoughts')[n] = Replays(thoughts)[n]
    BY <1>0, <2>1, PrefixReplays
  <2>3. 0 .. m \subseteq 0 .. Len(thoughts)
    BY <1>0
  <2>4. doubtful' = doubtful /\ saved' = saved /\ opened' = opened /\ ~opened
    BY <1>3 DEF PowerFails
  <2>5. QED
    BY <2>2, <2>3, <2>4 DEF OperatorKept
<1>4. CASE DeleteCheckpoint \/ UNCHANGED vars
  BY <1>4 DEF DeleteCheckpoint, OperatorKept, OperatorKnown, vars
<1>5. CASE Open
  <2>1. /\ registry' = saved /\ UNCHANGED <<thoughts, saved, doubtful>>
    BY <1>5, OpenFacts
  <2>2. QED
    BY <2>1 DEF OperatorKept, OperatorKnown
<1>6. QED
  BY <1>1, <1>2, <1>3, <1>4, <1>5, NextWorks

LEMMA OperatorInitially ==
    ASSUME Init
    PROVE  OperatorKept
<1>1. thoughts = <<>> /\ registry = EmptyRegistry /\ saved = EmptyRegistry
  BY DEF Init
<1>2. Replays(<<>>)[0] = NoPolicy /\ Len(<<>>) = 0
  BY ReplaysAt
<1>3. OperatorIn(NoPolicy)
  BY DEF OperatorIn, NoPolicy
<1>4. KeyOf(EmptyRegistry, Operator, OperatorKeyId) = NoKey
  BY OperatorAssumption DEF KeyOf, EmptyRegistry
<1>5. QED
  BY <1>1, <1>2, <1>3, <1>4 DEF OperatorKept, OperatorKnown

\* A governed chain's keys hold the operator's entry, in memory and at every length
\* a crash can leave, unless another key was registered under the operator's id
\* (set_mode, allow_key, deny_key of operator.rs).
THEOREM OperatorIsNeverLockedOut ==
    Spec => []OperatorGoverns
<1> DEFINE Inv == Typed /\ PolicyIsReplay /\ OperatorKept
<1>1. Init => Inv
  BY TypedInitially, ReplayInitially, OperatorInitially
<1>2. Inv /\ [Next]_vars => Inv'
  BY TypedKept, ReplayKept, OperatorStays
<1>3. Inv => OperatorGoverns
  <2> SUFFICES ASSUME Inv, opened, policy.seq > 0, OperatorId \notin doubtful
               PROVE  OperatorEntry \in policy.keys
    BY DEF OperatorGoverns, OperatorId
  <2>1. policy \in Policies /\ Cleared(policy) = Replay(thoughts) /\ Len(thoughts) \in Nat
    BY DEF Typed, PolicyIsReplay, Cleared
  <2>2. OperatorIn(Replay(thoughts))
    BY <2>1 DEF OperatorKept, Replay
  <2>3. policy.seq = Replay(thoughts).seq /\ policy.keys = Replay(thoughts).keys
    BY <2>1, ClearedTyped
  <2>4. QED
    BY <2>2, <2>3 DEF OperatorIn
<1>4. QED
  BY <1>1, <1>2, <1>3, PTL DEF Spec

-----------------------------------------------------------------------------
(* What was private stays private. *)

\* At every length the chain has had since.
SecretsInside ==
    /\ secret \cap pushed = {}
    /\ \A n \in DOMAIN thoughts : thoughts[n].hash \in 1 .. minted
    /\ \A m \in 0 .. Len(thoughts) : \A n \in 1 .. m :
          thoughts[n].hash \in secret => KindAt(Replays(thoughts)[m], n - 1) = "private"

LEMMA GrownSecrets ==
    ASSUME Typed, PolicyIsReplay, SecretsInside, opened,
           NEW t \in Thoughts, Appended(t) \/ Recorded(t)
    PROVE  SecretsInside'
<1> DEFINE l == Len(thoughts)
           r == Replay(thoughts)
           q == Replay(thoughts')
<1>1. /\ thoughts \in Seq(Thoughts) /\ l \in Nat /\ DOMAIN thoughts = 1 .. l
      /\ policy \in Policies /\ Cleared(policy) = r
      /\ minted \in Nat /\ secret \in SUBSET (1 .. minted) /\ pushed \in SUBSET (1 .. minted)
  BY DEF Typed, PolicyIsReplay, Cleared
<1>2. /\ thoughts' = Append(thoughts, t) /\ t.hash = minted + 1 /\ minted' = minted + 1
      /\ secret' = IF t.record # NoRecord \/ policy.mode # "open"
                   THEN secret \cup {t.hash} ELSE secret
      /\ pushed' = IF t.record = NoRecord /\ PublicSees(policy, l)
                   THEN pushed \cup {t.hash} ELSE pushed
  BY DEF Appended, Recorded, Grows
<1>3. /\ \A n \in 0 .. l : Replays(thoughts')[n] = Replays(thoughts)[n]
      /\ Replays(thoughts')[l + 1] = q
      /\ Appended(t) => q = r
      /\ Recorded(t) => q = CommitRecord(r, t.record, t.hash, l)
  BY GrownReplay
<1>4. /\ Len(thoughts') = l + 1 /\ DOMAIN thoughts' = 1 .. l + 1
      /\ thoughts'[l + 1] = t /\ \A n \in 1 .. l : thoughts'[n] = thoughts[n]
  BY <1>1, <1>2
<1>5. Plain(r, l) /\ r \in Policies
  BY <1>1, ReplayPlain
<1>6. t.record \in Records /\ t.hash \in Nat
  BY DEF Thoughts
<1>7. policy.mode = r.mode
  BY <1>1, ClearedTyped
<1> HIDE DEF l, r, q
<1>8. policy.mode # "open" => KindAt(r, l) = "private"
  BY <1>1, <1>5, <1>7, NextIsPrivate
<1>9. secret' \cap pushed' = {}
  <2>1. t.hash \notin secret /\ t.hash \notin pushed
    BY <1>1, <1>2
  <2>2. ~(t.hash \in secret' /\ t.hash \in pushed')
    <3>1. SUFFICES ASSUME t.record = NoRecord, policy.mode # "open", PublicSees(policy, l)
                   PROVE  FALSE
      BY <1>2, <2>1
    <3>2. KindAt(policy, l) = "private" \/ KindAt(policy, l) = KindAt(r, l)
      BY <1>1, KindCleared
    <3>3. KindAt(policy, l) = "private"
      BY <1>8, <3>1, <3>2
    <3>4. QED
      BY <3>1, <3>3 DEF PublicSees
  <2>3. secret \cap pushed = {}
    BY DEF SecretsInside
  <2>4. QED
    BY <1>2, <2>1, <2>2, <2>3
<1>10. \A n \in DOMAIN thoughts' : thoughts'[n].hash \in 1 .. minted'
  BY <1>1, <1>2, <1>4 DEF SecretsInside
<1>11. ASSUME NEW m \in 0 .. l + 1, NEW n \in 1 .. m, thoughts'[n].hash \in secret'
       PROVE  KindAt(Replays(thoughts')[m], n - 1) = "private"
  <2>1. CASE n = l + 1
    <3>1. m = l + 1 /\ n - 1 = l /\ thoughts'[n] = t
      BY <1>1, <1>4, <2>1
    <3>2. KindAt(q, l) = "private"
      <4>1. CASE Appended(t)
        <5>1. t.record = NoRecord
          BY <4>1 DEF Appended
        <5>2. policy.mode # "open"
          BY <1>1, <1>2, <1>11, <3>1, <5>1
        <5>3. QED
          BY <1>3, <1>8, <4>1, <5>2
      <4>2. CASE Recorded(t)
        BY <1>1, <1>3, <1>5, <1>6, <4>2, RecordIsPrivate
      <4>3. QED
        BY <4>1, <4>2
    <3>3. QED
      BY <1>3, <3>1, <3>2
  <2>2. CASE n # l + 1
    <3>1. n \in 1 .. l /\ n - 1 \in Nat /\ n - 1 < l
      BY <1>1, <2>2
    <3>2. thoughts[n].hash \in secret
      <4>1. thoughts[n].hash \in 1 .. minted /\ thoughts'[n] = thoughts[n]
        BY <1>1, <1>4, <3>1 DEF SecretsInside
      <4>2. thoughts[n].hash # t.hash
        BY <1>1, <1>2, <4>1
      <4>3. QED
        BY <1>2, <1>11, <4>1, <4>2
    <3>3. CASE m <= l
      <4>1. m \in 0 .. l /\ Replays(thoughts')[m] = Replays(thoughts)[m]
        BY <1>1, <1>3, <3>3
      <4>2. QED
        BY <3>2, <4>1 DEF SecretsInside, l
    <3>4. CASE ~(m <= l)
      <4>1. m = l + 1
        BY <1>1, <3>4
      <4>2. KindAt(r, n - 1) = "private"
        <5>1. l \in 0 .. l /\ r = Replays(thoughts)[l]
          BY <1>1 DEF r, l, Replay
        <5>2. QED
          BY <3>1, <3>2, <5>1 DEF SecretsInside, l
      <4>3. KindAt(q, n - 1) = KindAt(r, n - 1)
        <5>1. CASE Appended(t)
          BY <1>3, <5>1
        <5>2. CASE Recorded(t)
          BY <1>1, <1>3, <1>5, <1>6, <3>1, <5>2, CommitKeepsKind
        <5>3. QED
          BY <5>1, <5>2
      <4>4. QED
        BY <1>3, <4>1, <4>2, <4>3
    <3>5. QED
      BY <3>3, <3>4
  <2>3. QED
    BY <2>1, <2>2
<1>12. QED
  BY <1>4, <1>9, <1>10, <1>11 DEF SecretsInside

LEMMA SecretsKept ==
    ASSUME Typed, PolicyIsReplay, SecretsInside, [Next]_vars
    PROVE  SecretsInside'
<1>1. CASE Works
  <2>1. CASE UNCHANGED <<thoughts, policy, minted, secret, pushed>>
    BY <2>1 DEF SecretsInside
  <2>2. CASE \E t \in Thoughts : Appended(t) \/ Recorded(t)
    BY <1>1, <2>2, GrownSecrets DEF Works
  <2>3. QED
    BY <1>1, <2>1, <2>2 DEF Works
<1>2. CASE PowerFails
  <2>0. thoughts \in Seq(Thoughts) /\ Len(thoughts) \in Nat
    BY DEF Typed
  <2>1. PICK k \in 0 .. Len(thoughts) : thoughts' = SubSeq(thoughts, 1, k)
    BY <1>2 DEF PowerFails
  <2>2. /\ Len(thoughts') = k
        /\ \A n \in 1 .. k : thoughts'[n] = thoughts[n]
        /\ \A n \in 0 .. k : Replays(thoughts')[n] = Replays(thoughts)[n]
        /\ thoughts' \in Seq(Thoughts)
    BY <2>0, <2>1, PrefixReplays
  <2>3. minted' = minted /\ secret' = secret /\ pushed' = pushed
    BY <1>2 DEF PowerFails
  <2>4. \A n \in DOMAIN thoughts' : thoughts'[n].hash \in 1 .. minted'
    BY <2>0, <2>2, <2>3 DEF SecretsInside
  <2>5. ASSUME NEW m \in 0 .. k, NEW n \in 1 .. m, thoughts'[n].hash \in secret'
        PROVE  KindAt(Replays(thoughts')[m], n - 1) = "private"
    <3>1. m \in 0 .. Len(thoughts) /\ n \in 1 .. k
      BY <2>0
    <3>2. thoughts[n].hash \in secret
      BY <2>2, <2>3, <2>5, <3>1
    <3>3. KindAt(Replays(thoughts)[m], n - 1) = "private"
      BY <3>1, <3>2 DEF SecretsInside
    <3>4. QED
      BY <2>2, <3>3
  <2>6. QED
    BY <2>2, <2>3, <2>4, <2>5 DEF SecretsInside
<1>3. CASE Stop \/ DeleteCheckpoint \/ UNCHANGED vars
  BY <1>3 DEF Stop, DeleteCheckpoint, SecretsInside, vars
<1>4. CASE Open
  <2>1. UNCHANGED <<thoughts, minted, secret, pushed>>
    BY <1>4, OpenFacts
  <2>2. QED
    BY <2>1 DEF SecretsInside
<1>5. QED
  BY <1>1, <1>2, <1>3, <1>4, NextWorks

\* No record, and no thought appended to a closed chain, is ever shown to the
\* public or pushed to a webhook (AccessPolicy::kind_at, append_thought_inner).
THEOREM SecretsAreNeverShown ==
    Spec => []SecretsStayHidden
<1> DEFINE Inv == Typed /\ PolicyIsReplay /\ SecretsInside
<1>1. Init => Inv
  <2>1. Init => SecretsInside
    BY DEF Init, SecretsInside
  <2>2. QED
    BY <2>1, TypedInitially, ReplayInitially
<1>2. Inv /\ [Next]_vars => Inv'
  BY TypedKept, ReplayKept, SecretsKept
<1>3. Inv => SecretsStayHidden
  <2> SUFFICES ASSUME Inv PROVE SecretsStayHidden
    OBVIOUS
  <2>1. ASSUME opened, NEW n \in DOMAIN thoughts, thoughts[n].hash \in secret
        PROVE  ~PublicSees(policy, n - 1)
    <3>1. /\ policy \in Policies /\ Cleared(policy) = Replay(thoughts)
          /\ Len(thoughts) \in 0 .. Len(thoughts) /\ n \in 1 .. Len(thoughts)
      BY <2>1 DEF Typed, PolicyIsReplay, Cleared
    <3>2. KindAt(Cleared(policy), n - 1) = "private"
      BY <2>1, <3>1 DEF SecretsInside, Replay
    <3>3. KindAt(policy, n - 1) = "private"
      BY <3>1, <3>2, KindCleared
    <3>4. QED
      BY <3>3 DEF PublicSees
  <2>2. QED
    BY <2>1 DEF SecretsStayHidden, SecretsInside
<1>4. QED
  BY <1>1, <1>2, <1>3, PTL DEF Spec

-----------------------------------------------------------------------------
(* Opening judges as appending did. *)

\* What append asked of a thought, without the registry's part.
Accepts(p, t, head) ==
    IF t.record # NoRecord THEN CheckRecord(p, t, head)
    ELSE /\ t.version < 2 => p.mode = "open"
         /\ t.version = 2 => t.over = head /\ (p.mode = "allowlist" => t.by \in p.keys)

\* Every thought was accepted by the policy of its place.
Accepted ==
    \A n \in DOMAIN thoughts :
        Accepts(Replays(thoughts)[n - 1], thoughts[n], PrevHash(thoughts, n))

SignerId(t) == <<t.by.agent, t.by.id>>

Signed(t) == t.record = NoRecord /\ t.version # 0

\* The key that signed a thought is still the one registered, or its identity is doubtful.
KeysRemembered ==
    \A n \in DOMAIN thoughts : Signed(thoughts[n]) =>
        /\ thoughts[n].by \in AllowedKeys
        /\ SignerId(thoughts[n]) \notin doubtful =>
              /\ KeyOf(saved, thoughts[n].by.agent, thoughts[n].by.id) = thoughts[n].by.key
              /\ opened => KeyOf(registry, thoughts[n].by.agent, thoughts[n].by.id)
                              = thoughts[n].by.key

\* The registry's file has the keys in memory, but for doubtful identities.
FileAgrees ==
    opened => \A a \in Agents, i \in KeyIds :
                  <<a, i>> \notin doubtful => KeyOf(saved, a, i) = KeyOf(registry, a, i)

\* A hash stands for its history: chain and seal agree up to wherever they agree.
SealRooted ==
    /\ \A n \in DOMAIN sealed : sealed[n] \in 1 .. minted
    /\ \A n \in DOMAIN sealed \cap DOMAIN thoughts :
          sealed[n] = thoughts[n].hash => \A k \in 1 .. n : sealed[k] = thoughts[k].hash

\* The checkpoint's count and head are the seal's.
SealBound ==
    IF checkpoint.exists
    THEN /\ checkpoint.count = Len(sealed)
         /\ checkpoint.head = IF sealed = <<>> THEN 0 ELSE sealed[Len(sealed)]
    ELSE sealed = <<>> /\ checkpoint.quarantined = {}

Matches ==
    /\ Len(sealed) <= Len(thoughts)
    /\ \A n \in DOMAIN sealed : sealed[n] = thoughts[n].hash

\* A thought whose signer's key cannot be vouched for.
Excused(n) == thoughts[n].version # 0 /\ SignerId(thoughts[n]) \in doubtful

\* A chain that starts as it was sealed has the policy and the verdicts it had then.
SealTold ==
    checkpoint.exists /\ Matches =>
        /\ StateMatches
        /\ \A i \in checkpoint.quarantined : i + 1 \in 1 .. Len(sealed) /\ Excused(i + 1)

Verdict ==
    opened =>
        /\ policy.locked <=> checkpoint.exists /\ ~Matches
        /\ \A i \in policy.quarantined : i + 1 \in DOMAIN thoughts /\ Excused(i + 1)

Judged == Accepted /\ KeysRemembered /\ FileAgrees /\ SealRooted /\ SealBound /\ SealTold /\ Verdict

\* How the chain moves: it grows by one, loses a tail, or stays.
LEMMA ChainMoves ==
    ASSUME Typed, [Next]_vars
    PROVE  \/ /\ opened /\ Works /\ \E t \in Thoughts : Appended(t) \/ Recorded(t)
           \/ \E m \in 0 .. Len(thoughts) : PowerFails /\ thoughts' = SubSeq(thoughts, 1, m)
           \/ UNCHANGED <<thoughts, minted>>
<1>1. CASE Works
  BY <1>1 DEF Works
<1>2. CASE Open
  BY <1>2, OpenFacts
<1>3. CASE PowerFails
  BY <1>3 DEF PowerFails
<1>4. CASE Stop \/ DeleteCheckpoint \/ UNCHANGED vars
  BY <1>4 DEF Stop, DeleteCheckpoint, vars
<1>5. QED
  BY <1>1, <1>2, <1>3, <1>4, NextWorks

LEMMA GrownChain ==
    ASSUME Typed, NEW t \in Thoughts, Appended(t) \/ Recorded(t)
    PROVE  /\ thoughts' = Append(thoughts, t) /\ t.hash = minted + 1 /\ minted' = minted + 1
           /\ Len(thoughts') = Len(thoughts) + 1 /\ DOMAIN thoughts' = 1 .. Len(thoughts) + 1
           /\ DOMAIN thoughts = 1 .. Len(thoughts) /\ Len(thoughts) \in Nat
           /\ thoughts'[Len(thoughts) + 1] = t
           /\ \A n \in 1 .. Len(thoughts) : thoughts'[n] = thoughts[n]
           /\ \A n \in 1 .. Len(thoughts) : PrevHash(thoughts', n) = PrevHash(thoughts, n)
           /\ PrevHash(thoughts', Len(thoughts) + 1) = HeadHash(thoughts)
<1>1. thoughts \in Seq(Thoughts) /\ thoughts' = Append(thoughts, t)
  BY DEF Typed, Appended, Recorded, Grows
<1>2. /\ Len(thoughts') = Len(thoughts) + 1 /\ DOMAIN thoughts' = 1 .. Len(thoughts) + 1
      /\ DOMAIN thoughts = 1 .. Len(thoughts) /\ Len(thoughts) \in Nat
      /\ thoughts'[Len(thoughts) + 1] = t
      /\ \A n \in 1 .. Len(thoughts) : thoughts'[n] = thoughts[n]
  BY <1>1
<1>3. t.hash = minted + 1 /\ minted' = minted + 1
  BY DEF Appended, Recorded, Grows
<1>4. /\ \A n \in 1 .. Len(thoughts) : PrevHash(thoughts', n) = PrevHash(thoughts, n)
      /\ PrevHash(thoughts', Len(thoughts) + 1) = HeadHash(thoughts)
  BY <1>2 DEF PrevHash, HeadHash
<1>5. QED
  BY <1>1, <1>2, <1>3, <1>4

LEMMA ShortenedChain ==
    ASSUME Typed, NEW m \in 0 .. Len(thoughts), thoughts' = SubSeq(thoughts, 1, m)
    PROVE  /\ Len(thoughts') = m /\ DOMAIN thoughts' = 1 .. m
           /\ 1 .. m \subseteq 1 .. Len(thoughts) /\ DOMAIN thoughts = 1 .. Len(thoughts)
           /\ \A n \in 1 .. m : thoughts'[n] = thoughts[n]
           /\ \A n \in 1 .. m : PrevHash(thoughts', n) = PrevHash(thoughts, n)
           /\ \A n \in 0 .. m : Replays(thoughts')[n] = Replays(thoughts)[n]
<1>1. thoughts \in Seq(Thoughts) /\ Len(thoughts) \in Nat /\ DOMAIN thoughts = 1 .. Len(thoughts)
  BY DEF Typed
<1>2. /\ Len(thoughts') = m /\ thoughts' \in Seq(Thoughts)
      /\ \A n \in 1 .. m : thoughts'[n] = thoughts[n]
      /\ \A n \in 0 .. m : Replays(thoughts')[n] = Replays(thoughts)[n]
  BY <1>1, PrefixReplays
<1>3. DOMAIN thoughts' = 1 .. m /\ 1 .. m \subseteq 1 .. Len(thoughts)
  BY <1>1, <1>2
<1>4. \A n \in 1 .. m : PrevHash(thoughts', n) = PrevHash(thoughts, n)
  BY <1>2 DEF PrevHash
<1>5. QED
  BY <1>1, <1>2, <1>3, <1>4

LEMMA AcceptedKept ==
    ASSUME Typed, PolicyIsReplay, Accepted, [Next]_vars
    PROVE  Accepted'
<1>1. ASSUME opened, Works, NEW t \in Thoughts, Appended(t) \/ Recorded(t)
      PROVE  Accepted'
  <2> DEFINE l == Len(thoughts)
             r == Replay(thoughts)
  <2>1. /\ l \in Nat /\ DOMAIN thoughts' = 1 .. l + 1 /\ DOMAIN thoughts = 1 .. l
        /\ thoughts'[l + 1] = t
        /\ \A n \in 1 .. l : thoughts'[n] = thoughts[n]
        /\ \A n \in 1 .. l : PrevHash(thoughts', n) = PrevHash(thoughts, n)
        /\ PrevHash(thoughts', l + 1) = HeadHash(thoughts)
    BY <1>1, GrownChain
  <2>2. /\ \A n \in 0 .. l : Replays(thoughts')[n] = Replays(thoughts)[n]
        /\ Recorded(t) => CheckRecord(r, t, HeadHash(thoughts))
    BY <1>1, GrownReplay
  <2>3. Accepts(r, t, HeadHash(thoughts))
    <3>1. CASE Recorded(t)
      BY <2>2, <3>1 DEF Accepts, Recorded
    <3>2. CASE Appended(t)
      <4>1. policy.mode = r.mode /\ policy.keys = r.keys
        BY <1>1, ClearedTyped DEF Typed, PolicyIsReplay, Cleared
      <4>2. t.record = NoRecord /\ CheckAppendAccess(t)
        BY <3>2 DEF Appended
      <4>3. t.version \in 0 .. 2
        BY DEF Thoughts
      <4> HIDE DEF r
      <4>4. QED
        BY <4>1, <4>2, <4>3 DEF Accepts, CheckAppendAccess
    <3>3. QED
      BY <1>1, <3>1, <3>2
  <2>4. r = Replays(thoughts)[l] /\ (l + 1) - 1 = l /\ l \in 0 .. l
    BY <2>1 DEF Replay
  <2> HIDE DEF l, r
  <2>5. ASSUME NEW n \in 1 .. l + 1
        PROVE  Accepts(Replays(thoughts')[n - 1], thoughts'[n], PrevHash(thoughts', n))
    <3>1. CASE n = l + 1
      BY <2>1, <2>2, <2>3, <2>4, <3>1
    <3>2. CASE n # l + 1
      <4>1. n \in 1 .. l /\ n - 1 \in 0 .. l
        BY <2>1, <3>2
      <4>2. QED
        BY <2>1, <2>2, <4>1 DEF Accepted
    <3>3. QED
      BY <3>1, <3>2
  <2>6. QED
    BY <2>1, <2>5 DEF Accepted
<1>2. ASSUME NEW m \in 0 .. Len(thoughts), thoughts' = SubSeq(thoughts, 1, m)
      PROVE  Accepted'
  <2>1. /\ DOMAIN thoughts' = 1 .. m /\ 1 .. m \subseteq DOMAIN thoughts
        /\ \A n \in 1 .. m : thoughts'[n] = thoughts[n]
        /\ \A n \in 1 .. m : PrevHash(thoughts', n) = PrevHash(thoughts, n)
        /\ \A n \in 0 .. m : Replays(thoughts')[n] = Replays(thoughts)[n]
    BY <1>2, ShortenedChain
  <2>2. \A n \in 1 .. m : n - 1 \in 0 .. m
    OBVIOUS
  <2>3. QED
    BY <2>1, <2>2 DEF Accepted
<1>3. CASE UNCHANGED <<thoughts, minted>>
  BY <1>3 DEF Accepted
<1>4. QED
  BY <1>1, <1>2, <1>3, ChainMoves

LEMMA KeyStays ==
    ASSUME NEW r, NEW f, NEW d, Moves(r, f, d), opened, FileAgrees,
           NEW e \in AllowedKeys, <<e.agent, e.id>> \notin d,
           <<e.agent, e.id>> \notin doubtful => KeyOf(registry, e.agent, e.id) = e.key
    PROVE  KeyOf(r, e.agent, e.id) = e.key /\ KeyOf(f, e.agent, e.id) = e.key
<1>1. e.agent \in Agents /\ e.id \in KeyIds /\ e.key # NoKey
  BY AllowedTyped
<1>2. <<e.agent, e.id>> \notin doubtful
  BY DEF Moves
<1>3. /\ KeyOf(registry, e.agent, e.id) = e.key
      /\ KeyOf(saved, e.agent, e.id) = KeyOf(registry, e.agent, e.id)
  BY <1>1, <1>2 DEF FileAgrees
<1>4. /\ KeyOf(r, e.agent, e.id) # KeyOf(registry, e.agent, e.id) =>
            KeyOf(registry, e.agent, e.id) = NoKey
      /\ \/ KeyOf(f, e.agent, e.id) = KeyOf(r, e.agent, e.id)
         \/ /\ KeyOf(f, e.agent, e.id) = KeyOf(saved, e.agent, e.id)
            /\ KeyOf(r, e.agent, e.id) = KeyOf(registry, e.agent, e.id)
  BY <1>1 DEF Moves
<1>5. QED
  BY <1>1, <1>3, <1>4

LEMMA KeysKept ==
    ASSUME Typed, KeysRemembered, FileAgrees, [Next]_vars
    PROVE  KeysRemembered' /\ FileAgrees'
<1>1. CASE Works
  <2>1. opened /\ Moves(registry', saved', doubtful')
    BY <1>1 DEF Works
  <2>2. FileAgrees'
    BY <2>1 DEF FileAgrees, Moves
  <2>3. ASSUME NEW e \in AllowedKeys, <<e.agent, e.id>> \notin doubtful',
               <<e.agent, e.id>> \notin doubtful => KeyOf(registry, e.agent, e.id) = e.key
        PROVE  /\ KeyOf(registry', e.agent, e.id) = e.key
               /\ KeyOf(saved', e.agent, e.id) = e.key
    BY <2>1, <2>3, KeyStays
  <2>4. \A n \in DOMAIN thoughts : Signed(thoughts[n]) =>
           /\ thoughts[n].by \in AllowedKeys
           /\ SignerId(thoughts[n]) \notin doubtful' =>
                 /\ KeyOf(registry', thoughts[n].by.agent, thoughts[n].by.id) = thoughts[n].by.key
                 /\ KeyOf(saved', thoughts[n].by.agent, thoughts[n].by.id) = thoughts[n].by.key
    BY <2>1, <2>3 DEF KeysRemembered, SignerId
  <2>5. CASE UNCHANGED <<thoughts, policy, minted, secret, pushed>>
    BY <2>4, <2>5, <2>2 DEF KeysRemembered
  <2>6. ASSUME NEW t \in Thoughts, Appended(t) \/ Recorded(t)
        PROVE  KeysRemembered'
    <3> DEFINE l == Len(thoughts)
    <3>1. /\ l \in Nat /\ DOMAIN thoughts' = 1 .. l + 1 /\ DOMAIN thoughts = 1 .. l
          /\ thoughts'[l + 1] = t
          /\ \A n \in 1 .. l : thoughts'[n] = thoughts[n]
      BY <2>6, GrownChain
    <3>2. Signed(t) =>
             /\ t.by \in AllowedKeys
             /\ SignerId(t) \notin doubtful' =>
                   /\ KeyOf(registry', t.by.agent, t.by.id) = t.by.key
                   /\ KeyOf(saved', t.by.agent, t.by.id) = t.by.key
      <4>1. SUFFICES ASSUME Signed(t)
                     PROVE  /\ t.by \in AllowedKeys
                            /\ SignerId(t) \notin doubtful' =>
                                  /\ KeyOf(registry', t.by.agent, t.by.id) = t.by.key
                                  /\ KeyOf(saved', t.by.agent, t.by.id) = t.by.key
        OBVIOUS
      <4>2. /\ t.by \in AllowedKeys /\ KeyOf(registry, t.by.agent, t.by.id) = t.by.key
        BY <2>6, <4>1 DEF Signed, Appended, Recorded, CheckAppendAccess
      <4>3. QED
        BY <2>3, <4>2 DEF SignerId
    <3> HIDE DEF l
    <3>3. \A n \in 1 .. l + 1 : n \in 1 .. l \/ n = l + 1
      BY <3>1
    <3>4. QED
      BY <2>4, <3>1, <3>2, <3>3 DEF KeysRemembered
  <2>7. QED
    BY <1>1, <2>2, <2>5, <2>6 DEF Works
<1>2. CASE Stop
  BY <1>2 DEF Stop, KeysRemembered, FileAgrees
<1>3. CASE PowerFails
  <2>1. PICK m \in 0 .. Len(thoughts) : thoughts' = SubSeq(thoughts, 1, m)
    BY <1>3 DEF PowerFails
  <2>2. /\ DOMAIN thoughts' = 1 .. m /\ 1 .. m \subseteq DOMAIN thoughts
        /\ \A n \in 1 .. m : thoughts'[n] = thoughts[n]
    BY <2>1, ShortenedChain
  <2>3. UNCHANGED <<registry, saved, opened, doubtful>>
    BY <1>3 DEF PowerFails
  <2>4. QED
    BY <2>2, <2>3 DEF KeysRemembered, FileAgrees
<1>4. CASE DeleteCheckpoint \/ UNCHANGED vars
  BY <1>4 DEF DeleteCheckpoint, vars, KeysRemembered, FileAgrees
<1>5. CASE Open
  <2>1. registry' = saved /\ UNCHANGED <<thoughts, saved, doubtful>>
    BY <1>5, OpenFacts
  <2>2. QED
    BY <2>1 DEF KeysRemembered, FileAgrees
<1>6. QED
  BY <1>1, <1>2, <1>3, <1>4, <1>5, NextWorks

\* How the seal moves: made over the whole chain, dropped, or kept.
LEMMA SealMoves ==
    ASSUME Typed, [Next]_vars
    PROVE  \/ UNCHANGED <<checkpoint, sealed>>
           \/ ~opened' /\ checkpoint' = NoCheckpoint /\ sealed' = <<>>
           \/ /\ Open /\ Verified /\ UNCHANGED <<thoughts, minted>>
              /\ checkpoint' = SealOf(policy')
              /\ sealed' = [n \in DOMAIN thoughts |-> thoughts[n].hash]
<1>1. CASE Works \/ Stop \/ PowerFails \/ DeleteCheckpoint
  BY <1>1 DEF Works, Stop, PowerFails, DeleteCheckpoint
<1>2. CASE Open
  BY <1>2, OpenFacts DEF Trusted, Locked, Verified
<1>3. CASE UNCHANGED vars
  BY <1>3 DEF vars
<1>4. QED
  BY <1>1, <1>2, <1>3, NextWorks

LEMMA SealedDomain ==
    ASSUME Typed
    PROVE  /\ DOMAIN sealed = 1 .. Len(sealed) /\ Len(sealed) \in Nat
           /\ DOMAIN thoughts = 1 .. Len(thoughts) /\ Len(thoughts) \in Nat
BY DEF Typed

LEMMA SealRootedKept ==
    ASSUME Typed, SecretsInside, SealRooted, [Next]_vars
    PROVE  SealRooted'
<1>0. minted \in Nat /\ \A n \in DOMAIN thoughts : thoughts[n].hash \in 1 .. minted
  BY DEF Typed, SecretsInside
<1>1. CASE UNCHANGED <<checkpoint, sealed>>
  <2>1. ASSUME NEW t \in Thoughts, Appended(t) \/ Recorded(t)
        PROVE  SealRooted'
    <3> DEFINE l == Len(thoughts)
    <3>1. /\ l \in Nat /\ DOMAIN thoughts' = 1 .. l + 1 /\ DOMAIN thoughts = 1 .. l
          /\ thoughts'[l + 1] = t /\ t.hash = minted + 1 /\ minted' = minted + 1
          /\ \A n \in 1 .. l : thoughts'[n] = thoughts[n]
      BY <2>1, GrownChain
    <3> HIDE DEF l
    <3>2. \A n \in DOMAIN sealed : sealed[n] \in 1 .. minted /\ sealed[n] \in 1 .. minted'
      BY <1>0, <3>1 DEF SealRooted
    <3>3. ASSUME NEW n \in DOMAIN sealed \cap (1 .. l + 1), sealed[n] = thoughts'[n].hash
          PROVE  \A k \in 1 .. n : sealed[k] = thoughts'[k].hash
      <4>1. n # l + 1
        <5>1. sealed[n] \in 1 .. minted /\ minted + 1 \notin 1 .. minted
          BY <1>0, <3>2
        <5>2. QED
          BY <3>1, <3>3, <5>1
      <4>2. n \in 1 .. l /\ 1 .. n \subseteq 1 .. l
        BY <3>1, <4>1
      <4>3. n \in DOMAIN sealed \cap DOMAIN thoughts /\ sealed[n] = thoughts[n].hash
        BY <3>1, <3>3, <4>2
      <4>4. \A k \in 1 .. n : sealed[k] = thoughts[k].hash
        BY <4>3 DEF SealRooted
      <4>5. QED
        BY <3>1, <4>2, <4>4
    <3>4. QED
      BY <1>1, <3>1, <3>2, <3>3 DEF SealRooted
  <2>2. ASSUME PowerFails, NEW m \in 0 .. Len(thoughts), thoughts' = SubSeq(thoughts, 1, m)
        PROVE  SealRooted'
    <3>1. /\ DOMAIN thoughts' = 1 .. m /\ 1 .. m \subseteq DOMAIN thoughts
          /\ \A n \in 1 .. m : thoughts'[n] = thoughts[n]
      BY <2>2, ShortenedChain
    <3>2. minted' = minted
      BY <2>2 DEF PowerFails
    <3>3. \A n \in 1 .. m : 1 .. n \subseteq 1 .. m
      OBVIOUS
    <3>4. ASSUME NEW n \in DOMAIN sealed \cap (1 .. m), sealed[n] = thoughts'[n].hash
          PROVE  \A k \in 1 .. n : sealed[k] = thoughts'[k].hash
      <4>1. n \in DOMAIN sealed \cap DOMAIN thoughts /\ sealed[n] = thoughts[n].hash
        BY <3>1, <3>4
      <4>2. \A k \in 1 .. n : sealed[k] = thoughts[k].hash
        BY <4>1 DEF SealRooted
      <4>3. QED
        BY <3>1, <3>3, <4>2
    <3>5. QED
      BY <1>1, <3>1, <3>2, <3>4 DEF SealRooted
  <2>3. CASE UNCHANGED <<thoughts, minted>>
    BY <1>1, <2>3 DEF SealRooted
  <2>4. QED
    BY <2>1, <2>2, <2>3, ChainMoves
<1>2. CASE sealed' = <<>>
  BY <1>2 DEF SealRooted
<1>3. CASE /\ UNCHANGED <<thoughts, minted>>
           /\ sealed' = [n \in DOMAIN thoughts |-> thoughts[n].hash]
  <2>1. DOMAIN sealed' = DOMAIN thoughts /\ \A n \in DOMAIN thoughts : sealed'[n] = thoughts[n].hash
    BY <1>3
  <2>2. \A n \in DOMAIN thoughts : 1 .. n \subseteq DOMAIN thoughts
    BY SealedDomain
  <2>3. QED
    BY <1>0, <1>3, <2>1, <2>2 DEF SealRooted
<1>4. QED
  BY <1>1, <1>2, <1>3, SealMoves

LEMMA SealBoundKept ==
    ASSUME Typed, SealBound, [Next]_vars
    PROVE  SealBound'
<1>1. CASE UNCHANGED <<checkpoint, sealed>>
  BY <1>1 DEF SealBound
<1>2. CASE checkpoint' = NoCheckpoint /\ sealed' = <<>>
  BY <1>2 DEF SealBound, NoCheckpoint
<1>3. CASE /\ Open /\ checkpoint' = SealOf(policy')
           /\ sealed' = [n \in DOMAIN thoughts |-> thoughts[n].hash]
  <2>1. policy' \in Policies
    BY <1>3, OpenFacts
  <2>2. /\ checkpoint'.exists = TRUE /\ checkpoint'.count = Len(thoughts)
        /\ checkpoint'.head = HeadHash(thoughts)
        /\ sealed' \in Seq(Nat)
    BY <1>3, <2>1, SealFacts
  <2>3. /\ DOMAIN sealed' = 1 .. Len(sealed') /\ Len(sealed') \in Nat
        /\ DOMAIN sealed' = 1 .. Len(thoughts) /\ Len(thoughts) \in Nat
        /\ \A n \in 1 .. Len(thoughts) : sealed'[n] = thoughts[n].hash
    BY <1>3, <2>2, SealedDomain
  <2>4. Len(sealed') = Len(thoughts)
    BY <2>3
  <2>5. HeadHash(thoughts) = IF sealed' = <<>> THEN 0 ELSE sealed'[Len(sealed')]
    <3>1. CASE Len(thoughts) = 0
      BY <2>2, <2>4, <3>1 DEF HeadHash, PrevHash
    <3>2. CASE Len(thoughts) # 0
      <4>1. Len(thoughts) \in 1 .. Len(thoughts) /\ sealed' # <<>>
        BY <2>3, <2>4, <3>2
      <4>2. HeadHash(thoughts) = thoughts[Len(thoughts)].hash
        BY <2>3, <3>2 DEF HeadHash, PrevHash
      <4>3. QED
        BY <2>3, <2>4, <4>1, <4>2
    <3>3. QED
      BY <3>1, <3>2
  <2>6. QED
    BY <2>2, <2>4, <2>5 DEF SealBound
<1>4. QED
  BY <1>1, <1>2, <1>3, SealMoves

LEMMA MatchesMeans ==
    ASSUME Typed, SealRooted, SealBound, checkpoint.exists
    PROVE  PrefixMatches <=> Matches
<1> DEFINE c == checkpoint.count
<1>1. /\ c = Len(sealed) /\ c \in Nat /\ DOMAIN sealed = 1 .. c
      /\ checkpoint.head = IF sealed = <<>> THEN 0 ELSE sealed[c]
      /\ Len(thoughts) \in Nat /\ DOMAIN thoughts = 1 .. Len(thoughts)
  BY SealedDomain DEF SealBound
<1>2. sealed = <<>> <=> c = 0
  BY <1>1 DEF Typed
<1>3. PrevHash(thoughts, c + 1) = IF c = 0 THEN 0 ELSE thoughts[c].hash
  BY <1>1 DEF PrevHash
<1>4. PrefixMatches <=> c <= Len(thoughts) /\ PrevHash(thoughts, c + 1) = checkpoint.head
  BY DEF PrefixMatches
<1> HIDE DEF c
<1>5. CASE c = 0
  BY <1>1, <1>2, <1>3, <1>4, <1>5 DEF Matches
<1>6. CASE c # 0
  <2>1. c \in DOMAIN sealed /\ checkpoint.head = sealed[c]
    BY <1>1, <1>2, <1>6
  <2>2. ASSUME Matches PROVE PrefixMatches
    BY <1>1, <1>3, <1>4, <1>6, <2>1, <2>2 DEF Matches
  <2>3. ASSUME PrefixMatches PROVE Matches
    <3>1. c \in DOMAIN sealed \cap DOMAIN thoughts /\ sealed[c] = thoughts[c].hash
      BY <1>1, <1>3, <1>4, <1>6, <2>1, <2>3
    <3>2. \A k \in 1 .. c : sealed[k] = thoughts[k].hash
      BY <3>1 DEF SealRooted
    <3>3. QED
      BY <1>1, <1>4, <2>3, <3>2 DEF Matches
  <2>4. QED
    BY <2>2, <2>3
<1>7. QED
  BY <1>5, <1>6

LEMMA MatchesGrown ==
    ASSUME Typed, SealRooted, sealed' = sealed, NEW t \in Thoughts, Appended(t) \/ Recorded(t)
    PROVE  Matches' <=> Matches
<1> DEFINE l == Len(thoughts)
<1>1. /\ l \in Nat /\ DOMAIN thoughts' = 1 .. l + 1 /\ DOMAIN thoughts = 1 .. l
      /\ Len(thoughts') = l + 1
      /\ thoughts'[l + 1] = t /\ t.hash = minted + 1
      /\ \A n \in 1 .. l : thoughts'[n] = thoughts[n]
  BY GrownChain
<1>2. DOMAIN sealed = 1 .. Len(sealed) /\ Len(sealed) \in Nat
  BY SealedDomain
<1>3. Matches' <=> Len(sealed) <= l + 1 /\ \A n \in DOMAIN sealed : sealed[n] = thoughts'[n].hash
  BY <1>1 DEF Matches
<1>4. ASSUME Matches' PROVE Len(sealed) <= l
  <2>1. ASSUME Len(sealed) = l + 1 PROVE FALSE
    <3>1. l + 1 \in DOMAIN sealed
      BY <1>1, <1>2, <2>1
    <3>2. sealed[l + 1] = minted + 1
      BY <1>1, <1>3, <1>4, <3>1
    <3>3. sealed[l + 1] \in 1 .. minted /\ minted \in Nat
      BY <3>1 DEF SealRooted, Typed
    <3>4. QED
      BY <3>2, <3>3
  <2>2. Len(sealed) <= l + 1
    BY <1>3, <1>4
  <2>3. l \in Nat /\ Len(sealed) \in Nat /\ Len(sealed) # l + 1
    BY <1>1, <1>2, <2>1
  <2> HIDE DEF l
  <2>4. QED
    BY <2>2, <2>3
<1>5. Len(sealed) <= l => \A n \in DOMAIN sealed : thoughts'[n] = thoughts[n]
  BY <1>1, <1>2
<1> HIDE DEF l
<1>6. Len(sealed) <= l => Len(sealed) <= l + 1
  BY <1>1, <1>2
<1>7. Matches <=> Len(sealed) <= l /\ \A n \in DOMAIN sealed : sealed[n] = thoughts[n].hash
  BY DEF Matches, l
<1>8. QED
  BY <1>3, <1>4, <1>5, <1>6, <1>7

LEMMA MatchesShortened ==
    ASSUME Typed, sealed' = sealed, NEW m \in 0 .. Len(thoughts),
           thoughts' = SubSeq(thoughts, 1, m), Matches'
    PROVE  Matches /\ Len(sealed) <= m
<1>1. /\ Len(thoughts') = m /\ \A n \in 1 .. m : thoughts'[n] = thoughts[n]
  BY ShortenedChain
<1>2. /\ DOMAIN sealed = 1 .. Len(sealed) /\ Len(sealed) \in Nat /\ Len(thoughts) \in Nat
  BY SealedDomain
<1>3. Len(sealed) <= m /\ \A n \in DOMAIN sealed : sealed[n] = thoughts'[n].hash
  BY <1>1 DEF Matches
<1>4. \A n \in DOMAIN sealed : thoughts'[n] = thoughts[n]
  BY <1>1, <1>2, <1>3
<1>5. QED
  BY <1>2, <1>3, <1>4 DEF Matches

LEMMA DoubtsGrow ==
    ASSUME Typed, [Next]_vars
    PROVE  doubtful \subseteq doubtful'
<1>1. CASE Works
  BY <1>1 DEF Works, Moves
<1>2. CASE Open
  BY <1>2, OpenFacts
<1>3. CASE Stop \/ PowerFails \/ DeleteCheckpoint \/ UNCHANGED vars
  BY <1>3 DEF Stop, PowerFails, DeleteCheckpoint, vars
<1>4. QED
  BY <1>1, <1>2, <1>3, NextWorks

\* What opening cannot verify.
LEMMA FindingsExcused ==
    ASSUME Typed, Accepted, KeysRemembered, NEW start \in Nat, NEW i \in Findings(saved, start)
    PROVE  i + 1 \in 1 .. Len(thoughts) /\ Excused(i + 1)
<1>1. PICK n \in start + 1 .. Len(thoughts) :
        /\ i = n - 1
        /\ LET t == thoughts[n]
               p == Replays(thoughts)[n - 1]
               key == KeyOf(saved, t.by.agent, t.by.id)
           IN  IF t.record # NoRecord THEN ~CheckRecord(p, t, PrevHash(thoughts, n))
               ELSE IF t.version = 0 THEN p.mode # "open"
               ELSE \/ key = NoKey
                    \/ p.mode # "open" /\ t.version # 2
                    \/ t.version = 2 /\ (key # t.by.key \/ t.over # PrevHash(thoughts, n))
                    \/ t.version = 2 /\ p.mode = "allowlist" /\ t.by \notin p.keys
  BY DEF Findings
<1> DEFINE t == thoughts[n]
           p == Replays(thoughts)[n - 1]
<1>2. n \in 1 .. Len(thoughts) /\ n \in DOMAIN thoughts /\ i + 1 = n
  BY <1>1, SealedDomain
<1>3. Accepts(p, t, PrevHash(thoughts, n)) /\ t.version \in 0 .. 2
  BY <1>2, ThoughtTyped DEF Accepted, Typed
<1>4. Signed(t) => t.by \in AllowedKeys /\ (SignerId(t) \notin doubtful =>
                                              KeyOf(saved, t.by.agent, t.by.id) = t.by.key)
  BY <1>2 DEF KeysRemembered
<1> HIDE DEF t, p
<1>5. IF t.record # NoRecord THEN ~CheckRecord(p, t, PrevHash(thoughts, n))
      ELSE IF t.version = 0 THEN p.mode # "open"
      ELSE \/ KeyOf(saved, t.by.agent, t.by.id) = NoKey
           \/ p.mode # "open" /\ t.version # 2
           \/ t.version = 2 /\ (\/ KeyOf(saved, t.by.agent, t.by.id) # t.by.key
                                \/ t.over # PrevHash(thoughts, n))
           \/ t.version = 2 /\ p.mode = "allowlist" /\ t.by \notin p.keys
  BY <1>1 DEF t, p
<1>6. Signed(t)
  BY <1>3, <1>5 DEF Accepts, Signed
<1>7. t.by.key # NoKey
  BY <1>4, <1>6, AllowedTyped
<1>8. SignerId(t) \in doubtful
  BY <1>3, <1>4, <1>5, <1>6, <1>7 DEF Accepts, Signed
<1>9. QED
  BY <1>2, <1>6, <1>8 DEF Excused, Signed, t

LEMMA OpenExcuses ==
    ASSUME Typed, Judged, Verified
    PROVE  /\ checkpoint.exists => Matches
           /\ \A i \in policy'.quarantined : i + 1 \in 1 .. Len(thoughts) /\ Excused(i + 1)
<1>1. checkpoint.exists => Matches
  BY MatchesMeans DEF Verified, Judged
<1>2. Start \in Nat
  BY DEF Start, Typed, Checkpoints
<1>3. ASSUME NEW i \in checkpoint.quarantined
      PROVE  i + 1 \in 1 .. Len(thoughts) /\ Excused(i + 1)
  <2>1. checkpoint.exists
    BY <1>3 DEF Judged, SealBound
  <2>2. i + 1 \in 1 .. Len(sealed) /\ Excused(i + 1) /\ Len(sealed) <= Len(thoughts)
    BY <1>1, <2>1 DEF Judged, SealTold, Matches
  <2>3. QED
    BY <2>2, SealedDomain
<1>4. ASSUME NEW i \in Findings(saved, Start)
      PROVE  i + 1 \in 1 .. Len(thoughts) /\ Excused(i + 1)
  BY <1>2, FindingsExcused DEF Judged
<1>5. QED
  BY <1>1, <1>3, <1>4 DEF Verified

LEMMA SealToldKept ==
    ASSUME Typed, PolicyIsReplay, Judged, [Next]_vars
    PROVE  SealTold'
<1>0. /\ DOMAIN sealed = 1 .. Len(sealed) /\ Len(sealed) \in Nat
      /\ DOMAIN thoughts = 1 .. Len(thoughts) /\ Len(thoughts) \in Nat
      /\ doubtful \subseteq doubtful'
  BY SealedDomain, DoubtsGrow
<1>1. ASSUME UNCHANGED <<checkpoint, sealed>>, checkpoint.exists, Matches,
             \A n \in 1 .. Len(sealed) : thoughts'[n] = thoughts[n],
             Replays(thoughts')[Len(sealed)] = Replays(thoughts)[Len(sealed)]
      PROVE  SealTold'
  <2>1. /\ StateMatches /\ checkpoint.count = Len(sealed)
        /\ \A i \in checkpoint.quarantined : i + 1 \in 1 .. Len(sealed) /\ Excused(i + 1)
    BY <1>1 DEF Judged, SealTold, SealBound
  <2>2. StateMatches'
    BY <1>1, <2>1 DEF StateMatches
  <2>3. \A i \in checkpoint.quarantined : Excused(i + 1)'
    BY <1>0, <1>1, <2>1 DEF Excused
  <2>4. QED
    BY <1>1, <2>1, <2>2, <2>3 DEF SealTold
<1>2. CASE UNCHANGED <<checkpoint, sealed>>
  <2>1. SUFFICES ASSUME checkpoint.exists, Matches' PROVE SealTold'
    BY <1>2 DEF SealTold
  <2>2. ASSUME opened, NEW t \in Thoughts, Appended(t) \/ Recorded(t)
        PROVE  SealTold'
    <3>1. Matches
      BY <1>2, <2>1, <2>2, MatchesGrown DEF Judged
    <3>2. Len(sealed) \in 0 .. Len(thoughts) /\ 1 .. Len(sealed) \subseteq 1 .. Len(thoughts)
      BY <1>0, <3>1 DEF Matches
    <3>3. \A n \in 1 .. Len(thoughts) : thoughts'[n] = thoughts[n]
      BY <2>2, GrownChain
    <3>4. \A n \in 0 .. Len(thoughts) : Replays(thoughts')[n] = Replays(thoughts)[n]
      BY <2>2, GrownReplay
    <3>5. QED
      BY <1>1, <1>2, <2>1, <3>1, <3>2, <3>3, <3>4
  <2>3. ASSUME NEW m \in 0 .. Len(thoughts), thoughts' = SubSeq(thoughts, 1, m)
        PROVE  SealTold'
    <3>1. Matches /\ Len(sealed) <= m
      BY <1>2, <2>1, <2>3, MatchesShortened
    <3>2. Len(sealed) \in 0 .. m /\ 1 .. Len(sealed) \subseteq 1 .. m
      BY <1>0, <3>1
    <3>3. /\ \A n \in 1 .. m : thoughts'[n] = thoughts[n]
          /\ \A n \in 0 .. m : Replays(thoughts')[n] = Replays(thoughts)[n]
      BY <2>3, ShortenedChain
    <3>4. QED
      BY <1>1, <1>2, <2>1, <3>1, <3>2, <3>3
  <2>4. CASE UNCHANGED <<thoughts, minted>>
    <3>1. Matches
      BY <1>2, <2>1, <2>4 DEF Matches
    <3>2. QED
      BY <1>1, <1>2, <2>1, <2>4, <3>1
  <2>5. QED
    BY <2>2, <2>3, <2>4, ChainMoves
<1>3. CASE checkpoint' = NoCheckpoint
  BY <1>3 DEF SealTold, NoCheckpoint
<1>4. CASE /\ Open /\ Verified /\ UNCHANGED <<thoughts, minted>>
           /\ checkpoint' = SealOf(policy')
           /\ sealed' = [n \in DOMAIN thoughts |-> thoughts[n].hash]
  <2>1. policy' \in Policies /\ Cleared(policy') = Replay(thoughts)
    BY <1>4, OpenFacts
  <2>2. /\ checkpoint'.count = Len(thoughts) /\ checkpoint'.quarantined = policy'.quarantined
        /\ checkpoint'.seq = policy'.seq /\ checkpoint'.keys = policy'.keys
        /\ sealed' \in Seq(Nat)
    BY <1>4, <2>1, SealFacts
  <2>3. Len(sealed') = Len(thoughts)
    <3>1. DOMAIN sealed' = 1 .. Len(sealed') /\ Len(sealed') \in Nat
      BY <2>2
    <3>2. DOMAIN sealed' = 1 .. Len(thoughts)
      BY <1>0, <1>4
    <3>3. Len(thoughts) \in Nat /\ 1 .. Len(sealed') = 1 .. Len(thoughts)
      BY <1>0, <3>1, <3>2
    <3>4. QED
      BY <3>1, <3>3
  <2>4. StateMatches'
    <3>1. Replays(thoughts')[Len(thoughts)] = Cleared(policy')
      BY <1>4, <2>1 DEF Replay
    <3>2. Cleared(policy').seq = policy'.seq /\ Cleared(policy').keys = policy'.keys
      BY <2>1, ClearedTyped
    <3>3. QED
      BY <2>2, <3>1, <3>2 DEF StateMatches
  <2>5. \A i \in policy'.quarantined : i + 1 \in 1 .. Len(thoughts) /\ Excused(i + 1)
    BY <1>4, OpenExcuses
  <2>6. \A i \in policy'.quarantined : Excused(i + 1)'
    BY <1>0, <1>4, <2>5 DEF Excused
  <2>7. QED
    BY <2>2, <2>3, <2>4, <2>5, <2>6 DEF SealTold
<1>5. QED
  BY <1>2, <1>3, <1>4, SealMoves

LEMMA VerdictKept ==
    ASSUME Typed, PolicyIsReplay, Judged, [Next]_vars
    PROVE  Verdict'
<1>0. /\ DOMAIN thoughts = 1 .. Len(thoughts) /\ Len(thoughts) \in Nat
      /\ doubtful \subseteq doubtful'
  BY SealedDomain, DoubtsGrow
<1>1. CASE Works
  <2>1. /\ opened /\ checkpoint' = checkpoint /\ sealed' = sealed
        /\ policy.locked <=> checkpoint.exists /\ ~Matches
        /\ \A i \in policy.quarantined : i + 1 \in DOMAIN thoughts /\ Excused(i + 1)
    BY <1>1 DEF Works, Judged, Verdict
  <2>2. CASE UNCHANGED <<thoughts, policy, minted, secret, pushed>>
    BY <1>0, <2>1, <2>2 DEF Verdict, Matches, Excused
  <2>3. ASSUME NEW t \in Thoughts, Appended(t) \/ Recorded(t)
        PROVE  Verdict'
    <3>1. Matches' <=> Matches
      BY <2>1, <2>3, MatchesGrown DEF Judged
    <3>2. /\ DOMAIN thoughts' = 1 .. Len(thoughts) + 1
          /\ \A n \in 1 .. Len(thoughts) : thoughts'[n] = thoughts[n]
      BY <2>3, GrownChain
    <3>3. policy'.locked = policy.locked /\ policy'.quarantined = policy.quarantined
      <4>1. CASE Appended(t)
        BY <4>1 DEF Appended
      <4>2. CASE Recorded(t)
        <5>1. /\ policy' = CommitRecord(policy, t.record, t.hash, Len(thoughts))
              /\ policy \in Policies
          BY <4>2 DEF Recorded, Typed
        <5>2. QED
          BY <5>1 DEF CommitRecord, Policies
      <4>3. QED
        BY <2>3, <4>1, <4>2
    <3>4. \A i \in policy.quarantined : i + 1 \in DOMAIN thoughts' /\ Excused(i + 1)'
      BY <1>0, <2>1, <3>2 DEF Excused
    <3>5. QED
      BY <2>1, <3>1, <3>3, <3>4 DEF Verdict
  <2>4. QED
    BY <1>1, <2>2, <2>3 DEF Works
<1>2. CASE Stop \/ PowerFails \/ DeleteCheckpoint
  BY <1>2 DEF Stop, PowerFails, DeleteCheckpoint, Verdict
<1>3. CASE UNCHANGED vars
  BY <1>3 DEF vars, Judged, Verdict, Matches, Excused
<1>4. CASE Open
  <2>1. thoughts' = thoughts /\ doubtful' = doubtful
    BY <1>4, OpenFacts
  <2>2. CASE Trusted
    BY <2>2 DEF Trusted, Verdict
  <2>3. CASE Locked
    <3>1. ~Matches
      BY <2>3, MatchesMeans DEF Locked, Judged, SealTold
    <3>2. QED
      BY <2>1, <2>3, <3>1 DEF Locked, Verdict, Matches
  <2>4. CASE Verified
    <3>1. /\ checkpoint.exists => Matches
          /\ \A i \in policy'.quarantined : i + 1 \in 1 .. Len(thoughts) /\ Excused(i + 1)
      BY <2>4, OpenExcuses
    <3>2. checkpoint'.exists => Matches'
      <4>1. CASE UNCHANGED <<checkpoint, sealed>>
        BY <2>1, <3>1, <4>1 DEF Matches
      <4>2. CASE sealed' = [n \in DOMAIN thoughts |-> thoughts[n].hash]
        <5>1. DOMAIN sealed' = 1 .. Len(thoughts)
              /\ \A n \in 1 .. Len(thoughts) : sealed'[n] = thoughts[n].hash
          BY <1>0, <4>2
        <5>2. Len(sealed') = Len(thoughts)
          <6>1. sealed' \in Seq(Nat)
            BY <4>2, TypedKept DEF Typed
          <6>2. DOMAIN sealed' = 1 .. Len(sealed') /\ Len(sealed') \in Nat
            BY <6>1
          <6>3. QED
            BY <1>0, <5>1, <6>2
        <5>3. QED
          BY <1>0, <2>1, <5>1, <5>2 DEF Matches
      <4>3. QED
        BY <2>4, <4>1, <4>2 DEF Verified
    <3>3. \A i \in policy'.quarantined : i + 1 \in DOMAIN thoughts' /\ Excused(i + 1)'
      BY <1>0, <2>1, <3>1 DEF Excused
    <3>4. QED
      BY <2>4, <3>2, <3>3 DEF Verified, Verdict
  <2>5. QED
    BY <1>4, <2>2, <2>3, <2>4, OpenFacts
<1>5. QED
  BY <1>1, <1>2, <1>3, <1>4, NextWorks

\* Opening hides no accepted thought but one whose signer's key was replaced or
\* not saved, and locks the chain exactly when it does not start with what was
\* sealed: one hash and one policy state are enough to tell
\* (governed_suffix_findings, load_checkpoint).
THEOREM VerdictsStayRight ==
    Spec => []VerdictsAreRight
<1> DEFINE Inv == Typed /\ PolicyIsReplay /\ SecretsInside /\ Judged
<1>1. Init => Inv
  <2> SUFFICES ASSUME Init PROVE Inv
    OBVIOUS
  <2>1. thoughts = <<>> /\ sealed = <<>> /\ secret = {} /\ checkpoint = NoCheckpoint
        /\ registry = EmptyRegistry /\ saved = EmptyRegistry /\ policy = NoPolicy
    BY DEF Init
  <2>2. SecretsInside
    BY <2>1 DEF Init, SecretsInside
  <2>3. Accepted /\ KeysRemembered /\ FileAgrees /\ SealRooted
    BY <2>1 DEF Accepted, KeysRemembered, FileAgrees, SealRooted
  <2>4. SealBound /\ SealTold /\ Verdict
    BY <2>1 DEF SealBound, SealTold, Verdict, NoCheckpoint, NoPolicy
  <2>5. QED
    BY <2>2, <2>3, <2>4, TypedInitially, ReplayInitially DEF Judged
<1>2. Inv /\ [Next]_vars => Inv'
  <2>1. Judged /\ Typed /\ PolicyIsReplay /\ SecretsInside /\ [Next]_vars => Judged'
    BY AcceptedKept, KeysKept, SealRootedKept, SealBoundKept, SealToldKept, VerdictKept DEF Judged
  <2>2. QED
    BY <2>1, TypedKept, ReplayKept, SecretsKept
<1>3. Inv => VerdictsAreRight
  <2> SUFFICES ASSUME Inv, opened PROVE AcceptedStaysReadable /\ LockedIfLost
    BY DEF VerdictsAreRight
  <2>1. /\ policy.locked <=> checkpoint.exists /\ ~Matches
        /\ \A i \in policy.quarantined : Excused(i + 1)
    BY DEF Judged, Verdict
  <2>2. QED
    BY <2>1 DEF AcceptedStaysReadable, LockedIfLost, Matches, Excused, SignerId
<1>4. QED
  BY <1>1, <1>2, <1>3, PTL DEF Spec

=============================================================================
