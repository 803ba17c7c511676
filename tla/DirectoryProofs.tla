--------------------------- MODULE DirectoryProofs ---------------------------
(***************************************************************************)
(* Proofs about the files of a data directory, for every value of the      *)
(* constants: archives and what is restored of them (BackupRestore), and   *)
(* the skill registry, of a daemon that has it for itself and of several   *)
(* processes (SkillRegistry).                                              *)
(***************************************************************************)
EXTENDS BackupRestore, SkillRegistry, TLAPS, SequenceTheorems, WellFoundedInduction

(* Prefixes. *)

\* A prefix, element by element.
LEMMA PrefixIs ==
    ASSUME NEW S, NEW s \in Seq(S), NEW t \in Seq(S)
    PROVE  IsPrefix(s, t) <=> Len(s) <= Len(t) /\ \A i \in 1 .. Len(s) : s[i] = t[i]
<1>1. SubSeq(s, 1, Len(s)) = s
  OBVIOUS
<1>2. ASSUME Len(s) <= Len(t)
      PROVE  /\ SubSeq(t, 1, Len(s)) \in Seq(S) /\ Len(SubSeq(t, 1, Len(s))) = Len(s)
             /\ \A i \in 1 .. Len(s) : SubSeq(t, 1, Len(s))[i] = t[i]
  BY <1>2
<1>3. ASSUME Len(s) <= Len(t), \A i \in 1 .. Len(s) : s[i] = t[i]
      PROVE  SubSeq(t, 1, Len(s)) = s
  BY <1>2, <1>3, SeqEqual
<1>4. ASSUME Len(s) <= Len(t), SubSeq(t, 1, Len(s)) = s, NEW i \in 1 .. Len(s)
      PROVE  s[i] = t[i]
  BY <1>2, <1>4
<1>5. QED
  BY <1>1, <1>3, <1>4 DEF IsPrefix

LEMMA PrefixTransitive ==
    ASSUME NEW S, NEW s \in Seq(S), NEW t \in Seq(S), NEW u \in Seq(S),
           IsPrefix(s, t), IsPrefix(t, u)
    PROVE  IsPrefix(s, u)
<1>1. Len(s) \in Nat /\ Len(t) \in Nat /\ Len(u) \in Nat
  OBVIOUS
<1>2. Len(s) <= Len(t) /\ \A i \in 1 .. Len(s) : s[i] = t[i]
  BY PrefixIs
<1>3. Len(t) <= Len(u) /\ \A i \in 1 .. Len(t) : t[i] = u[i]
  BY PrefixIs
<1>4. Len(s) <= Len(u) /\ \A i \in 1 .. Len(s) : s[i] = u[i]
  BY <1>1, <1>2, <1>3
<1>5. QED
  BY <1>4, PrefixIs

LEMMA PrefixOfItself ==
    ASSUME NEW S, NEW s \in Seq(S)
    PROVE  IsPrefix(s, s) /\ IsPrefix(<<>>, s)
<1> DEFINE e == <<>>
<1>1. Len(s) \in Nat /\ e \in Seq(S) /\ Len(e) = 0
  OBVIOUS
<1> HIDE DEF e
<1>2. IsPrefix(s, s) <=> Len(s) <= Len(s) /\ \A i \in 1 .. Len(s) : s[i] = s[i]
  BY PrefixIs
<1>3. IsPrefix(e, s)
  <2>1. Len(e) <= Len(s) /\ \A i \in 1 .. Len(e) : e[i] = s[i]
    BY <1>1
  <2>2. QED
    BY <1>1, <2>1, PrefixIs
<1>4. QED
  BY <1>1, <1>2, <1>3 DEF e

LEMMA PrefixOfAppend ==
    ASSUME NEW S, NEW s \in Seq(S), NEW x \in S
    PROVE  Append(s, x) \in Seq(S) /\ IsPrefix(s, Append(s, x))
<1>1. /\ Append(s, x) \in Seq(S) /\ Len(s) \in Nat /\ Len(Append(s, x)) = Len(s) + 1
      /\ \A i \in 1 .. Len(s) : Append(s, x)[i] = s[i]
  OBVIOUS
<1>2. Len(s) <= Len(Append(s, x))
  BY <1>1
<1>3. QED
  BY <1>1, <1>2, PrefixIs

\* A prefix that is not shorter is everything.
LEMMA WholePrefix ==
    ASSUME NEW S, NEW s \in Seq(S), NEW t \in Seq(S), IsPrefix(s, t), Len(s) >= Len(t)
    PROVE  s = t
<1>1. Len(s) = Len(t) /\ \A i \in 1 .. Len(s) : s[i] = t[i]
  BY PrefixIs
<1>2. QED
  BY <1>1, SeqEqual

\* A prefix with the next element is a prefix.
LEMMA NextOfPrefix ==
    ASSUME NEW S, NEW s \in Seq(S), NEW t \in Seq(S), IsPrefix(s, t), Len(s) < Len(t)
    PROVE  /\ t[Len(s) + 1] \in S
           /\ Append(s, t[Len(s) + 1]) \in Seq(S) /\ IsPrefix(Append(s, t[Len(s) + 1]), t)
<1>1. Len(s) \in Nat /\ Len(t) \in Nat /\ t[Len(s) + 1] \in S
  OBVIOUS
<1> DEFINE u == Append(s, t[Len(s) + 1])
<1>2. /\ u \in Seq(S) /\ Len(u) = Len(s) + 1 /\ u[Len(s) + 1] = t[Len(s) + 1]
      /\ \A i \in 1 .. Len(s) : u[i] = s[i]
  BY <1>1
<1>3. \A i \in 1 .. Len(s) : s[i] = t[i]
  BY PrefixIs
<1>4. Len(u) <= Len(t) /\ \A i \in 1 .. Len(u) : u[i] = t[i]
  BY <1>1, <1>2, <1>3
<1>5. QED
  BY <1>1, <1>2, <1>4, PrefixIs

-----------------------------------------------------------------------------
(* Directories, and how they grow. *)

Keys == SUBSET Signers
Thoughts == Seq(SignedThought)

\* The two files of a directory, or of an archive.
Dir == {d \in [Files -> Keys \cup Thoughts \cup {None}] :
          d["agents"] \in Keys \cup {None} /\ d["chain"] \in Thoughts \cup {None}}

\* A registry of keys is only ever added to.
OlderKeys(a, b) == a = None \/ (b # None /\ a \subseteq b)

LEMMA NoFilesShape ==
    NoFiles \in Dir /\ NoFiles["agents"] = None /\ NoFiles["chain"] = None
BY DEF NoFiles, Dir, Files

LEMMA DirShape ==
    ASSUME NEW d \in Dir
    PROVE  /\ d["agents"] \in Keys \cup {None} /\ d["chain"] \in Thoughts \cup {None}
           /\ DOMAIN d = Files
           /\ KeysIn(d) \in Keys /\ ThoughtsIn(d) \in Thoughts
           /\ d["chain"] # None => d["chain"] \in Thoughts /\ ThoughtsIn(d) = d["chain"]
           /\ d["chain"] = None => ThoughtsIn(d) = <<>>
<1>1. <<>> \in Thoughts
  BY DEF Thoughts
<1>2. QED
  BY <1>1 DEF Dir, Keys, KeysIn, ThoughtsIn

LEMMA DirEqual ==
    ASSUME NEW d \in Dir, NEW e \in Dir, d["agents"] = e["agents"], d["chain"] = e["chain"]
    PROVE  d = e
<1>1. d \in [Files -> Keys \cup Thoughts \cup {None}] /\ e \in [Files -> Keys \cup Thoughts \cup {None}]
  BY DEF Dir
<1>2. \A f \in Files : d[f] = e[f]
  BY DEF Files
<1>3. QED
  BY <1>1, <1>2

LEMMA NewKeys ==
    ASSUME NEW d \in Dir, NEW keys \in Keys \cup {None}
    PROVE  LET e == [d EXCEPT !["agents"] = keys]
           IN e \in Dir /\ e["agents"] = keys /\ e["chain"] = d["chain"]
BY DEF Dir, Files

LEMMA NewChain ==
    ASSUME NEW d \in Dir, NEW chain \in Thoughts \cup {None}
    PROVE  LET e == [d EXCEPT !["chain"] = chain]
           IN e \in Dir /\ e["chain"] = chain /\ e["agents"] = d["agents"]
BY DEF Dir, Files

LEMMA WithKeyShape ==
    ASSUME NEW d \in Dir, NEW s \in Signers
    PROVE  /\ WithKey(d, s) \in Dir /\ WithKey(d, s)["chain"] = d["chain"]
           /\ OlderKeys(d["agents"], WithKey(d, s)["agents"])
<1>1. KeysIn(d) \cup {s} \in Keys
  BY DirShape DEF Keys
<1>2. KeysIn(d) \cup {s} # None
  BY <1>1, BackupAssumption DEF Keys
<1>3. d["agents"] # None => d["agents"] \subseteq KeysIn(d) \cup {s}
  BY DEF KeysIn
<1>4. QED
  BY <1>1, <1>2, <1>3, NewKeys DEF WithKey, OlderKeys

LEMMA ExtendedShape ==
    ASSUME NEW d \in Dir, NEW s \in Signers, NEW n \in Nat, NEW side \in {"source", "target"}
    PROVE  LET e == Extended(d, <<side, n>>, s)
           IN /\ e \in Dir /\ e["agents"] = d["agents"] /\ e["chain"] # None
              /\ IsPrefix(ThoughtsIn(d), ThoughtsIn(e))
<1> DEFINE x == [id |-> <<side, n>>, by |-> s]
<1> DEFINE chain == Append(ThoughtsIn(d), x)
<1> DEFINE e == [d EXCEPT !["chain"] = chain]
<1>1. x \in SignedThought
  BY DEF SignedThought
<1>2. ThoughtsIn(d) \in Seq(SignedThought)
  BY DirShape DEF Thoughts
<1>3. chain \in Thoughts /\ IsPrefix(ThoughtsIn(d), chain)
  BY <1>1, <1>2, PrefixOfAppend DEF Thoughts
<1>4. chain # None
  BY <1>3, BackupAssumption DEF Thoughts
<1> HIDE DEF chain
<1>5. e \in Dir /\ e["chain"] = chain /\ e["agents"] = d["agents"]
  BY <1>3, NewChain
<1>6. ThoughtsIn(e) = chain
  BY <1>4, <1>5 DEF ThoughtsIn
<1>7. Extended(d, <<side, n>>, s) = e
  BY DEF Extended, chain
<1> HIDE DEF e
<1>8. QED
  BY <1>3, <1>4, <1>5, <1>6, <1>7

LEMMA OlderKeysTransitive ==
    ASSUME NEW a, NEW b, NEW c, OlderKeys(a, b), OlderKeys(b, c)
    PROVE  OlderKeys(a, c)
BY DEF OlderKeys

LEMMA OlderKeysItself == ASSUME NEW a PROVE OlderKeys(a, a)
BY DEF OlderKeys

-----------------------------------------------------------------------------
(* The inductive invariant. *)

Archive == [pc : {"idle", "hash", "agents", "chain"}, manifest : Dir, body : Dir, seen : Dir]
Restore == [pc : {"idle", "target", "import", "copy", "splice"}, from : Nat, key : ChainKeys,
            files : Seq(Files)]

BackupTyped ==
    /\ source \in Dir /\ target \in [ChainKeys -> Dir]
    /\ backup \in Archive /\ archives \in Seq(Archive)
    /\ restore \in Restore /\ restored \subseteq DOMAIN archives
    /\ idsMinted \in [source : Nat, target : Nat]

\* The registry was hashed before the chain, and the chain as it was seen.
Hashed(b) ==
    /\ OlderKeys(b.manifest["agents"], b.seen["agents"])
    /\ b.manifest["chain"] = b.seen["chain"]

\* What a backup in progress has hashed and copied, in the order it does so; and
\* what an archive was.
Taken ==
    /\ backup.pc # "idle" => source["chain"] # None
    /\ backup.pc = "hash" => OlderKeys(backup.manifest["agents"], source["agents"])
    /\ backup.pc = "agents" =>
         Hashed(backup) /\ OlderKeys(backup.seen["agents"], source["agents"])
    /\ backup.pc = "chain" =>
         Hashed(backup) /\ OlderKeys(backup.seen["agents"], backup.body["agents"])
    /\ \A a \in DOMAIN archives :
         /\ Hashed(archives[a]) /\ archives[a].body["chain"] # None
         /\ OlderKeys(archives[a].seen["agents"], archives[a].body["agents"])

\* The files a restore may still have to copy, while the chain is one of them and
\* when it is there.
ChainToCome == {<<"agents", "chain">>, <<"chain", "agents">>, <<"chain">>}
ChainIsThere == {<<"agents">>, <<>>}

\* What a restore in progress has written of the chain.
Written ==
    /\ restore.pc # "idle" => restore.from \in DOMAIN archives
    /\ restore.pc = "copy" =>
         \/ restore.files \in ChainToCome /\ target[restore.key]["chain"] = None
         \/ restore.files \in ChainIsThere /\ target[restore.key]["chain"] = Staged["chain"]
    /\ restore.pc = "splice" =>
         target[0]["chain"] # None /\ IsPrefix(target[0]["chain"], Staged["chain"])

BInv == BackupTyped /\ Taken /\ Written /\ BackupArrives

\* An archive that verifies is of one moment.
LEMMA SnapshotOfTaken ==
    ASSUME BackupTyped, Taken
    PROVE  VerifiedIsSnapshot
<1> SUFFICES ASSUME NEW a \in DOMAIN archives, Verifies(archives[a])
             PROVE  archives[a].body = archives[a].seen
  BY DEF VerifiedIsSnapshot
<1>1. archives[a] \in Archive
  BY DEF BackupTyped
<1>2. archives[a].body \in Dir /\ archives[a].seen \in Dir /\ archives[a].body = archives[a].manifest
  BY <1>1 DEF Archive, Verifies
<1>3. /\ OlderKeys(archives[a].manifest["agents"], archives[a].seen["agents"])
      /\ OlderKeys(archives[a].seen["agents"], archives[a].body["agents"])
      /\ archives[a].manifest["chain"] = archives[a].seen["chain"]
  BY DEF Taken, Hashed
<1>4. archives[a].body["agents"] = archives[a].seen["agents"]
  BY <1>2, <1>3 DEF OlderKeys
<1>5. QED
  BY <1>2, <1>3, <1>4, DirEqual

-----------------------------------------------------------------------------
(* Types. *)

LEMMA NamesAreThere == 0 \in ChainKeys
BY BackupAssumption DEF ChainKeys

LEMMA NoBackupShape ==
    /\ NoBackup \in Archive /\ NoBackup.pc = "idle" /\ NoBackup.body = NoFiles
    /\ NoRestore \in Restore /\ NoRestore.pc = "idle"
<1>1. <<>> \in Seq(Files)
  OBVIOUS
<1>2. QED
  BY <1>1, NoFilesShape, NamesAreThere DEF NoBackup, NoRestore, Archive, Restore

LEMMA LeftShape == ChainToCome \cup ChainIsThere \subseteq Seq(Files)
BY DEF ChainToCome, ChainIsThere, Files

LEMMA BackupStarts == BackupInit => BInv
<1> SUFFICES ASSUME BackupInit PROVE BInv
  OBVIOUS
<1>1. BackupTyped
  BY NoFilesShape, NoBackupShape DEF BackupInit, BackupTyped
<1>2. Taken /\ Written /\ BackupArrives
  BY NoBackupShape DEF BackupInit, Taken, Written, BackupArrives
<1>3. QED
  BY <1>1, <1>2 DEF BInv

\* What the two daemons write.
LEMMA SourceWritesShape ==
    ASSUME BackupTyped, SourceWrites
    PROVE  /\ source' \in Dir /\ idsMinted' \in [source : Nat, target : Nat]
           /\ OlderKeys(source["agents"], source'["agents"])
           /\ source["chain"] # None => source'["chain"] # None
<1>1. source \in Dir /\ idsMinted \in [source : Nat, target : Nat]
  BY DEF BackupTyped
<1>2. PICK s \in Signers :
         \/ source' = WithKey(source, s) /\ idsMinted' = idsMinted
         \/ /\ source' = Extended(source, <<"source", idsMinted.source + 1>>, s)
            /\ idsMinted' = [idsMinted EXCEPT !.source = @ + 1]
  BY DEF SourceWrites
<1>3. CASE source' = WithKey(source, s) /\ idsMinted' = idsMinted
  BY <1>1, <1>3, WithKeyShape
<1>4. CASE /\ source' = Extended(source, <<"source", idsMinted.source + 1>>, s)
           /\ idsMinted' = [idsMinted EXCEPT !.source = @ + 1]
  <2>1. idsMinted.source + 1 \in Nat /\ idsMinted' \in [source : Nat, target : Nat]
    BY <1>1, <1>4
  <2>2. source' \in Dir /\ source'["agents"] = source["agents"] /\ source'["chain"] # None
    BY <1>1, <1>4, <2>1, ExtendedShape
  <2>3. QED
    BY <2>1, <2>2, OlderKeysItself
<1>5. QED
  BY <1>2, <1>3, <1>4

\* No file of the target ever becomes shorter.
TargetGrows ==
    \A k \in ChainKeys :
        target'[k] \in Dir /\ IsPrefix(ThoughtsIn(target[k]), ThoughtsIn(target'[k]))

\* One chain of the target is replaced by one that goes on from it.
LEMMA OneGrows ==
    ASSUME BackupTyped, NEW k \in ChainKeys, NEW d \in Dir,
           IsPrefix(ThoughtsIn(target[k]), ThoughtsIn(d)), target' = [target EXCEPT ![k] = d]
    PROVE  target' \in [ChainKeys -> Dir] /\ target'[k] = d /\ TargetGrows
<1>1. target \in [ChainKeys -> Dir]
  BY DEF BackupTyped
<1>2. \A j \in ChainKeys : target[j] \in Dir /\ target'[j] = IF j = k THEN d ELSE target[j]
  BY <1>1
<1>3. \A j \in ChainKeys : IsPrefix(ThoughtsIn(target[j]), ThoughtsIn(target[j]))
  BY <1>2, DirShape, PrefixOfItself DEF Thoughts
<1>4. QED
  BY <1>1, <1>2, <1>3 DEF TargetGrows

LEMMA SameGrows ==
    ASSUME BackupTyped, target' = target
    PROVE  target' \in [ChainKeys -> Dir] /\ TargetGrows
<1>1. target \in [ChainKeys -> Dir]
  BY DEF BackupTyped
<1>2. \A j \in ChainKeys : target[j] \in Dir /\ target'[j] = target[j]
  BY <1>1
<1>3. \A j \in ChainKeys : IsPrefix(ThoughtsIn(target[j]), ThoughtsIn(target[j]))
  BY <1>2, DirShape, PrefixOfItself DEF Thoughts
<1>4. QED
  BY <1>1, <1>2, <1>3 DEF TargetGrows

LEMMA TargetWritesShape ==
    ASSUME BackupTyped, TargetWrites
    PROVE  /\ target' \in [ChainKeys -> Dir] /\ TargetGrows
           /\ idsMinted' \in [source : Nat, target : Nat]
<1>1. target \in [ChainKeys -> Dir] /\ idsMinted \in [source : Nat, target : Nat]
  BY DEF BackupTyped
<1>2. idsMinted.target + 1 \in Nat /\ idsMinted' \in [source : Nat, target : Nat]
  BY <1>1 DEF TargetWrites
<1>3. PICK k \in ChainKeys, s \in Signers :
         target' = [target EXCEPT ![k] =
                      Extended(WithKey(@, s), <<"target", idsMinted.target + 1>>, s)]
  BY DEF TargetWrites
<1> DEFINE d == WithKey(target[k], s)
<1> DEFINE e == Extended(d, <<"target", idsMinted.target + 1>>, s)
<1>4. d \in Dir /\ d["chain"] = target[k]["chain"]
  BY <1>1, WithKeyShape
<1>5. ThoughtsIn(d) = ThoughtsIn(target[k])
  BY <1>4 DEF ThoughtsIn
<1>6. target' = [target EXCEPT ![k] = e]
  BY <1>3
<1> HIDE DEF d
<1>7. e \in Dir /\ IsPrefix(ThoughtsIn(d), ThoughtsIn(e))
  BY <1>2, <1>4, ExtendedShape
<1> HIDE DEF e
<1>8. target' \in [ChainKeys -> Dir] /\ TargetGrows
  BY <1>5, <1>6, <1>7, OneGrows
<1>9. QED
  BY <1>2, <1>8

\* Where a file is copied to nothing is lost.
LEMMA CopyIntoShape ==
    ASSUME NEW d \in Dir, NEW f \in Files, Staged \in Dir
    PROVE  LET e == CopyInto(d, f)
           IN /\ e \in Dir /\ IsPrefix(ThoughtsIn(d), ThoughtsIn(e))
              /\ f = "chain" /\ d["chain"] = None => e["chain"] = Staged["chain"]
              /\ f = "agents" => e["chain"] = d["chain"]
<1> DEFINE st == Staged
<1>1. st \in Dir /\ CopyInto(d, f) = IF d[f] = None THEN [d EXCEPT ![f] = st[f]] ELSE d
  BY DEF CopyInto
<1>2. f \in {"agents", "chain"} /\ st["agents"] \in Keys \cup {None} /\ st["chain"] \in Thoughts \cup {None}
  BY <1>1, DirShape DEF Files
<1> HIDE DEF st
<1>3. /\ ThoughtsIn(d) \in Seq(SignedThought) /\ IsPrefix(ThoughtsIn(d), ThoughtsIn(d))
      /\ d["chain"] = None => ThoughtsIn(d) = <<>>
  BY DirShape, PrefixOfItself DEF Thoughts
<1>4. CASE d[f] # None
  BY <1>1, <1>2, <1>3, <1>4
<1>5. CASE d[f] = None /\ f = "agents"
  <2> DEFINE e == [d EXCEPT !["agents"] = st["agents"]]
  <2>1. e \in Dir /\ e["chain"] = d["chain"] /\ CopyInto(d, f) = e
    BY <1>1, <1>2, <1>5, NewKeys
  <2> HIDE DEF e
  <2>2. ThoughtsIn(e) = ThoughtsIn(d)
    BY <2>1 DEF ThoughtsIn
  <2>3. QED
    BY <1>3, <1>5, <2>1, <2>2
<1>6. CASE d[f] = None /\ f = "chain"
  <2> DEFINE e == [d EXCEPT !["chain"] = st["chain"]]
  <2>1. e \in Dir /\ e["chain"] = st["chain"] /\ CopyInto(d, f) = e
    BY <1>1, <1>2, <1>6, NewChain
  <2> HIDE DEF e
  <2>2. ThoughtsIn(e) \in Seq(SignedThought)
    BY <2>1, DirShape DEF Thoughts
  <2>3. IsPrefix(ThoughtsIn(d), ThoughtsIn(e))
    BY <1>3, <1>6, <2>2, PrefixOfItself
  <2>4. QED
    BY <1>6, <2>1, <2>3 DEF st
<1>7. QED
  BY <1>2, <1>4, <1>5, <1>6

-----------------------------------------------------------------------------
(* Every step keeps the invariant. *)

\* What was restored stays where it is while the archives stay and no file of the
\* target becomes shorter.
LEMMA ArrivedStays ==
    ASSUME BInv, TargetGrows, archives' = archives, NEW a \in restored
    PROVE  \E k \in ChainKeys : IsPrefix(archives'[a].body["chain"], ThoughtsIn(target'[k]))
<1>1. PICK k \in ChainKeys : IsPrefix(archives[a].body["chain"], ThoughtsIn(target[k]))
  BY DEF BInv, BackupArrives
<1>2. a \in DOMAIN archives /\ archives[a].body \in Dir /\ target[k] \in Dir
  <2>1. a \in DOMAIN archives /\ archives \in Seq(Archive) /\ target \in [ChainKeys -> Dir]
    BY DEF BInv, BackupTyped
  <2>2. archives[a] \in Archive
    BY <2>1
  <2>3. QED
    BY <2>1, <2>2 DEF Archive
<1>3. archives[a].body["chain"] \in Seq(SignedThought)
  BY <1>2, DirShape DEF BInv, Taken, Thoughts
<1>4. target'[k] \in Dir /\ IsPrefix(ThoughtsIn(target[k]), ThoughtsIn(target'[k]))
  BY DEF TargetGrows
<1>5. ThoughtsIn(target[k]) \in Seq(SignedThought) /\ ThoughtsIn(target'[k]) \in Seq(SignedThought)
  BY <1>2, <1>4, DirShape DEF Thoughts
<1>6. IsPrefix(archives[a].body["chain"], ThoughtsIn(target'[k]))
  BY <1>1, <1>3, <1>4, <1>5, PrefixTransitive
<1>7. QED
  BY <1>6

LEMMA ArrivesStill ==
    ASSUME BInv, TargetGrows, archives' = archives, restored' = restored
    PROVE  BackupArrives'
BY ArrivedStays DEF BackupArrives

LEMMA ArrivesNow ==
    ASSUME BInv, TargetGrows, archives' = archives, restored' = restored \cup {restore.from},
           NEW k \in ChainKeys, IsPrefix(Staged["chain"], ThoughtsIn(target'[k]))
    PROVE  BackupArrives'
<1>1. IsPrefix(archives'[restore.from].body["chain"], ThoughtsIn(target'[k]))
  BY DEF Staged
<1>2. QED
  BY <1>1, ArrivedStays DEF BackupArrives

LEMMA SourceKeeps == ASSUME BInv, SourceWrites PROVE BInv'
<1>1. BackupTyped'
  BY SourceWritesShape DEF BInv, BackupTyped, SourceWrites
<1>2. Taken'
  <2>1. /\ OlderKeys(source["agents"], source'["agents"])
        /\ source["chain"] # None => source'["chain"] # None
    BY SourceWritesShape DEF BInv
  <2>2. backup' = backup /\ archives' = archives
    BY DEF SourceWrites
  <2>3. backup.pc = "hash" => OlderKeys(backup.manifest["agents"], source'["agents"])
    BY <2>1, OlderKeysTransitive DEF BInv, Taken
  <2>4. backup.pc = "agents" => OlderKeys(backup.seen["agents"], source'["agents"])
    BY <2>1, OlderKeysTransitive DEF BInv, Taken
  <2>5. QED
    BY <2>1, <2>2, <2>3, <2>4 DEF BInv, Taken, Hashed
<1>3. Written'
  BY DEF BInv, Written, Staged, SourceWrites
<1>4. BackupArrives'
  BY DEF BInv, BackupArrives, SourceWrites
<1>5. QED
  BY <1>1, <1>2, <1>3, <1>4 DEF BInv

LEMMA TargetKeeps == ASSUME BInv, TargetWrites PROVE BInv'
<1>1. BackupTyped' /\ TargetGrows
  BY TargetWritesShape DEF BInv, BackupTyped, TargetWrites
<1>2. Taken'
  BY DEF BInv, Taken, Hashed, TargetWrites
<1>3. Written'
  BY DEF Written, TargetWrites
<1>4. BackupArrives'
  BY <1>1, ArrivesStill DEF TargetWrites
<1>5. QED
  BY <1>1, <1>2, <1>3, <1>4 DEF BInv

LEMMA HashAgentsKeeps == ASSUME BInv, HashAgents PROVE BInv'
<1> DEFINE m == [NoFiles EXCEPT !["agents"] = source["agents"]]
<1>1. source \in Dir /\ source["agents"] \in Keys \cup {None} /\ source["chain"] # None
  BY DirShape DEF BInv, BackupTyped, HashAgents
<1>2. m \in Dir /\ m["agents"] = source["agents"]
  BY <1>1, NoFilesShape, NewKeys
<1>3. backup' = [NoBackup EXCEPT !.pc = "hash", !.manifest = m]
  BY DEF HashAgents, NoBackup
<1> HIDE DEF m
<1>4. backup' \in Archive /\ backup'.pc = "hash" /\ backup'.manifest = m
  BY <1>2, <1>3, NoBackupShape DEF Archive
<1>5. BackupTyped'
  BY <1>4 DEF BInv, BackupTyped, HashAgents
<1>6. Taken'
  BY <1>1, <1>2, <1>4, OlderKeysItself DEF BInv, Taken, Hashed, HashAgents
<1>7. Written' /\ BackupArrives'
  BY DEF BInv, Written, Staged, BackupArrives, HashAgents
<1>8. QED
  BY <1>5, <1>6, <1>7 DEF BInv

LEMMA HashChainKeeps == ASSUME BInv, HashChain PROVE BInv'
<1> DEFINE m == [backup.manifest EXCEPT !["chain"] = source["chain"]]
<1>1. backup \in Archive /\ source \in Dir /\ backup.manifest \in Dir
  BY DEF BInv, BackupTyped, Archive
<1>2. source["chain"] \in Thoughts \cup {None}
  BY <1>1, DirShape
<1>3. /\ m \in Dir /\ m["chain"] = source["chain"] /\ m["agents"] = backup.manifest["agents"]
  BY <1>1, <1>2, NewChain
<1>4. backup' = [backup EXCEPT !.pc = "agents", !.manifest = m, !.seen = source]
  BY <1>1 DEF HashChain, Archive
<1> HIDE DEF m
<1>5. backup' \in Archive /\ backup'.pc = "agents" /\ backup'.manifest = m /\ backup'.seen = source
  BY <1>1, <1>3, <1>4 DEF Archive
<1>6. BackupTyped'
  BY <1>5 DEF BInv, BackupTyped, HashChain
<1>7. OlderKeys(backup.manifest["agents"], source["agents"]) /\ source["chain"] # None
  BY DEF BInv, Taken, HashChain
<1>8. Taken'
  BY <1>3, <1>5, <1>7, OlderKeysItself DEF BInv, Taken, Hashed, HashChain
<1>9. Written' /\ BackupArrives'
  BY DEF BInv, Written, Staged, BackupArrives, HashChain
<1>10. QED
  BY <1>6, <1>8, <1>9 DEF BInv

LEMMA CopyAgentsKeeps == ASSUME BInv, CopyIntoArchive("agents") PROVE BInv'
<1> DEFINE b == [backup.body EXCEPT !["agents"] = source["agents"]]
<1>1. backup \in Archive /\ source \in Dir /\ backup.body \in Dir
  BY DEF BInv, BackupTyped, Archive
<1>2. b \in Dir /\ b["agents"] = source["agents"]
  BY <1>1, DirShape, NewKeys
<1>3. backup.pc = "agents" /\ backup' = [backup EXCEPT !.pc = "chain", !.body = b]
  BY <1>1 DEF CopyIntoArchive, Archive
<1>4. UNCHANGED <<governed, source, target, listed, archives, restore, idsMinted, restores, halts, restored>>
  BY DEF CopyIntoArchive
<1> HIDE DEF b
<1>5. /\ backup' \in Archive /\ backup'.pc = "chain" /\ backup'.body = b
      /\ backup'.manifest = backup.manifest /\ backup'.seen = backup.seen
  BY <1>1, <1>2, <1>3 DEF Archive
<1>6. BackupTyped'
  BY <1>4, <1>5 DEF BInv, BackupTyped
<1>7. Hashed(backup) /\ OlderKeys(backup.seen["agents"], source["agents"]) /\ source["chain"] # None
  BY <1>3 DEF BInv, Taken
<1>8. Taken'
  BY <1>2, <1>4, <1>5, <1>7 DEF BInv, Taken, Hashed
<1>9. Written' /\ BackupArrives'
  BY <1>4 DEF BInv, Written, Staged, BackupArrives
<1>10. QED
  BY <1>6, <1>8, <1>9 DEF BInv

LEMMA CopyChainKeeps == ASSUME BInv, CopyIntoArchive("chain") PROVE BInv'
<1> DEFINE b == [backup.body EXCEPT !["chain"] = source["chain"]]
<1> DEFINE new == [backup EXCEPT !.pc = "chain", !.body = b]
<1>1. backup \in Archive /\ source \in Dir /\ backup.body \in Dir /\ archives \in Seq(Archive)
  BY DEF BInv, BackupTyped, Archive
<1>2. b \in Dir /\ b["chain"] = source["chain"] /\ b["agents"] = backup.body["agents"]
  BY <1>1, DirShape, NewChain
<1>3. backup.pc = "chain" /\ backup' = NoBackup /\ archives' = Append(archives, new)
  BY <1>1 DEF CopyIntoArchive, Archive
<1>4. UNCHANGED <<governed, source, target, listed, restore, idsMinted, restores, halts, restored>>
  BY DEF CopyIntoArchive
<1> HIDE DEF b
<1>5. /\ new \in Archive /\ new.body = b
      /\ new.manifest = backup.manifest /\ new.seen = backup.seen
  BY <1>1, <1>2 DEF Archive
<1> HIDE DEF new
<1>6. /\ archives' \in Seq(Archive) /\ DOMAIN archives' = 1 .. Len(archives) + 1
      /\ DOMAIN archives = 1 .. Len(archives) /\ Len(archives) \in Nat
      /\ \A a \in DOMAIN archives : archives'[a] = archives[a]
      /\ archives'[Len(archives) + 1] = new
  BY <1>1, <1>3, <1>5
<1>7. DOMAIN archives \subseteq DOMAIN archives'
  BY <1>6
<1>8. BackupTyped'
  BY <1>3, <1>4, <1>6, <1>7, NoBackupShape DEF BInv, BackupTyped
<1>9. /\ Hashed(backup) /\ OlderKeys(backup.seen["agents"], backup.body["agents"])
      /\ source["chain"] # None
  BY <1>3 DEF BInv, Taken
<1>10. /\ Hashed(new) /\ new.body["chain"] # None
       /\ OlderKeys(new.seen["agents"], new.body["agents"])
  BY <1>2, <1>5, <1>9 DEF Hashed
<1>11. \A a \in DOMAIN archives' :
         /\ Hashed(archives'[a]) /\ archives'[a].body["chain"] # None
         /\ OlderKeys(archives'[a].seen["agents"], archives'[a].body["agents"])
  <2>1. SUFFICES ASSUME NEW a \in DOMAIN archives'
                 PROVE  /\ Hashed(archives'[a]) /\ archives'[a].body["chain"] # None
                        /\ OlderKeys(archives'[a].seen["agents"], archives'[a].body["agents"])
    OBVIOUS
  <2>2. a \in DOMAIN archives \/ a = Len(archives) + 1
    BY <1>6
  <2>3. QED
    BY <1>6, <1>10, <2>2 DEF BInv, Taken
<1>12. Taken'
  BY <1>3, <1>11, NoBackupShape DEF Taken, Hashed
<1>13. Written'
  <2>1. restore.pc # "idle" => Staged' = Staged
    BY <1>4, <1>6 DEF BInv, Written, Staged
  <2>2. QED
    BY <1>4, <1>7, <2>1 DEF BInv, Written
<1>14. BackupArrives'
  <2>1. \A a \in restored : a \in DOMAIN archives
    BY DEF BInv, BackupTyped
  <2>2. QED
    BY <1>4, <1>6, <2>1 DEF BInv, BackupArrives
<1>15. QED
  BY <1>8, <1>12, <1>13, <1>14 DEF BInv

\* The archive that is being restored.
LEMMA StagedShape ==
    ASSUME BInv, restore.pc # "idle"
    PROVE  /\ restore.from \in DOMAIN archives /\ restore.key \in ChainKeys /\ restore \in Restore
           /\ Staged \in Dir /\ Staged["chain"] \in Seq(SignedThought)
<1>1. /\ restore.from \in DOMAIN archives /\ archives \in Seq(Archive) /\ restore \in Restore
      /\ archives[restore.from].body["chain"] # None
  BY DEF BInv, Written, BackupTyped, Taken
<1>2. archives[restore.from] \in Archive
  BY <1>1
<1>3. Staged \in Dir
  BY <1>2 DEF Staged, Archive
<1>4. Staged["chain"] \in Seq(SignedThought)
  BY <1>1, <1>3, DirShape DEF Staged, Thoughts
<1>5. QED
  BY <1>1, <1>3, <1>4 DEF Restore

\* What a step of a restore that has ended leaves.
LEMMA RestoreOver ==
    ASSUME BInv, TargetGrows, target' \in [ChainKeys -> Dir], restore' = NoRestore,
           UNCHANGED <<source, backup, archives, idsMinted>>,
           BackupArrives', restored' \subseteq DOMAIN archives
    PROVE  BInv'
<1>1. BackupTyped'
  BY NoBackupShape DEF BInv, BackupTyped
<1>2. Taken'
  BY DEF BInv, Taken, Hashed
<1>3. Written'
  BY NoBackupShape DEF Written
<1>4. QED
  BY <1>1, <1>2, <1>3 DEF BInv

LEMMA BeginKeeps == ASSUME BInv, BeginRestore PROVE BInv'
<1>1. PICK a \in DOMAIN archives : restore' = [NoRestore EXCEPT !.pc = "target", !.from = a]
  BY DEF BeginRestore
<1>2. archives \in Seq(Archive) /\ a \in Nat
  BY DEF BInv, BackupTyped
<1>3. restore' \in Restore /\ restore'.pc = "target" /\ restore'.from = a
  BY <1>1, <1>2, NoBackupShape DEF Restore
<1>4. UNCHANGED <<source, target, backup, archives, idsMinted, restored>>
  BY DEF BeginRestore
<1>5. BackupTyped'
  BY <1>3, <1>4 DEF BInv, BackupTyped
<1>6. Taken' /\ Written' /\ BackupArrives'
  BY <1>3, <1>4 DEF BInv, Taken, Hashed, Written, BackupArrives
<1>7. QED
  BY <1>5, <1>6 DEF BInv

LEMMA LookKeeps == ASSUME BInv, LookAtTarget PROVE BInv'
<1>1. restore \in Restore /\ restore.from \in DOMAIN archives /\ restore.key \in ChainKeys
  BY StagedShape DEF LookAtTarget
<1>2. UNCHANGED <<source, target, backup, archives, idsMinted, restored>>
  BY DEF LookAtTarget
<1>3. /\ restore' \in Restore /\ restore'.from = restore.from /\ restore'.key = restore.key
      /\ \/ restore'.pc = "import"
         \/ /\ restore'.pc = "copy" /\ restore'.files = <<"agents", "chain">>
            /\ \A k \in ChainKeys : target[k] = NoFiles
  <2>1. <<"agents", "chain">> \in Seq(Files) /\ <<>> \in Seq(Files)
    BY DEF Files
  <2>2. CASE ~ listed /\ \A k \in ChainKeys : target[k] = NoFiles
    BY <1>1, <2>1, <2>2 DEF LookAtTarget, Restore
  <2>3. CASE ~ (~ listed /\ \A k \in ChainKeys : target[k] = NoFiles)
    BY <1>1, <2>1, <2>3 DEF LookAtTarget, Restore
  <2>4. QED
    BY <2>2, <2>3
<1>4. BackupTyped'
  BY <1>2, <1>3 DEF BInv, BackupTyped
<1>5. Taken' /\ BackupArrives'
  BY <1>2 DEF BInv, Taken, Hashed, BackupArrives
<1>6. Written'
  <2>1. restore'.pc = "copy" =>
          restore'.files \in ChainToCome /\ target'[restore'.key]["chain"] = None
    BY <1>1, <1>2, <1>3, NoFilesShape DEF ChainToCome
  <2>2. QED
    BY <1>1, <1>2, <1>3, <2>1 DEF Written
<1>7. QED
  BY <1>4, <1>5, <1>6 DEF BInv

LEMMA ImportKeeps == ASSUME BInv, Import PROVE BInv'
<1> DEFINE local == target[0]["chain"]
<1> DEFINE staged == Staged["chain"]
<1>1. /\ restore \in Restore /\ restore.from \in DOMAIN archives
      /\ staged \in Seq(SignedThought)
  BY StagedShape DEF Import
<1>2. target[0] \in Dir /\ 0 \in ChainKeys
  BY NamesAreThere DEF BInv, BackupTyped
<1>3. local # None => local \in Seq(SignedThought) /\ ThoughtsIn(target[0]) = local
  BY <1>2, DirShape DEF Thoughts
<1>4. UNCHANGED <<source, target, backup, archives, idsMinted>> /\ restore.pc = "import"
  BY DEF Import
<1>5. Taken'
  BY <1>4 DEF BInv, Taken, Hashed
<1>6. target' \in [ChainKeys -> Dir] /\ TargetGrows
  BY <1>4, SameGrows DEF BInv
<1>7. /\ Classify(local, staged) \in {"Identical", "LocalExtendsBackup"} /\ local # None
        => IsPrefix(staged, local)
      /\ Classify(local, staged) = "BackupExtendsLocal" => IsPrefix(local, staged)
  BY <1>1, PrefixOfItself DEF Classify
<1>8. ASSUME NEW k \in ChainKeys, target[k]["chain"] = None, restore' = CopyAs(k),
             restored' = restored
      PROVE  BInv'
  <2>1. <<"chain", "agents">> \in Seq(Files)
    BY DEF Files
  <2>2. /\ restore' \in Restore /\ restore'.from = restore.from /\ restore'.key = k
        /\ restore'.pc = "copy" /\ restore'.files = <<"chain", "agents">>
    BY <1>1, <1>8, <2>1 DEF CopyAs, Restore
  <2>3. BackupTyped'
    BY <1>4, <1>8, <2>2 DEF BInv, BackupTyped
  <2>4. Written' /\ BackupArrives'
    BY <1>1, <1>4, <1>8, <2>2 DEF BInv, Written, ChainToCome, BackupArrives
  <2>5. QED
    BY <1>5, <2>3, <2>4 DEF BInv
<1>9. CASE local = None /\ restore' = CopyAs(0) /\ UNCHANGED restored
  BY <1>2, <1>8, <1>9
<1>10. CASE local # None /\ Classify(local, staged) \in {"Identical", "LocalExtendsBackup"} /\ RestoreEnds
  <2>1. IsPrefix(Staged["chain"], ThoughtsIn(target'[0]))
    BY <1>3, <1>4, <1>7, <1>10
  <2>2. restore' = NoRestore /\ restored' = restored \cup {restore.from}
    BY <1>10 DEF RestoreEnds
  <2>3. BackupArrives'
    BY <1>2, <1>4, <1>6, <2>1, <2>2, ArrivesNow
  <2>4. restored' \subseteq DOMAIN archives
    BY <1>1, <2>2 DEF BInv, BackupTyped
  <2>5. QED
    BY <1>4, <1>6, <2>2, <2>3, <2>4, RestoreOver
<1>11. CASE /\ local # None /\ Classify(local, staged) = "BackupExtendsLocal"
            /\ restore' = [restore EXCEPT !.pc = "splice"] /\ UNCHANGED restored
  <2>1. /\ restore' \in Restore /\ restore'.from = restore.from /\ restore'.pc = "splice"
    BY <1>1, <1>11 DEF Restore
  <2>2. BackupTyped'
    BY <1>4, <1>11, <2>1 DEF BInv, BackupTyped
  <2>3. Staged' = Staged
    BY <1>4, <2>1 DEF Staged
  <2>4. Written' /\ BackupArrives'
    BY <1>1, <1>4, <1>7, <1>11, <2>1, <2>3 DEF BInv, Written, BackupArrives
  <2>5. QED
    BY <1>5, <2>2, <2>4 DEF BInv
<1>12. CASE \E k \in ChainKeys \ {0} :
              ImportKey(k) /\ restore' = CopyAs(k) /\ UNCHANGED restored
  BY <1>8, <1>12 DEF ImportKey
<1>13. QED
  BY <1>9, <1>10, <1>11, <1>12 DEF Import

LEMMA CopyFileKeeps == ASSUME BInv, CopyFile PROVE BInv'
<1> DEFINE key == restore.key
<1> DEFINE f == Head(restore.files)
<1> DEFINE d == CopyInto(target[key], f)
<1>1. /\ restore.pc = "copy" /\ restore.files # <<>>
      /\ target' = [target EXCEPT ![key] = d]
      /\ restore' = [restore EXCEPT !.files = Tail(@)]
      /\ UNCHANGED <<source, backup, archives, idsMinted, restored>>
  BY DEF CopyFile
<1>2. /\ restore \in Restore /\ restore.from \in DOMAIN archives /\ key \in ChainKeys
      /\ Staged \in Dir /\ target[key] \in Dir
  BY <1>1, StagedShape DEF BInv, BackupTyped
<1>3. \/ restore.files \in ChainToCome /\ target[key]["chain"] = None
      \/ restore.files = <<"agents">> /\ target[key]["chain"] = Staged["chain"]
  BY <1>1 DEF BInv, Written, ChainIsThere
<1>4. /\ f \in Files /\ Tail(restore.files) \in ChainToCome \cup ChainIsThere
      /\ restore.files \in ChainToCome =>
           \/ f = "chain" /\ Tail(restore.files) \in ChainIsThere
           \/ f = "agents" /\ Tail(restore.files) \in ChainToCome
      /\ restore.files = <<"agents">> => f = "agents" /\ Tail(restore.files) \in ChainIsThere
  <2>1. CASE restore.files = <<"agents", "chain">>
    BY <2>1 DEF ChainToCome, ChainIsThere, Files
  <2>2. CASE restore.files = <<"chain", "agents">>
    BY <2>2 DEF ChainToCome, ChainIsThere, Files
  <2>3. CASE restore.files = <<"chain">>
    BY <2>3 DEF ChainToCome, ChainIsThere, Files
  <2>4. CASE restore.files = <<"agents">>
    BY <2>4 DEF ChainToCome, ChainIsThere, Files
  <2>5. QED
    BY <1>3, <2>1, <2>2, <2>3, <2>4 DEF ChainToCome
<1> HIDE DEF f
<1>5. /\ d \in Dir /\ IsPrefix(ThoughtsIn(target[key]), ThoughtsIn(d))
      /\ f = "chain" /\ target[key]["chain"] = None => d["chain"] = Staged["chain"]
      /\ f = "agents" => d["chain"] = target[key]["chain"]
  BY <1>2, <1>4, CopyIntoShape
<1> HIDE DEF d
<1>6. target' \in [ChainKeys -> Dir] /\ target'[key] = d /\ TargetGrows
  BY <1>1, <1>2, <1>5, OneGrows DEF BInv
<1>7. /\ restore' \in Restore /\ restore'.pc = "copy" /\ restore'.key = key
      /\ restore'.from = restore.from /\ restore'.files = Tail(restore.files)
  BY <1>1, <1>2, <1>4, LeftShape DEF Restore
<1> HIDE DEF key
<1>8. BackupTyped'
  BY <1>1, <1>6, <1>7 DEF BInv, BackupTyped
<1>9. Taken'
  BY <1>1 DEF BInv, Taken, Hashed
<1>10. Written'
  <2>1. Staged' = Staged
    BY <1>1, <1>7 DEF Staged
  <2>2. \/ restore'.files \in ChainToCome /\ d["chain"] = None
        \/ restore'.files \in ChainIsThere /\ d["chain"] = Staged["chain"]
    BY <1>3, <1>4, <1>5, <1>7
  <2>3. QED
    BY <1>1, <1>2, <1>6, <1>7, <2>1, <2>2 DEF Written
<1>11. BackupArrives'
  BY <1>1, <1>6, ArrivesStill
<1>12. QED
  BY <1>8, <1>9, <1>10, <1>11 DEF BInv

\* The registry of a chain is saved anew; the chain stays.
LEMMA SavedShape ==
    ASSUME BInv, NEW k \in ChainKeys, target' = [target EXCEPT ![k]["agents"] = KeysIn(target[k])]
    PROVE  /\ target' \in [ChainKeys -> Dir] /\ TargetGrows
           /\ ThoughtsIn(target'[k]) = ThoughtsIn(target[k])
<1> DEFINE d == [target[k] EXCEPT !["agents"] = KeysIn(target[k])]
<1>1. target[k] \in Dir /\ KeysIn(target[k]) \in Keys
  BY DirShape DEF BInv, BackupTyped
<1>2. d \in Dir /\ d["chain"] = target[k]["chain"]
  BY <1>1, NewKeys
<1>3. target' = [target EXCEPT ![k] = d]
  BY DEF BInv, BackupTyped
<1> HIDE DEF d
<1>4. ThoughtsIn(d) = ThoughtsIn(target[k])
  BY <1>2 DEF ThoughtsIn
<1>5. ThoughtsIn(target[k]) \in Seq(SignedThought)
  BY <1>1, DirShape DEF Thoughts
<1>6. IsPrefix(ThoughtsIn(target[k]), ThoughtsIn(d))
  BY <1>4, <1>5, PrefixOfItself
<1>7. target' \in [ChainKeys -> Dir] /\ target'[k] = d /\ TargetGrows
  BY <1>2, <1>3, <1>6, OneGrows DEF BInv
<1>8. QED
  BY <1>4, <1>7

\* A restore ends when a chain of the target has what was to be restored.
LEMMA RestoreArrived ==
    ASSUME BInv, restore.pc # "idle", TargetGrows, target' \in [ChainKeys -> Dir], RestoreEnds,
           UNCHANGED <<source, backup, archives, idsMinted>>,
           NEW k \in ChainKeys, IsPrefix(Staged["chain"], ThoughtsIn(target'[k]))
    PROVE  BInv'
<1>1. restore' = NoRestore /\ restored' = restored \cup {restore.from}
  BY DEF RestoreEnds
<1>2. restored' \subseteq DOMAIN archives
  BY <1>1, StagedShape DEF BInv, BackupTyped
<1>3. BackupArrives'
  BY <1>1, ArrivesNow
<1>4. QED
  BY <1>1, <1>2, <1>3, RestoreOver

LEMMA NormalizeKeeps == ASSUME BInv, Normalize PROVE BInv'
<1>1. /\ restore.pc = "copy" /\ restore.files = <<>> /\ RestoreEnds
      /\ target' = [target EXCEPT ![restore.key]["agents"] = KeysIn(target[restore.key])]
      /\ UNCHANGED <<source, backup, archives, idsMinted>>
  BY DEF Normalize
<1>2. restore.key \in ChainKeys /\ Staged["chain"] \in Seq(SignedThought) /\ Staged["chain"] # None
  BY <1>1, StagedShape, BackupAssumption
<1>3. target[restore.key]["chain"] = Staged["chain"]
  BY <1>1 DEF BInv, Written, ChainToCome
<1>4. /\ target' \in [ChainKeys -> Dir] /\ TargetGrows
      /\ ThoughtsIn(target'[restore.key]) = Staged["chain"]
  BY <1>1, <1>2, <1>3, SavedShape DEF ThoughtsIn
<1>5. IsPrefix(Staged["chain"], ThoughtsIn(target'[restore.key]))
  BY <1>2, <1>4, PrefixOfItself
<1>6. QED
  BY <1>1, <1>2, <1>4, <1>5, RestoreArrived

LEMMA SpliceKeeps == ASSUME BInv, Splice PROVE BInv'
<1> DEFINE local == target[0]["chain"]
<1> DEFINE staged == Staged["chain"]
<1>1. /\ restore.pc = "splice" /\ UNCHANGED <<source, backup, archives, idsMinted>>
      /\ \/ /\ Len(local) < Len(staged)
            /\ target' = [target EXCEPT ![0]["chain"] = Append(@, staged[Len(local) + 1])]
            /\ UNCHANGED <<restore, restored>>
         \/ /\ ~ (Len(local) < Len(staged))
            /\ target' = [target EXCEPT ![0]["agents"] = KeysIn(target[0])]
            /\ RestoreEnds
  BY DEF Splice
<1>2. staged \in Seq(SignedThought) /\ target[0] \in Dir /\ target \in [ChainKeys -> Dir]
  BY <1>1, StagedShape, NamesAreThere DEF BInv, BackupTyped
<1>3. local # None /\ IsPrefix(local, staged)
  BY <1>1 DEF BInv, Written
<1>4. local \in Seq(SignedThought) /\ ThoughtsIn(target[0]) = local
  BY <1>2, <1>3, DirShape DEF Thoughts
<1>5. CASE /\ Len(local) < Len(staged)
           /\ target' = [target EXCEPT ![0]["chain"] = Append(@, staged[Len(local) + 1])]
           /\ UNCHANGED <<restore, restored>>
  <2> DEFINE next == Append(local, staged[Len(local) + 1])
  <2> DEFINE d == [target[0] EXCEPT !["chain"] = next]
  <2>1. next \in Seq(SignedThought) /\ IsPrefix(next, staged) /\ IsPrefix(local, next)
    BY <1>2, <1>3, <1>4, <1>5, NextOfPrefix, PrefixOfAppend
  <2>2. next # None
    BY <2>1, BackupAssumption
  <2>3. target' = [target EXCEPT ![0] = d]
    BY <1>2, <1>5
  <2> HIDE DEF next
  <2>4. d \in Dir /\ d["chain"] = next
    BY <1>2, <2>1, NewChain DEF Thoughts
  <2>5. ThoughtsIn(d) = next
    BY <2>2, <2>4 DEF ThoughtsIn
  <2> HIDE DEF d
  <2>6. target' \in [ChainKeys -> Dir] /\ target'[0] = d /\ TargetGrows
    BY <1>4, <2>1, <2>3, <2>4, <2>5, NamesAreThere, OneGrows DEF BInv
  <2>7. BackupTyped' /\ Taken'
    BY <1>1, <1>5, <2>6 DEF BInv, BackupTyped, Taken, Hashed
  <2>8. Staged' = Staged
    BY <1>1, <1>5 DEF Staged
  <2>9. Written'
    BY <1>1, <1>5, <2>1, <2>2, <2>4, <2>6, <2>8 DEF BInv, Written
  <2>10. BackupArrives'
    BY <1>1, <1>5, <2>6, ArrivesStill
  <2>11. QED
    BY <2>7, <2>9, <2>10 DEF BInv
<1>6. CASE /\ ~ (Len(local) < Len(staged))
           /\ target' = [target EXCEPT ![0]["agents"] = KeysIn(target[0])]
           /\ RestoreEnds
  <2>1. Len(local) >= Len(staged)
    BY <1>2, <1>4, <1>6
  <2>2. local = staged
    BY <1>2, <1>3, <1>4, <2>1, WholePrefix
  <2>3. target' \in [ChainKeys -> Dir] /\ TargetGrows /\ ThoughtsIn(target'[0]) = staged
    BY <1>4, <1>6, <2>2, NamesAreThere, SavedShape
  <2>4. IsPrefix(staged, ThoughtsIn(target'[0]))
    BY <1>2, <2>3, PrefixOfItself
  <2>5. QED
    BY <1>1, <1>6, <2>3, <2>4, NamesAreThere, RestoreArrived
<1>7. QED
  BY <1>1, <1>5, <1>6

LEMMA HaltKeeps == ASSUME BInv, HaltRestore PROVE BInv'
<1>1. /\ restore' = NoRestore /\ target' = target /\ restored' = restored
      /\ UNCHANGED <<source, backup, archives, idsMinted>>
  BY DEF HaltRestore
<1>2. target' \in [ChainKeys -> Dir] /\ TargetGrows
  BY <1>1, SameGrows DEF BInv
<1>3. BackupArrives'
  BY <1>1, <1>2, ArrivesStill
<1>4. QED
  BY <1>1, <1>2, <1>3, RestoreOver DEF BInv, BackupTyped

LEMMA BackupKeeps == BInv /\ [BackupNext]_backupVars => BInv'
<1> SUFFICES ASSUME BInv, [BackupNext]_backupVars PROVE BInv'
  OBVIOUS
<1>1. ASSUME NEW f \in Files, CopyIntoArchive(f) PROVE BInv'
  <2>1. CASE f = "agents"
    BY <1>1, <2>1, CopyAgentsKeeps
  <2>2. CASE f = "chain"
    BY <1>1, <2>2, CopyChainKeeps
  <2>3. QED
    BY <2>1, <2>2 DEF Files
<1>2. CASE UNCHANGED backupVars
  BY <1>2 DEF backupVars, BInv, BackupTyped, Taken, Hashed, Written, Staged, BackupArrives
<1>3. QED
  BY <1>1, <1>2, SourceKeeps, TargetKeeps, HashAgentsKeeps, HashChainKeeps, BeginKeeps, LookKeeps,
     ImportKeeps, CopyFileKeeps, NormalizeKeeps, SpliceKeeps, HaltKeeps DEF BackupNext

\* An archive that verifies is of one moment, whatever the daemon wrote while it was
\* taken, and what was restored of it is in a chain of the target, whatever stopped
\* half way, was restored besides or written since (BackupsAreGood).
THEOREM BackupsStayGood == BackupSpec => []BackupsAreGood
<1>1. BInv => BackupsAreGood
  BY SnapshotOfTaken DEF BInv, BackupsAreGood
<1>2. QED
  BY <1>1, BackupStarts, BackupKeeps, PTL DEF BackupSpec

-----------------------------------------------------------------------------
(* The skill registry of one process.                                      *)

\* A daemon that has the registry for itself.
OneHolder == \E h : Holders = {h}

\* What the file has.
Stored == IF file = NoFile THEN Empty ELSE file.skills

\* A function of all of S, and a sequence, of whatever elements.
FcnOn(f, S) == f = [x \in S |-> f[x]]
IsSequence(v) == v \in Seq({v[i] : i \in DOMAIN v})

\* An entry; and a copy of the registry that has no skill but those born so far.
IsEntry(e) ==
    /\ e = [born |-> e.born, status |-> e.status, versions |-> e.versions]
    /\ e.born \in Nat /\ IsSequence(e.versions)
IsRegistry(skills) ==
    /\ FcnOn(skills, Skills)
    /\ \A s \in Skills : skills[s] # NoEntry => IsEntry(skills[s]) /\ skills[s].born <= born

\* One entry goes on from another.
GoesOn(old, new) ==
    old # NoEntry /\ new # NoEntry /\ old.born = new.born => IsPrefix(old.versions, new.versions)

Saving == {"write", "rename", "stamp"}
Opening == {"boot", "bootstamp", "down"}
Places == Saving \cup Opening \cup {"idle", "reload", "restamp"}

SkillsShaped(h) ==
    /\ FcnOn(mem, Holders) /\ FcnOn(op, Holders) /\ FcnOn(acked, Skills)
    /\ at \in [Holders -> Places]
    /\ born \in Nat
    /\ IsRegistry(mem[h]) /\ IsRegistry(Stored)

\* Between the steps of an opening and of a save: what has been read is what the
\* file has, what is about to be renamed is the copy, and then the file has it.
UnderWay(h) ==
    /\ at[h] \in {"restamp", "bootstamp"} => op[h].skills = Stored
    /\ at[h] \in Saving => op[h] \in Skills
    /\ at[h] = "rename" /\ tmp # NoFile => tmp.skills = mem[h]
    /\ at[h] = "stamp" => Stored = mem[h]

\* The copy goes on from the file.
CopyGoesOn(h) == \A s \in Skills : GoesOn(Stored[s], mem[h][s])

\* Skills whose last change is over and was acknowledged.
Settled(h) == Skills \ (refused \cup (IF at[h] \in Saving THEN {op[h]} ELSE {}))

\* Of these the file has what was acknowledged, and the copy what the file has.
FileKeeps(h) == \A s \in Settled(h) : Stored[s] = acked[s]
CopyAgrees(h) == at[h] \notin Opening => \A s \in Settled(h) : mem[h][s] = Stored[s]

SInv(h) == SkillsShaped(h) /\ UnderWay(h) /\ CopyGoesOn(h) /\ FileKeeps(h) /\ CopyAgrees(h)

LEMMA BusyOfOne ==
    ASSUME NEW h, Holders = {h}
    PROVE  Skills \ (refused \cup Busy) = Settled(h)
BY DEF Busy, Settled, Saving

LEMMA SkillsStart ==
    ASSUME NEW h, Holders = {h}, SkillsInit
    PROVE  SInv(h)
<1>1. Stored = Empty
  BY DEF SkillsInit, Stored
<1>2. \A s \in Skills : Empty[s] = NoEntry
  BY DEF Empty
<1>3. FcnOn(Empty, Skills)
  BY DEF FcnOn, Empty
<1>4. mem[h] = Empty /\ acked = Empty /\ at[h] = "boot" /\ born = 0
  BY DEF SkillsInit
<1>5. FcnOn(mem, Holders) /\ FcnOn(op, Holders) /\ at \in [Holders -> Places]
  BY DEF SkillsInit, FcnOn, Places, Opening
<1>6. SkillsShaped(h)
  BY <1>1, <1>2, <1>3, <1>4, <1>5 DEF SkillsShaped, IsRegistry
<1>7. QED
  BY <1>1, <1>2, <1>4, <1>6 DEF SInv, UnderWay, CopyGoesOn, GoesOn, FileKeeps, CopyAgrees,
       Opening, Saving

\* Prefixes of sequences of whatever elements.
LEMMA GoesOnItself ==
    ASSUME NEW v, IsSequence(v)
    PROVE  IsPrefix(v, v)
BY PrefixOfItself DEF IsSequence

LEMMA GoesOnFurther ==
    ASSUME NEW u, NEW v, NEW w, IsSequence(u), IsSequence(v), IsSequence(w),
           IsPrefix(u, v), IsPrefix(v, w)
    PROVE  IsPrefix(u, w)
<1> DEFINE S == {u[i] : i \in DOMAIN u} \cup {v[i] : i \in DOMAIN v} \cup {w[i] : i \in DOMAIN w}
<1>1. /\ {u[i] : i \in DOMAIN u} \subseteq S /\ {v[i] : i \in DOMAIN v} \subseteq S
      /\ {w[i] : i \in DOMAIN w} \subseteq S
  OBVIOUS
<1> HIDE DEF S
<1>2. u \in Seq(S) /\ v \in Seq(S) /\ w \in Seq(S)
  BY <1>1, SeqMonotonic DEF IsSequence
<1>3. QED
  BY <1>2, PrefixTransitive

LEMMA AddedVersion ==
    ASSUME NEW v, IsSequence(v), NEW x
    PROVE  IsSequence(Append(v, x)) /\ IsPrefix(v, Append(v, x))
<1> DEFINE S == {v[i] : i \in DOMAIN v} \cup {x}
<1> DEFINE w == Append(v, x)
<1>1. {v[i] : i \in DOMAIN v} \subseteq S /\ x \in S
  OBVIOUS
<1> HIDE DEF S
<1>2. v \in Seq(S)
  BY <1>1, SeqMonotonic DEF IsSequence
<1>3. w \in Seq(S) /\ IsPrefix(v, w)
  BY <1>1, <1>2, PrefixOfAppend
<1> HIDE DEF w
<1>4. Len(w) \in Nat /\ DOMAIN w = 1 .. Len(w) /\ w \in [1 .. Len(w) -> S]
  BY <1>3, LenProperties
<1>5. w \in [1 .. Len(w) -> {w[i] : i \in DOMAIN w}]
  BY <1>4
<1>6. Seq({w[i] : i \in DOMAIN w}) = UNION {[1 .. n -> {w[i] : i \in DOMAIN w}] : n \in Nat}
  BY SeqDef
<1>7. w \in Seq({w[i] : i \in DOMAIN w})
  BY <1>4, <1>5, <1>6
<1>8. QED
  BY <1>3, <1>7 DEF IsSequence, w

LEMMA NoVersions == IsSequence(<<>>)
BY DEF IsSequence

\* Where a step of the only process leads.
LEMMA GotoShape ==
    ASSUME NEW h, h \in Holders, SkillsShaped(h), NEW place \in Places, at' = [at EXCEPT ![h] = place]
    PROVE  at' \in [Holders -> Places] /\ at'[h] = place
BY DEF SkillsShaped

LEMMA OpShape ==
    ASSUME NEW h, h \in Holders, FcnOn(op, Holders), op' = [op EXCEPT ![h] = op'[h]]
    PROVE  FcnOn(op, Holders)'
BY DEF FcnOn

\* A step that changes neither the copy nor the file, and settles nothing.
LEMMA WalkKeeps ==
    ASSUME NEW h, SInv(h), UNCHANGED <<mem, file, born, acked>>,
           at' \in [Holders -> Places], FcnOn(op, Holders)', UnderWay(h)',
           Settled(h)' \subseteq Settled(h), at'[h] \notin Opening => at[h] \notin Opening
    PROVE  SInv(h)'
<1>1. Stored' = Stored
  BY DEF Stored
<1>2. SkillsShaped(h)'
  BY <1>1 DEF SInv, SkillsShaped, IsRegistry, FcnOn
<1>3. CopyGoesOn(h)' /\ FileKeeps(h)' /\ CopyAgrees(h)'
  BY <1>1 DEF SInv, CopyGoesOn, FileKeeps, CopyAgrees
<1>4. QED
  BY <1>2, <1>3 DEF SInv

LEMMA RefreshKeeps ==
    ASSUME NEW h, Holders = {h}, SInv(h), RefreshStat(h)
    PROVE  SInv(h)'
<1>1. /\ at[h] = "idle" /\ UNCHANGED <<mem, file, tmp, born, acked, refused>>
      /\ \/ UNCHANGED <<at, op>>
         \/ at' = [at EXCEPT ![h] = "reload"] /\ op' = [op EXCEPT ![h] = Nothing]
  BY DEF RefreshStat, Goto, diskVars, ghosts
<1>2. /\ at' \in [Holders -> Places] /\ at'[h] \in {"idle", "reload"} /\ FcnOn(op, Holders)'
  <2>1. CASE UNCHANGED <<at, op>>
    BY <1>1, <2>1 DEF SInv, SkillsShaped, FcnOn
  <2>2. CASE at' = [at EXCEPT ![h] = "reload"] /\ op' = [op EXCEPT ![h] = Nothing]
    BY <2>2 DEF SInv, SkillsShaped, FcnOn, Places
  <2>3. QED
    BY <1>1, <2>1, <2>2
<1>3. UnderWay(h)' /\ Settled(h)' = Settled(h)
  BY <1>1, <1>2 DEF UnderWay, Settled, Saving
<1>4. QED
  BY <1>1, <1>2, <1>3, WalkKeeps DEF Opening

LEMMA OpenReadKeeps ==
    ASSUME NEW h, Holders = {h}, SInv(h), OpenRead(h)
    PROVE  SInv(h)'
<1>1. /\ at[h] \in {"reload", "boot"} /\ UNCHANGED <<mem, file, tmp, born, acked, refused>>
  BY DEF OpenRead, diskVars, ghosts
<1>2. PICK place :
        /\ at' = [at EXCEPT ![h] = place] /\ op' = [op EXCEPT ![h] = op'[h]]
        /\ place \in {"down", "idle"} \/ op'[h].skills = Stored
        /\ place = IF at[h] = "boot" THEN IF place = "down" THEN "down" ELSE "bootstamp"
                   ELSE IF place = "idle" THEN "idle" ELSE "restamp"
  <2>1. FcnOn(op, Holders)
    BY DEF SInv, SkillsShaped
  <2>2. CASE file # NoFile /\ ~ Opens(file.skills)
    BY <1>1, <2>1, <2>2 DEF OpenRead, Goto, FcnOn
  <2>3. CASE ~ (file # NoFile /\ ~ Opens(file.skills))
    <3>1. op'[h].skills = Stored /\ op' = [op EXCEPT ![h] = op'[h]]
      BY <2>1, <2>3 DEF OpenRead, Goto, FcnOn, Stored
    <3>2. at' = [at EXCEPT ![h] = IF at[h] = "boot" THEN "bootstamp" ELSE "restamp"]
      BY <2>3 DEF OpenRead, Goto
    <3>3. QED
      BY <1>1, <3>1, <3>2
  <2>4. QED
    BY <2>2, <2>3
<1>3. /\ at' \in [Holders -> Places] /\ at'[h] = place /\ FcnOn(op, Holders)'
      /\ place \in {"down", "idle", "bootstamp", "restamp"}
      /\ place \notin Opening => at[h] \notin Opening
  <2>1. place \in {"down", "idle", "bootstamp", "restamp"} /\ place \in Places
    BY <1>2 DEF Places, Opening
  <2>2. FcnOn(op, Holders)'
    BY <1>2, OpShape DEF SInv, SkillsShaped
  <2>3. at' \in [Holders -> Places] /\ at'[h] = place
    BY <1>2, <2>1, GotoShape DEF SInv
  <2>4. QED
    BY <1>1, <1>2, <2>1, <2>2, <2>3 DEF Opening
<1>4. Stored' = Stored
  BY <1>1 DEF Stored
<1>5. UnderWay(h)' /\ Settled(h)' = Settled(h)
  BY <1>1, <1>2, <1>3, <1>4 DEF UnderWay, Settled, Saving
<1>6. QED
  BY <1>1, <1>3, <1>5, WalkKeeps

LEMMA OpenStampKeeps ==
    ASSUME NEW h, Holders = {h}, SInv(h), OpenStamp(h)
    PROVE  SInv(h)'
<1>1. /\ at[h] \in {"restamp", "bootstamp"} /\ UNCHANGED <<file, tmp, born, acked, refused>>
      /\ mem' = [mem EXCEPT ![h] = op[h].skills]
      /\ at' = [at EXCEPT ![h] = "idle"] /\ op' = [op EXCEPT ![h] = Nothing]
  BY DEF OpenStamp, Replace, Goto, diskVars, ghosts
<1>2. /\ FcnOn(mem, Holders) /\ FcnOn(op, Holders) /\ FcnOn(acked, Skills)
      /\ IsRegistry(Stored) /\ op[h].skills = Stored /\ born \in Nat
  BY <1>1 DEF SInv, SkillsShaped, UnderWay
<1>3. /\ mem'[h] = Stored /\ FcnOn(mem, Holders)' /\ FcnOn(op, Holders)' /\ Stored' = Stored
  BY <1>1, <1>2 DEF FcnOn, Stored
<1>4. at' \in [Holders -> Places] /\ at'[h] = "idle"
  BY <1>1, GotoShape DEF SInv, Places
<1>5. SkillsShaped(h)'
  BY <1>1, <1>2, <1>3, <1>4 DEF SkillsShaped, IsRegistry, FcnOn
<1>6. UnderWay(h)' /\ Settled(h)' = Settled(h)
  BY <1>1, <1>4 DEF UnderWay, Settled, Saving
<1>7. CopyGoesOn(h)'
  <2>1. \A s \in Skills : Stored[s] # NoEntry => IsPrefix(Stored[s].versions, Stored[s].versions)
    BY <1>2, GoesOnItself DEF IsRegistry, IsEntry
  <2>2. QED
    BY <1>3, <2>1 DEF CopyGoesOn, GoesOn
<1>8. FileKeeps(h)' /\ CopyAgrees(h)'
  BY <1>1, <1>3, <1>6 DEF SInv, FileKeeps, CopyAgrees
<1>9. QED
  BY <1>5, <1>6, <1>7, <1>8 DEF SInv

\* A change of one skill: of the copy, before it is saved or without that it ever
\* will be.
LEMMA ChangeKeeps ==
    ASSUME NEW h, Holders = {h}, SInv(h), at[h] = "idle", NEW s \in Skills,
           mem' = [mem EXCEPT ![h][s] = mem'[h][s]], UNCHANGED <<file, acked>>,
           born' \in Nat, born <= born',
           mem'[h][s] # NoEntry =>
             IsEntry(mem'[h][s]) /\ mem'[h][s].born <= born' /\ GoesOn(Stored[s], mem'[h][s]),
           \/ UNCHANGED <<at, op>> /\ refused' = refused \cup {s}
           \/ Goto(h, "write", s) /\ refused' = refused
    PROVE  SInv(h)'
<1>1. Stored' = Stored
  BY DEF Stored
<1>2. /\ FcnOn(mem, Holders) /\ FcnOn(op, Holders) /\ FcnOn(acked, Skills) /\ FcnOn(mem[h], Skills)
      /\ at \in [Holders -> Places] /\ born \in Nat /\ IsRegistry(mem[h]) /\ IsRegistry(Stored)
  BY DEF SInv, SkillsShaped, IsRegistry
<1>3. /\ FcnOn(mem, Holders)' /\ FcnOn(mem[h], Skills)'
      /\ \A x \in Skills : x # s => mem'[h][x] = mem[h][x]
  <2> DEFINE row == [mem[h] EXCEPT ![s] = mem'[h][s]]
  <2>1. mem' = [mem EXCEPT ![h] = row]
    OBVIOUS
  <2>2. FcnOn(row, Skills) /\ \A x \in Skills : x # s => row[x] = mem[h][x]
    BY <1>2 DEF FcnOn
  <2> HIDE DEF row
  <2>3. FcnOn(mem, Holders)' /\ mem'[h] = row
    BY <1>2, <2>1 DEF FcnOn
  <2>4. QED
    BY <2>2, <2>3 DEF FcnOn
<1>4. IsRegistry(mem[h])'
  <2>1. SUFFICES ASSUME NEW x \in Skills, mem'[h][x] # NoEntry
                 PROVE  IsEntry(mem'[h][x]) /\ mem'[h][x].born <= born'
    BY <1>3 DEF IsRegistry, IsEntry
  <2>2. CASE x = s
    BY <2>1, <2>2
  <2>3. CASE x # s
    <3>1. IsEntry(mem[h][x]) /\ mem[h][x].born <= born /\ mem[h][x].born \in Nat
      BY <1>2, <1>3, <2>1, <2>3 DEF IsRegistry, IsEntry
    <3>2. QED
      BY <1>2, <1>3, <2>3, <3>1
  <2>4. QED
    BY <2>2, <2>3
<1>5. IsRegistry(Stored)'
  <2>1. SUFFICES ASSUME NEW x \in Skills, Stored[x] # NoEntry
                 PROVE  IsEntry(Stored[x]) /\ Stored[x].born <= born'
    BY <1>1, <1>2 DEF IsRegistry, IsEntry, FcnOn
  <2>2. IsEntry(Stored[x]) /\ Stored[x].born <= born /\ Stored[x].born \in Nat
    BY <1>2, <2>1 DEF IsRegistry, IsEntry
  <2>3. QED
    BY <1>2, <2>2
<1>6. /\ at' \in [Holders -> Places] /\ FcnOn(op, Holders)'
      /\ \/ at'[h] = "idle" /\ refused' = refused \cup {s}
         \/ at'[h] = "write" /\ op'[h] = s /\ refused' = refused
  BY <1>2 DEF Goto, FcnOn, Places, Saving
<1>7. UnderWay(h)' /\ Settled(h)' = Settled(h) \ {s}
  BY <1>6 DEF UnderWay, Settled, Saving
<1>8. SkillsShaped(h)'
  BY <1>2, <1>3, <1>4, <1>5, <1>6 DEF SkillsShaped, FcnOn
<1>9. CopyGoesOn(h)'
  BY <1>1, <1>3 DEF SInv, CopyGoesOn, GoesOn
<1>10. FileKeeps(h)' /\ CopyAgrees(h)'
  <2>1. \A x \in Settled(h)' : x \in Settled(h) /\ x # s /\ x \in Skills
    BY <1>7 DEF Settled
  <2>2. at[h] \notin Opening
    BY DEF Opening
  <2>3. QED
    BY <1>1, <1>3, <2>1, <2>2 DEF SInv, FileKeeps, CopyAgrees
<1>11. QED
  BY <1>7, <1>8, <1>9, <1>10 DEF SInv

\* The entry an upload works on is the one there was, or one born now.
LEMMA UploadShape ==
    ASSUME NEW h, SInv(h), NEW s \in Skills
    PROVE  LET e == EntryForUpload(h, s)
           IN /\ IsEntry(e)
              /\ mem[h][s] = NoEntry => e.born = born + 1 /\ e.versions = <<>>
              /\ mem[h][s] # NoEntry => e.born = mem[h][s].born /\ e.versions = mem[h][s].versions
<1>1. born \in Nat /\ (mem[h][s] # NoEntry => IsEntry(mem[h][s]))
  BY DEF SInv, SkillsShaped, IsRegistry
<1>2. CASE mem[h][s] = NoEntry
  BY <1>1, <1>2, NoVersions DEF EntryForUpload, IsEntry
<1>3. CASE mem[h][s] # NoEntry
  <2> DEFINE old == mem[h][s]
  <2>1. /\ old = [born |-> old.born, status |-> old.status, versions |-> old.versions]
        /\ old.born \in Nat /\ IsSequence(old.versions)
    BY <1>1, <1>3 DEF IsEntry
  <2>2. EntryForUpload(h, s) = [old EXCEPT !.status = IF @ = "revoked" THEN @ ELSE "active"]
    BY <1>3 DEF EntryForUpload
  <2> HIDE DEF old
  <2> DEFINE e == [born |-> old.born, versions |-> old.versions,
                   status |-> IF old.status = "revoked" THEN old.status ELSE "active"]
  <2>3. EntryForUpload(h, s) = e
    BY <2>1, <2>2
  <2>4. e.born = old.born /\ e.versions = old.versions /\ IsEntry(e)
    BY <2>1 DEF IsEntry
  <2>5. QED
    BY <1>3, <2>3, <2>4 DEF old
<1>4. QED
  BY <1>2, <1>3

\* An entry that has the versions of the upload's, and maybe more, goes on from
\* the one in the file.
LEMMA UploadGoesOn ==
    ASSUME NEW h, SInv(h), NEW s \in Skills, NEW e, IsEntry(e),
           mem[h][s] = NoEntry => e.born = born + 1,
           mem[h][s] # NoEntry => e.born = mem[h][s].born /\ IsPrefix(mem[h][s].versions, e.versions)
    PROVE  /\ GoesOn(Stored[s], e) /\ e.born \in Nat
           /\ e.born <= IF mem[h][s] = NoEntry THEN born + 1 ELSE born
<1>1. /\ born \in Nat /\ e.born \in Nat /\ IsSequence(e.versions)
      /\ mem[h][s] # NoEntry => IsSequence(mem[h][s].versions) /\ mem[h][s].born <= born
      /\ Stored[s] # NoEntry =>
           IsSequence(Stored[s].versions) /\ Stored[s].born <= born /\ Stored[s].born \in Nat
  BY DEF SInv, SkillsShaped, IsRegistry, IsEntry
<1>2. CASE mem[h][s] = NoEntry
  BY <1>1, <1>2 DEF GoesOn
<1>3. CASE mem[h][s] # NoEntry
  <2>1. GoesOn(Stored[s], mem[h][s])
    BY DEF SInv, CopyGoesOn
  <2>2. Stored[s] # NoEntry /\ Stored[s].born = e.born => IsPrefix(Stored[s].versions, e.versions)
    BY <1>1, <1>3, <2>1, GoesOnFurther DEF GoesOn
  <2>3. QED
    BY <1>1, <1>3, <2>2 DEF GoesOn
<1>4. QED
  BY <1>2, <1>3

LEMMA UploadKeeps ==
    ASSUME NEW h, Holders = {h}, SInv(h), NEW s \in Skills, NEW c, NEW a, Upload(h, s, c, a)
    PROVE  SInv(h)'
<1> DEFINE entry == EntryForUpload(h, s)
<1>1. PICK e : e = entry
  OBVIOUS
<1>2. PICK v : v = [base |-> PatchBase(entry), text |-> c, by |-> a]
  OBVIOUS
<1>3. /\ at[h] = "idle" /\ UNCHANGED <<file, acked>>
      /\ born' = IF mem[h][s] = NoEntry THEN born + 1 ELSE born
      /\ \/ LeaveChanged(h, s, e)
         \/ Change(h, s, [e EXCEPT !.versions = Append(@, v)]) /\ UNCHANGED refused
  BY <1>1, <1>2 DEF Upload, Begin, diskVars
<1>4. /\ IsEntry(e)
      /\ mem[h][s] = NoEntry => e.born = born + 1 /\ e.versions = <<>>
      /\ mem[h][s] # NoEntry => e.born = mem[h][s].born /\ e.versions = mem[h][s].versions
  BY <1>1, UploadShape
<1> HIDE DEF entry
<1>5. FcnOn(mem, Holders) /\ FcnOn(mem[h], Skills) /\ born \in Nat /\ born' \in Nat /\ born <= born'
  BY <1>3 DEF SInv, SkillsShaped, IsRegistry
<1>6. CASE LeaveChanged(h, s, e)
  <2>1. mem' = [mem EXCEPT ![h][s] = e] /\ refused' = refused \cup {s} /\ UNCHANGED <<at, op>>
    BY <1>6 DEF LeaveChanged
  <2>2. mem'[h][s] = e /\ mem' = [mem EXCEPT ![h][s] = mem'[h][s]]
    BY <1>5, <2>1 DEF FcnOn
  <2>3. mem[h][s] # NoEntry => IsPrefix(mem[h][s].versions, e.versions)
    BY <1>4, GoesOnItself DEF IsEntry
  <2>4. GoesOn(Stored[s], e) /\ e.born <= born'
    BY <1>3, <1>4, <2>3, UploadGoesOn
  <2>5. QED
    BY <1>3, <1>4, <1>5, <2>1, <2>2, <2>4, ChangeKeeps
<1>7. CASE Change(h, s, [e EXCEPT !.versions = Append(@, v)]) /\ UNCHANGED refused
  <2>1. PICK n : n = [e EXCEPT !.versions = Append(@, v)]
    OBVIOUS
  <2>2. mem' = [mem EXCEPT ![h][s] = n] /\ Goto(h, "write", s) /\ refused' = refused
    BY <1>7, <2>1 DEF Change
  <2>3. mem'[h][s] = n /\ mem' = [mem EXCEPT ![h][s] = mem'[h][s]]
    BY <1>5, <2>2 DEF FcnOn
  <2>4. PICK w : w = Append(e.versions, v)
    OBVIOUS
  <2>5. IsSequence(w) /\ IsPrefix(e.versions, w)
    BY <1>4, <2>4, AddedVersion DEF IsEntry
  <2>6. n = [born |-> e.born, status |-> e.status, versions |-> w]
    BY <1>4, <2>1, <2>4 DEF IsEntry
  <2>7. IsEntry(n) /\ n.born = e.born /\ n.versions = w
    BY <1>4, <2>5, <2>6 DEF IsEntry
  <2>8. GoesOn(Stored[s], n) /\ n.born <= born'
    BY <1>3, <1>4, <2>5, <2>7, UploadGoesOn
  <2>9. QED
    BY <1>3, <1>5, <2>2, <2>3, <2>7, <2>8, ChangeKeeps
<1>8. QED
  BY <1>3, <1>6, <1>7

LEMMA SetStatusKeeps ==
    ASSUME NEW h, Holders = {h}, SInv(h), NEW s \in Skills, NEW status, SetStatus(h, s, status)
    PROVE  SInv(h)'
<1>1. PICK n : n = [mem[h][s] EXCEPT !.status = status]
  OBVIOUS
<1>2. /\ at[h] = "idle" /\ mem[h][s] # NoEntry /\ UNCHANGED <<file, acked, born>>
      /\ \/ LeaveChanged(h, s, n)
         \/ Change(h, s, n) /\ UNCHANGED refused
  BY <1>1 DEF SetStatus, Begin, diskVars
<1>3. /\ FcnOn(mem, Holders) /\ FcnOn(mem[h], Skills) /\ born \in Nat
      /\ IsEntry(mem[h][s]) /\ mem[h][s].born <= born
  BY <1>2 DEF SInv, SkillsShaped, IsRegistry
<1>4. n = [born |-> mem[h][s].born, status |-> status, versions |-> mem[h][s].versions]
  BY <1>1, <1>3 DEF IsEntry
<1>5. IsEntry(n) /\ n.born = mem[h][s].born /\ n.versions = mem[h][s].versions
  BY <1>3, <1>4 DEF IsEntry
<1>6. IsPrefix(mem[h][s].versions, n.versions)
  BY <1>3, <1>5, GoesOnItself DEF IsEntry
<1>7. GoesOn(Stored[s], n) /\ n.born <= born
  BY <1>2, <1>3, <1>5, <1>6, UploadGoesOn
<1>8. mem' = [mem EXCEPT ![h][s] = n]
  BY <1>2 DEF LeaveChanged, Change
<1>9. mem'[h][s] = n /\ mem' = [mem EXCEPT ![h][s] = mem'[h][s]]
  BY <1>3, <1>8 DEF FcnOn
<1>10. \/ UNCHANGED <<at, op>> /\ refused' = refused \cup {s}
       \/ Goto(h, "write", s) /\ refused' = refused
  BY <1>2 DEF LeaveChanged, Change
<1>11. born' \in Nat /\ born <= born' /\ born' = born
  BY <1>2, <1>3
<1>12. QED
  BY <1>2, <1>5, <1>7, <1>9, <1>10, <1>11, ChangeKeeps

\* A step that changes no more than a counter.
LEMMA NothingKeeps ==
    ASSUME NEW h, SInv(h), UNCHANGED <<mem, at, op, file, tmp, born, acked, refused>>
    PROVE  SInv(h)'
<1>1. at' \in [Holders -> Places] /\ FcnOn(op, Holders)' /\ Stored' = Stored
  BY DEF SInv, SkillsShaped, FcnOn, Stored
<1>2. UnderWay(h)' /\ Settled(h)' = Settled(h)
  BY <1>1 DEF SInv, UnderWay, Settled
<1>3. QED
  BY <1>1, <1>2, WalkKeeps

LEMMA DeleteKeeps ==
    ASSUME NEW h, Holders = {h}, SInv(h), NEW s \in Skills, Delete(h, s)
    PROVE  SInv(h)'
<1>1. /\ at[h] = "idle" /\ UNCHANGED <<file, tmp, acked, born, refused>>
      /\ UNCHANGED <<mem, latest, at, op>> \/ Change(h, s, NoEntry)
  BY DEF Delete, Begin, diskVars, ghosts
<1>2. CASE UNCHANGED <<mem, latest, at, op>>
  BY <1>1, <1>2, NothingKeeps
<1>3. CASE Change(h, s, NoEntry)
  <2>1. FcnOn(mem, Holders) /\ FcnOn(mem[h], Skills) /\ born \in Nat
    BY DEF SInv, SkillsShaped, IsRegistry
  <2>2. mem'[h][s] = NoEntry /\ mem' = [mem EXCEPT ![h][s] = mem'[h][s]]
    BY <1>3, <2>1 DEF Change, FcnOn
  <2>3. Goto(h, "write", s) /\ refused' = refused /\ born' \in Nat /\ born <= born'
    BY <1>1, <1>3, <2>1 DEF Change
  <2>4. QED
    BY <1>1, <2>2, <2>3, ChangeKeeps
<1>4. QED
  BY <1>1, <1>2, <1>3

\* A step between two steps of a save.
LEMMA SavingShape ==
    ASSUME NEW h, Holders = {h}, SInv(h), NEW place \in {"rename", "stamp"}, Goto(h, place, op[h])
    PROVE  /\ at' \in [Holders -> Places] /\ at'[h] = place
           /\ op' = op /\ FcnOn(op, Holders)'
<1>1. FcnOn(op, Holders) /\ at \in [Holders -> Places]
  BY DEF SInv, SkillsShaped
<1>2. op' = op
  BY <1>1 DEF Goto, FcnOn
<1>3. QED
  BY <1>1, <1>2 DEF Goto, FcnOn, Places, Saving

LEMMA PersistWriteKeeps ==
    ASSUME NEW h, Holders = {h}, SInv(h), PersistWrite(h)
    PROVE  SInv(h)'
<1>1. /\ at[h] = "write" /\ UNCHANGED <<mem, file, born, acked, refused>>
      /\ tmp' = [mtime |-> writes + 1, skills |-> mem[h]] /\ Goto(h, "rename", op[h])
  BY DEF PersistWrite, ghosts
<1>2. /\ at' \in [Holders -> Places] /\ at'[h] = "rename" /\ op' = op /\ FcnOn(op, Holders)'
  BY <1>1, SavingShape
<1>3. tmp'.skills = mem'[h]
  BY <1>1
<1>4. UnderWay(h)' /\ Settled(h)' = Settled(h)
  BY <1>1, <1>2, <1>3 DEF SInv, UnderWay, Settled, Saving
<1>5. QED
  BY <1>1, <1>2, <1>4, WalkKeeps DEF Opening

\* The rename makes the file what the copy is.
LEMMA RenameShape ==
    ASSUME NEW h, Holders = {h}, SInv(h), PersistRename(h)
    PROVE  file' # NoFile /\ file'.skills = mem[h] /\ Stored' = mem[h]
<1>1. at[h] = "rename" /\ tmp # NoFile /\ file' = tmp
  BY DEF PersistRename
<1>2. QED
  BY <1>1 DEF SInv, UnderWay, Stored

LEMMA PersistRenameKeeps ==
    ASSUME NEW h, Holders = {h}, SInv(h), PersistRename(h)
    PROVE  SInv(h)'
<1>1. /\ at[h] = "rename" /\ UNCHANGED <<mem, born, acked, refused>> /\ Goto(h, "stamp", op[h])
  BY DEF PersistRename, ghosts
<1>2. /\ at' \in [Holders -> Places] /\ at'[h] = "stamp" /\ op' = op /\ FcnOn(op, Holders)'
  BY <1>1, SavingShape
<1>3. Stored' = mem[h] /\ Stored' = mem'[h]
  BY <1>1, RenameShape
<1>4. UnderWay(h)' /\ Settled(h)' = Settled(h) /\ at[h] \notin Opening
  BY <1>1, <1>2, <1>3 DEF SInv, UnderWay, Settled, Saving, Opening
<1>5. SkillsShaped(h)'
  BY <1>1, <1>2, <1>3 DEF SInv, SkillsShaped, IsRegistry, FcnOn
<1>6. CopyGoesOn(h)'
  <2>1. \A s \in Skills : mem[h][s] # NoEntry => IsSequence(mem[h][s].versions)
    BY DEF SInv, SkillsShaped, IsRegistry, IsEntry
  <2>2. \A s \in Skills : mem[h][s] # NoEntry => IsPrefix(mem[h][s].versions, mem[h][s].versions)
    BY <2>1, GoesOnItself
  <2>3. QED
    BY <1>1, <1>3, <2>2 DEF CopyGoesOn, GoesOn
<1>7. FileKeeps(h)' /\ CopyAgrees(h)'
  BY <1>1, <1>3, <1>4 DEF SInv, FileKeeps, CopyAgrees
<1>8. QED
  BY <1>4, <1>5, <1>6, <1>7 DEF SInv

LEMMA PersistStampKeeps ==
    ASSUME NEW h, Holders = {h}, SInv(h), PersistStamp(h)
    PROVE  SInv(h)'
<1>1. PICK s : s = op[h]
  OBVIOUS
<1>2. /\ at[h] = "stamp" /\ UNCHANGED <<mem, file, tmp, born>>
      /\ acked' = [acked EXCEPT ![s] = mem[h][s]] /\ refused' = refused \ {s}
      /\ at' = [at EXCEPT ![h] = "idle"] /\ op' = [op EXCEPT ![h] = Nothing]
  BY <1>1 DEF PersistStamp, Goto, diskVars
<1>3. /\ s \in Skills /\ Stored = mem[h] /\ FcnOn(acked, Skills) /\ FcnOn(op, Holders)
  BY <1>1, <1>2 DEF SInv, UnderWay, SkillsShaped, Saving
<1>4. /\ at' \in [Holders -> Places] /\ at'[h] = "idle" /\ FcnOn(op, Holders)' /\ FcnOn(acked, Skills)'
      /\ \A x \in Skills : acked'[x] = IF x = s THEN mem[h][s] ELSE acked[x]
  BY <1>2, <1>3, GotoShape DEF FcnOn, SInv, Places
<1>5. Stored' = Stored /\ mem' = mem
  BY <1>2 DEF Stored
<1>6. SkillsShaped(h)'
  BY <1>2, <1>4, <1>5 DEF SInv, SkillsShaped, IsRegistry, FcnOn
<1>7. UnderWay(h)' /\ Settled(h)' = Skills \ (refused \ {s})
  BY <1>2, <1>4 DEF UnderWay, Settled, Saving
<1>8. Settled(h) = Skills \ (refused \cup {s})
  BY <1>1, <1>2 DEF Settled, Saving
<1>9. CopyGoesOn(h)'
  BY <1>5 DEF SInv, CopyGoesOn, GoesOn
<1>10. FileKeeps(h)'
  <2>1. \A x \in Settled(h)' : x \in Skills /\ (x = s \/ x \in Settled(h))
    BY <1>7, <1>8
  <2>2. QED
    BY <1>3, <1>4, <1>5, <2>1 DEF SInv, FileKeeps
<1>11. CopyAgrees(h)'
  BY <1>3, <1>5 DEF CopyAgrees
<1>12. QED
  BY <1>6, <1>7, <1>9, <1>10, <1>11 DEF SInv

LEMMA PersistFailKeeps ==
    ASSUME NEW h, Holders = {h}, SInv(h), PersistFail(h)
    PROVE  SInv(h)'
<1>1. /\ at[h] \in {"write", "rename"} /\ UNCHANGED <<mem, file, tmp, born, acked>>
      /\ refused' = refused \cup {op[h]}
      /\ at' = [at EXCEPT ![h] = "idle"] /\ op' = [op EXCEPT ![h] = Nothing]
  BY DEF PersistFail, Goto, diskVars
<1>2. /\ at' \in [Holders -> Places] /\ at'[h] = "idle" /\ FcnOn(op, Holders)'
  BY <1>1, GotoShape DEF SInv, SkillsShaped, FcnOn, Places
<1>3. UnderWay(h)' /\ Settled(h)' = Settled(h)
  BY <1>1, <1>2 DEF UnderWay, Settled, Saving
<1>4. QED
  BY <1>1, <1>2, <1>3, WalkKeeps DEF Opening

LEMMA SkillCrashKeeps ==
    ASSUME NEW h, Holders = {h}, SInv(h), SkillCrash(h)
    PROVE  SInv(h)'
<1>1. /\ UNCHANGED <<file, tmp, born, acked>>
      /\ refused' = IF at[h] \in Saving THEN refused \cup {op[h]} ELSE refused
      /\ mem' = [mem EXCEPT ![h] = Empty]
      /\ at' = [at EXCEPT ![h] = "boot"] /\ op' = [op EXCEPT ![h] = Nothing]
  BY DEF SkillCrash, Goto, diskVars, Saving
<1>2. /\ at' \in [Holders -> Places] /\ at'[h] = "boot" /\ FcnOn(op, Holders)'
  BY <1>1, GotoShape DEF SInv, SkillsShaped, FcnOn, Places, Opening
<1>3. FcnOn(mem, Holders)' /\ mem'[h] = Empty
  BY <1>1 DEF SInv, SkillsShaped, FcnOn
<1>4. FcnOn(Empty, Skills) /\ \A s \in Skills : Empty[s] = NoEntry
  BY DEF FcnOn, Empty
<1>5. Stored' = Stored
  BY <1>1 DEF Stored
<1>6. SkillsShaped(h)'
  BY <1>1, <1>2, <1>3, <1>4, <1>5 DEF SInv, SkillsShaped, IsRegistry, FcnOn
<1>7. UnderWay(h)' /\ Settled(h)' = Settled(h)
  BY <1>1, <1>2 DEF UnderWay, Settled, Saving
<1>8. CopyGoesOn(h)'
  BY <1>3, <1>4 DEF CopyGoesOn, GoesOn
<1>9. FileKeeps(h)' /\ CopyAgrees(h)'
  BY <1>1, <1>2, <1>5, <1>7 DEF SInv, FileKeeps, CopyAgrees, Opening
<1>10. QED
  BY <1>6, <1>7, <1>8, <1>9 DEF SInv

LEMMA SkillsKeep ==
    ASSUME NEW h, Holders = {h}
    PROVE  SInv(h) /\ [SkillsNext]_skillVars => SInv(h)'
<1> SUFFICES ASSUME SInv(h), [SkillsNext]_skillVars PROVE SInv(h)'
  OBVIOUS
<1>1. ASSUME NEW s \in Skills, NEW c \in Contents, NEW a \in Authors,
             ServerUpload(h, s, c, a) \/ DashboardUpload(h, s, c, a)
      PROVE  SInv(h)'
  BY <1>1, UploadKeeps DEF ServerUpload, DashboardUpload
<1>2. ASSUME NEW s \in Skills, Deprecate(h, s) \/ Revoke(h, s)
      PROVE  SInv(h)'
  BY <1>2, SetStatusKeeps DEF Deprecate, Revoke
<1>3. ASSUME NEW s \in Skills, NotFound(h, s)
      PROVE  SInv(h)'
  BY <1>3, NothingKeeps DEF NotFound, diskVars, ghosts
<1>4. CASE UNCHANGED skillVars
  BY <1>4, NothingKeeps DEF skillVars, procVars, diskVars, ghosts
<1>5. QED
  BY <1>1, <1>2, <1>3, <1>4, RefreshKeeps, OpenReadKeeps, OpenStampKeeps, DeleteKeeps,
     PersistWriteKeeps, PersistRenameKeeps, PersistStampKeeps, PersistFailKeeps, SkillCrashKeeps
     DEF SkillsNext

LEMMA SkillsInvariant ==
    ASSUME NEW h, Holders = {h}
    PROVE  SkillsSpec => []SInv(h)
BY SkillsStart, SkillsKeep, PTL DEF SkillsSpec

\* A daemon that has the registry for itself finds in the file what it acknowledged,
\* but for the skills whose last change failed half way: after failed saves of
\* others, refused uploads and crashes at any step (AckedIsStored).
THEOREM AcknowledgedSkillsStay == ASSUME OneHolder PROVE SkillsSpec => []AckedIsStored
<1>1. PICK h : Holders = {h}
  BY DEF OneHolder
<1>2. SInv(h) => AckedIsStored
  <2>1. SUFFICES ASSUME SInv(h), NEW s \in Skills \ (refused \cup Busy)
                 PROVE  (IF file = NoFile THEN NoEntry ELSE file.skills[s]) = acked[s]
    BY DEF AckedIsStored
  <2>2. s \in Settled(h) /\ s \in Skills
    BY <1>1, <2>1, BusyOfOne
  <2>3. Stored[s] = acked[s]
    BY <2>1, <2>2 DEF SInv, FileKeeps
  <2>4. QED
    BY <2>2, <2>3 DEF Stored, Empty
<1>3. QED
  BY <1>1, <1>2, SkillsInvariant, PTL

\* And it never rewrites a version: a save only adds versions to a skill, unless the
\* skill was deleted and made again (HistoryPreserved).
THEOREM HistoryStays == ASSUME OneHolder PROVE SkillsSpec => HistoryPreserved
<1>1. PICK h : Holders = {h}
  BY DEF OneHolder
<1> DEFINE Kept ==
      file # NoFile /\ file' # NoFile =>
        \A s \in Skills :
            LET old == file.skills[s] new == file'.skills[s]
            IN  old # NoEntry /\ new # NoEntry /\ old.born = new.born
                    => IsPrefix(old.versions, new.versions)
<1>2. SInv(h) /\ [SkillsNext]_skillVars => Kept
  <2>1. SUFFICES ASSUME SInv(h), [SkillsNext]_skillVars, file # NoFile, file' # NoFile,
                        NEW s \in Skills
                 PROVE  GoesOn(file.skills[s], file'.skills[s])
    BY DEF GoesOn
  <2>2. GoesOn(file.skills[s], mem[h][s])
    BY <2>1 DEF SInv, CopyGoesOn, Stored
  <2>3. IsRegistry(file.skills)
    BY <2>1 DEF SInv, SkillsShaped, Stored
  <2>4. GoesOn(file.skills[s], file.skills[s])
    BY <2>3, GoesOnItself DEF GoesOn, IsRegistry, IsEntry
  <2>5. CASE PersistRename(h)
    BY <1>1, <2>1, <2>2, <2>5, RenameShape
  <2>6. CASE file' = file
    BY <2>4, <2>6
  <2>7. PersistRename(h) \/ file' = file
    <3>1. ASSUME NEW x \in Skills, NEW c \in Contents, NEW a \in Authors,
                 ServerUpload(h, x, c, a) \/ DashboardUpload(h, x, c, a)
          PROVE  file' = file
      BY <3>1 DEF ServerUpload, DashboardUpload, Upload, diskVars
    <3>2. ASSUME NEW x \in Skills, Deprecate(h, x) \/ Revoke(h, x) \/ Delete(h, x) \/ NotFound(h, x)
          PROVE  file' = file
      BY <3>2 DEF Deprecate, Revoke, SetStatus, Delete, NotFound, diskVars
    <3>3. ASSUME RefreshStat(h) \/ OpenRead(h) \/ OpenStamp(h) \/ SkillCrash(h)
          PROVE  file' = file
      BY <3>3 DEF RefreshStat, OpenRead, OpenStamp, SkillCrash, diskVars
    <3>4. ASSUME PersistWrite(h) \/ PersistStamp(h) \/ PersistFail(h)
          PROVE  file' = file
      BY <3>4 DEF PersistWrite, PersistStamp, PersistFail, diskVars
    <3>5. CASE UNCHANGED skillVars
      BY <3>5 DEF skillVars, diskVars
    <3>6. QED
      BY <1>1, <2>1, <3>1, <3>2, <3>3, <3>4, <3>5 DEF SkillsNext
  <2>8. QED
    BY <2>5, <2>6, <2>7
<1>3. SInv(h) /\ [SkillsNext]_skillVars => [Kept]_skillVars
  BY <1>2
<1>4. SkillsSpec => [][Kept]_skillVars
  BY <1>1, <1>3, SkillsInvariant, PTL DEF SkillsSpec
<1>5. QED
  BY <1>4 DEF HistoryPreserved

-----------------------------------------------------------------------------
(* The texts and the summaries, whoever has the registry open.               *)

LEMMA LeastVersion ==
    ASSUME NEW T, T \subseteq Nat, T # {}
    PROVE  \E x \in T : \A y \in T : x <= y
<1> DEFINE Less == {p \in Nat \X Nat : p[1] < p[2]}
<1>1. IsWellFoundedOn(Less, Nat)
  BY NatLessThanWellFounded DEF OpToRel
<1>2. \A x, y \in Nat : y < x => <<y, x>> \in Less
  OBVIOUS
<1> HIDE DEF Less
<1>3. \E x \in T : \A y \in T : ~ (<<y, x>> \in Less)
  BY <1>1, WFMin
<1>4. \A x, y \in Nat : ~ (y < x) => x <= y
  OBVIOUS
<1>5. QED
  BY <1>2, <1>3, <1>4

\* Every version is a patch of the one before it, the first is a full text.
Patched(v) ==
    /\ IsSequence(v)
    /\ \A i \in DOMAIN v : v[i].base = IF i = 1 THEN Nothing ELSE v[i - 1].text

SoundEntry(e) ==
    /\ e = [born |-> e.born, status |-> e.status, versions |-> e.versions]
    /\ Patched(e.versions)

SoundRegistry(skills) ==
    /\ FcnOn(skills, Skills)
    /\ \A s \in Skills : skills[s] # NoEntry =>
           SoundEntry(skills[s]) /\ skills[s].versions # <<>>

LEMMA TextIs ==
    ASSUME NEW e, Patched(e.versions), NEW i \in DOMAIN e.versions
    PROVE  TextOf(e, i) = e.versions[i].text
<1>0. PICK v : v = e.versions
  OBVIOUS
<1> DEFINE Fits(f) == f = [n \in 1 .. i |->
                             IF v[n].base \in IF n = 1 THEN {Nothing} ELSE {Nothing, f[n - 1]}
                             THEN v[n].text ELSE Nothing]
           U == CHOOSE f : Fits(f)
           g == [n \in 1 .. i |-> v[n].text]
<1>1. DOMAIN v = 1 .. Len(v) /\ Len(v) \in Nat /\ i \in 1 .. Len(v)
      /\ \A n \in DOMAIN v : v[n].base = IF n = 1 THEN Nothing ELSE v[n - 1].text
  BY <1>0 DEF Patched, IsSequence
<1>2. v # <<>>
  BY <1>1
<1>3. TextOf(e, i) = U[i]
  BY <1>0, <1>2 DEF TextOf
<1>4. \A n \in 1 .. i : n \in DOMAIN v /\ (n # 1 => n - 1 \in 1 .. i)
  BY <1>1
<1>5. Fits(g)
  <2>1. \A n \in 1 .. i : v[n].base \in IF n = 1 THEN {Nothing} ELSE {Nothing, g[n - 1]}
    BY <1>1, <1>4
  <2>2. g = [n \in 1 .. i |->
               IF v[n].base \in IF n = 1 THEN {Nothing} ELSE {Nothing, g[n - 1]}
               THEN v[n].text ELSE Nothing]
    BY <2>1
  <2>3. QED
    BY <2>2
<1>6. Fits(U)
  <2> HIDE DEF Fits
  <2>1. QED
    BY <1>5
<1> HIDE DEF U, g
<1>7. \A n \in 1 .. i : U[n] = IF v[n].base \in IF n = 1 THEN {Nothing} ELSE {Nothing, U[n - 1]}
                              THEN v[n].text ELSE Nothing
  BY <1>6
<1> HIDE DEF Fits
<1> DEFINE T == {n \in 1 .. i : U[n] # v[n].text}
<1>8. T = {}
  <2>1. SUFFICES ASSUME T # {} PROVE FALSE
    OBVIOUS
  <2>2. T \subseteq Nat
    OBVIOUS
  <2>3. PICK n \in T : \A x \in T : n <= x
    <3> HIDE DEF T
    <3>1. QED
      BY <2>1, <2>2, LeastVersion
  <2>4. n \in 1 .. i /\ U[n] # v[n].text
    OBVIOUS
  <2>5. n # 1 => U[n - 1] = v[n - 1].text
    BY <1>4, <2>3, <2>4
  <2>6. QED
    BY <1>1, <1>4, <1>7, <2>4, <2>5
<1>9. i \in 1 .. i
  BY <1>1
<1>10. U[i] = v[i].text
  BY <1>8, <1>9
<1>11. QED
  BY <1>0, <1>3, <1>10

\* What is sound can be opened.
LEMMA SoundOpens == ASSUME NEW skills, SoundRegistry(skills) PROVE Opens(skills)
BY TextIs DEF Opens, SoundRegistry, SoundEntry

LEMMA OneMoreVersion ==
    ASSUME NEW e, Patched(e.versions), NEW c, NEW a
    PROVE  /\ Patched(Append(e.versions, [base |-> PatchBase(e), text |-> c, by |-> a]))
           /\ Append(e.versions, [base |-> PatchBase(e), text |-> c, by |-> a]) # <<>>
<1>0. PICK v, b : v = e.versions /\ b = PatchBase(e)
  OBVIOUS
<1>1. PICK x : x = [base |-> b, text |-> c, by |-> a]
  OBVIOUS
<1>2. PICK w : w = Append(v, x)
  OBVIOUS
<1>3. IsSequence(v) /\ Patched(v)
  BY <1>0 DEF Patched
<1>4. DOMAIN v = 1 .. Len(v) /\ Len(v) \in Nat
  BY <1>3 DEF IsSequence
<1>5. /\ DOMAIN w = 1 .. Len(v) + 1
      /\ \A i \in 1 .. Len(v) : w[i] = v[i]
      /\ w[Len(v) + 1] = x
  BY <1>2, <1>3 DEF IsSequence
<1>6. IsSequence(w)
  BY <1>2, <1>3, AddedVersion
<1>7. PICK n \in Nat : n = Len(v)
  BY <1>4
<1>8. b = IF n = 0 THEN Nothing ELSE v[n].text
  <2>1. CASE n = 0
    <3>1. v = <<>>
      <4>1. PICK S : v \in Seq(S)
        BY <1>3 DEF IsSequence
      <4>2. QED
        BY <4>1, <1>7, <2>1, EmptySeq
    <3>2. QED
      BY <1>0, <2>1, <3>1 DEF PatchBase
  <2>2. CASE n # 0
    <3>1. v # <<>> /\ n \in DOMAIN v
      BY <1>4, <1>7, <2>2
    <3>2. TextOf(e, n) = v[n].text
      BY <1>0, <3>1, TextIs
    <3>3. QED
      BY <1>0, <1>7, <2>2, <3>1, <3>2 DEF PatchBase
  <2>3. QED
    BY <2>1, <2>2
<1>9. \A i \in 1 .. n : v[i].base = IF i = 1 THEN Nothing ELSE v[i - 1].text
  BY <1>3, <1>4, <1>7 DEF Patched
<1>10. \A i \in DOMAIN w : w[i].base = IF i = 1 THEN Nothing ELSE w[i - 1].text
  <2>1. SUFFICES ASSUME NEW i \in 1 .. n + 1
                 PROVE  w[i].base = IF i = 1 THEN Nothing ELSE w[i - 1].text
    BY <1>5, <1>7
  <2>2. CASE i = n + 1
    <3>1. w[i] = x /\ x.base = b
      BY <1>1, <1>5, <1>7, <2>2
    <3>2. i # 1 => i - 1 \in 1 .. n /\ i - 1 = n
      BY <2>2
    <3>3. i # 1 => w[i - 1] = v[n]
      BY <1>5, <1>7, <3>2
    <3>4. i = 1 <=> n = 0
      BY <2>2
    <3>5. QED
      BY <1>8, <3>1, <3>3, <3>4
  <2>3. CASE i # n + 1
    <3>1. i \in 1 .. n /\ (i # 1 => i - 1 \in 1 .. n)
      BY <2>3
    <3>2. w[i] = v[i] /\ (i # 1 => w[i - 1] = v[i - 1])
      BY <1>5, <1>7, <3>1
    <3>3. QED
      BY <1>9, <3>1, <3>2
  <2>4. QED
    BY <2>2, <2>3
<1>11. w # <<>>
  BY <1>5, <1>4
<1>12. QED
  BY <1>0, <1>1, <1>2, <1>6, <1>10, <1>11 DEF Patched

\* What is in a copy and in a file, and what a copy's summaries say.
CopySound(h) ==
    /\ SoundRegistry(mem[h])
    /\ latest[h] = Summaries(mem[h])
    /\ at[h] \in {"restamp", "bootstamp"} => SoundRegistry(op[h].skills)

FilesSound ==
    /\ file # NoFile => SoundRegistry(file.skills)
    /\ tmp # NoFile => SoundRegistry(tmp.skills)

RInv ==
    /\ FcnOn(mem, Holders) /\ FcnOn(latest, Holders) /\ FcnOn(at, Holders) /\ FcnOn(op, Holders)
    /\ FilesSound
    /\ \A h \in Holders : CopySound(h)

LEMMA EmptySound == SoundRegistry(Empty) /\ Summaries(Empty) = Empty
<1>1. \A s \in Skills : Empty[s] = NoEntry
  BY DEF Empty
<1>2. Empty = [s \in Skills |-> Empty[s]]
  BY DEF Empty
<1>3. Summaries(Empty) = Empty
  BY <1>1 DEF Summaries, Empty
<1>4. QED
  BY <1>1, <1>2, <1>3 DEF SoundRegistry, FcnOn

LEMMA RegistryStarts == SkillsInit => RInv
<1> SUFFICES ASSUME SkillsInit PROVE RInv
  OBVIOUS
<1>1. FcnOn(mem, Holders) /\ FcnOn(latest, Holders) /\ FcnOn(at, Holders) /\ FcnOn(op, Holders)
  BY DEF SkillsInit, FcnOn
<1>2. \A h \in Holders : mem[h] = Empty /\ latest[h] = Empty /\ at[h] = "boot"
  BY DEF SkillsInit
<1>3. FilesSound
  BY DEF SkillsInit, FilesSound
<1>4. QED
  BY <1>1, <1>2, <1>3, EmptySound DEF RInv, CopySound

\* A step of one process that leaves its copy alone, and the files or what is read.
LEMMA OthersSound ==
    ASSUME RInv, NEW h \in Holders,
           FcnOn(mem, Holders)', FcnOn(latest, Holders)', FcnOn(at, Holders)', FcnOn(op, Holders)',
           FilesSound', CopySound(h)',
           \A x \in Holders \ {h} :
              mem'[x] = mem[x] /\ latest'[x] = latest[x] /\ at'[x] = at[x] /\ op'[x] = op[x]
    PROVE  RInv'
<1>1. \A x \in Holders : CopySound(x)'
  <2>1. SUFFICES ASSUME NEW x \in Holders \ {h} PROVE CopySound(x)'
    OBVIOUS
  <2>2. CopySound(x)
    BY DEF RInv
  <2>3. mem'[x] = mem[x] /\ latest'[x] = latest[x] /\ at'[x] = at[x] /\ op'[x] = op[x]
    OBVIOUS
  <2>4. QED
    BY <2>2, <2>3 DEF CopySound
<1>2. QED
  BY <1>1 DEF RInv

LEMMA GotoIs ==
    ASSUME RInv, NEW h \in Holders, NEW place, NEW what, Goto(h, place, what)
    PROVE  /\ FcnOn(at, Holders)' /\ FcnOn(op, Holders)' /\ at'[h] = place /\ op'[h] = what
           /\ \A x \in Holders \ {h} : at'[x] = at[x] /\ op'[x] = op[x]
BY DEF RInv, FcnOn, Goto

LEMMA RefreshSound == ASSUME RInv, NEW h \in Holders, RefreshStat(h) PROVE RInv'
<1>1. UNCHANGED <<mem, latest, file, tmp>>
  BY DEF RefreshStat, diskVars
<1>2. FcnOn(mem, Holders)' /\ FcnOn(latest, Holders)' /\ FilesSound'
  BY <1>1 DEF RInv, FcnOn, FilesSound
<1>3. CASE UNCHANGED <<at, op>>
  BY <1>1, <1>3 DEF RInv, FcnOn, FilesSound, CopySound
<1>4. CASE Goto(h, "reload", Nothing)
  <2>1. CopySound(h)'
    BY <1>1, <1>4, GotoIs DEF RInv, CopySound
  <2>2. QED
    BY <1>1, <1>2, <1>4, <2>1, GotoIs, OthersSound
<1>5. QED
  BY <1>3, <1>4 DEF RefreshStat

LEMMA OpenReadSound == ASSUME RInv, NEW h \in Holders, OpenRead(h) PROVE RInv'
<1>1. UNCHANGED <<mem, latest, file, tmp>>
  BY DEF OpenRead, diskVars
<1>2. FcnOn(mem, Holders)' /\ FcnOn(latest, Holders)' /\ FilesSound'
  BY <1>1 DEF RInv, FcnOn, FilesSound
<1>3. \/ \E place \in {"down", "idle"} : Goto(h, place, Nothing)
      \/ \E place \in {"bootstamp", "restamp"} :
            Goto(h, place, IF file = NoFile THEN [skills |-> Empty, exists |-> FALSE]
                                            ELSE [skills |-> file.skills, exists |-> TRUE])
  BY DEF OpenRead
<1>4. PICK place, what : Goto(h, place, what) /\ (place \in {"restamp", "bootstamp"} => SoundRegistry(what.skills))
  <2>1. CASE \E place \in {"down", "idle"} : Goto(h, place, Nothing)
    BY <2>1
  <2>2. CASE file = NoFile /\ \E place \in {"bootstamp", "restamp"} : Goto(h, place, [skills |-> Empty, exists |-> FALSE])
    <3>1. [skills |-> Empty, exists |-> FALSE].skills = Empty
      OBVIOUS
    <3>2. QED
      BY <2>2, <3>1, EmptySound
  <2>3. CASE file # NoFile /\ \E place \in {"bootstamp", "restamp"} : Goto(h, place, [skills |-> file.skills, exists |-> TRUE])
    <3>1. [skills |-> file.skills, exists |-> TRUE].skills = file.skills
      OBVIOUS
    <3>2. QED
      BY <2>3, <3>1 DEF RInv, FilesSound
  <2>4. QED
    BY <1>3, <2>1, <2>2, <2>3
<1>5. /\ FcnOn(at, Holders)' /\ FcnOn(op, Holders)' /\ at'[h] = place /\ op'[h] = what
      /\ \A x \in Holders \ {h} : at'[x] = at[x] /\ op'[x] = op[x]
  BY <1>4, GotoIs
<1>6. CopySound(h)'
  BY <1>1, <1>4, <1>5 DEF RInv, CopySound
<1>7. QED
  BY <1>1, <1>2, <1>5, <1>6, OthersSound

LEMMA OpenStampSound == ASSUME RInv, NEW h \in Holders, OpenStamp(h) PROVE RInv'
<1>1. /\ at[h] \in {"restamp", "bootstamp"} /\ UNCHANGED <<file, tmp>> /\ Goto(h, "idle", Nothing)
      /\ mem' = [mem EXCEPT ![h] = op[h].skills]
      /\ latest' = [latest EXCEPT ![h] = Summaries(op[h].skills)]
  BY DEF OpenStamp, Replace, diskVars
<1>2. FcnOn(mem, Holders)' /\ FcnOn(latest, Holders)'
      /\ mem'[h] = op[h].skills /\ latest'[h] = Summaries(mem'[h])
      /\ \A x \in Holders \ {h} : mem'[x] = mem[x] /\ latest'[x] = latest[x]
  BY <1>1 DEF RInv, FcnOn
<1>3. FilesSound'
  BY <1>1 DEF RInv, FilesSound
<1>4. CopySound(h)'
  BY <1>1, <1>2, GotoIs DEF RInv, CopySound
<1>5. QED
  BY <1>1, <1>2, <1>3, <1>4, GotoIs, OthersSound

\* A change of one entry: the copy is sound and its summaries follow it.
LEMMA ChangeSound ==
    ASSUME RInv, NEW h \in Holders, NEW s \in Skills, NEW entry, Change(h, s, entry),
           entry # NoEntry => SoundEntry(entry) /\ entry.versions # <<>>, UNCHANGED <<file, tmp>>
    PROVE  RInv'
<1>1. /\ mem' = [mem EXCEPT ![h][s] = entry] /\ Goto(h, "write", s)
      /\ latest' = [latest EXCEPT ![h][s] = IF entry = NoEntry THEN NoEntry ELSE Summarize(entry)]
  BY DEF Change
<1>2. PICK old, summary : old = mem[h] /\ summary = IF entry = NoEntry THEN NoEntry ELSE Summarize(entry)
  OBVIOUS
<1>3. SoundRegistry(old) /\ latest[h] = Summaries(old) /\ FcnOn(mem, Holders) /\ FcnOn(latest, Holders)
  BY <1>2 DEF RInv, CopySound
<1>4. PICK new : new = [old EXCEPT ![s] = entry]
  OBVIOUS
<1>5. new = [x \in Skills |-> IF x = s THEN entry ELSE old[x]]
  BY <1>3, <1>4 DEF SoundRegistry, FcnOn
<1>6. /\ mem' = [x \in Holders |-> IF x = h THEN new ELSE mem[x]]
      /\ latest' = [x \in Holders |-> IF x = h THEN [latest[h] EXCEPT ![s] = summary] ELSE latest[x]]
  BY <1>1, <1>2, <1>3, <1>4 DEF FcnOn
<1>7. SoundRegistry(new)
  BY <1>3, <1>5 DEF SoundRegistry, FcnOn
<1>8. [latest[h] EXCEPT ![s] = summary] = Summaries(new)
  <2>1. Summaries(new) = [x \in Skills |-> IF x = s THEN summary ELSE Summaries(old)[x]]
    BY <1>2, <1>5 DEF Summaries
  <2>2. Summaries(old) = [x \in Skills |-> Summaries(old)[x]]
    BY DEF Summaries
  <2>3. QED
    BY <1>3, <2>1, <2>2
<1>9. FcnOn(mem, Holders)' /\ FcnOn(latest, Holders)' /\ mem'[h] = new /\ latest'[h] = Summaries(new)
      /\ \A x \in Holders \ {h} : mem'[x] = mem[x] /\ latest'[x] = latest[x]
  BY <1>6, <1>8 DEF FcnOn
<1>10. CopySound(h)'
  BY <1>1, <1>7, <1>9, GotoIs DEF CopySound
<1>11. FilesSound'
  BY DEF RInv, FilesSound
<1>12. QED
  BY <1>1, <1>9, <1>10, <1>11, GotoIs, OthersSound

LEMMA UploadSound ==
    ASSUME RInv, NEW h \in Holders, NEW s \in Skills, NEW c, NEW a, Upload(h, s, c, a), ~ blanked'
    PROVE  RInv'
<1>1. PICK entry : entry = EntryForUpload(h, s)
  OBVIOUS
<1>2. Change(h, s, [entry EXCEPT !.versions = Append(@, [base |-> PatchBase(entry), text |-> c, by |-> a])])
      /\ UNCHANGED <<file, tmp>>
  BY <1>1 DEF Upload, LeaveChanged, diskVars
<1>3. SoundEntry(entry)
  <2>1. CASE mem[h][s] = NoEntry
    <3>1. entry = [born |-> born + 1, status |-> "active", versions |-> <<>>]
      BY <1>1, <2>1 DEF EntryForUpload
    <3>2. Patched(<<>>)
      BY DEF Patched, IsSequence
    <3>3. QED
      BY <3>1, <3>2 DEF SoundEntry
  <2>2. CASE mem[h][s] # NoEntry
    <3>1. PICK e : e = mem[h][s]
      OBVIOUS
    <3>2. SoundEntry(e)
      BY <2>2, <3>1 DEF RInv, CopySound, SoundRegistry
    <3>3. e = [born |-> e.born, status |-> e.status, versions |-> e.versions]
      BY <3>2 DEF SoundEntry
    <3>4. \E st : entry = [e EXCEPT !.status = st, !.status = st]
      BY <1>1, <2>2, <3>1, <3>3 DEF EntryForUpload
    <3>5. \E st : entry = [born |-> e.born, status |-> st, versions |-> e.versions]
      BY <3>3, <3>4
    <3>6. QED
      BY <3>2, <3>5 DEF SoundEntry
  <2>3. QED
    BY <2>1, <2>2
<1>4. PICK versions : versions = Append(entry.versions, [base |-> PatchBase(entry), text |-> c, by |-> a])
  OBVIOUS
<1>5. Patched(versions) /\ versions # <<>>
  BY <1>3, <1>4, OneMoreVersion DEF SoundEntry
<1>6. PICK new : new = [born |-> entry.born, status |-> entry.status, versions |-> versions]
  OBVIOUS
<1>7. Change(h, s, new)
  <2>1. PICK x : x = [base |-> PatchBase(entry), text |-> c, by |-> a]
    OBVIOUS
  <2>2. Change(h, s, [entry EXCEPT !.versions = Append(@, x)]) /\ versions = Append(entry.versions, x)
    BY <1>2, <1>4, <2>1
  <2>3. Change(h, s, [entry EXCEPT !.versions = versions])
    BY <2>2
  <2>4. [entry EXCEPT !.versions = versions] = new
    BY <1>3, <1>6 DEF SoundEntry
  <2>5. QED
    BY <2>3, <2>4
<1>8. SoundEntry(new) /\ new.versions # <<>>
  BY <1>5, <1>6 DEF SoundEntry
<1>9. QED
  BY <1>2, <1>7, <1>8, ChangeSound

LEMMA SetStatusSound ==
    ASSUME RInv, NEW h \in Holders, NEW s \in Skills, NEW st, SetStatus(h, s, st)
    PROVE  RInv'
<1>1. PICK e : e = mem[h][s]
  OBVIOUS
<1>2. e # NoEntry /\ UNCHANGED <<file, tmp>>
  BY <1>1 DEF SetStatus, diskVars
<1>3. SoundEntry(e) /\ e.versions # <<>>
  BY <1>1, <1>2 DEF RInv, CopySound, SoundRegistry
<1>4. PICK new : new = [e EXCEPT !.status = st]
  OBVIOUS
<1>5. new = [born |-> e.born, status |-> st, versions |-> e.versions]
  BY <1>3, <1>4 DEF SoundEntry
<1>6. SoundEntry(new) /\ new.versions # <<>>
  BY <1>3, <1>5 DEF SoundEntry
<1>7. Change(h, s, new)
  BY <1>1, <1>4, <1>6 DEF SetStatus
<1>8. QED
  BY <1>2, <1>6, <1>7, ChangeSound

LEMMA DeleteSound == ASSUME RInv, NEW h \in Holders, NEW s \in Skills, Delete(h, s) PROVE RInv'
<1>1. UNCHANGED <<file, tmp>>
  BY DEF Delete, diskVars
<1>2. CASE UNCHANGED <<mem, latest, at, op>>
  BY <1>1, <1>2 DEF RInv, FcnOn, FilesSound, CopySound
<1>3. CASE Change(h, s, NoEntry)
  BY <1>1, <1>3, ChangeSound
<1>4. QED
  BY <1>2, <1>3 DEF Delete

\* A step that only goes on to another place of a save or a crash.
LEMMA GoSound ==
    ASSUME RInv, NEW h \in Holders, NEW place, NEW what, Goto(h, place, what),
           place \notin {"restamp", "bootstamp"}, UNCHANGED <<mem, latest>>, FilesSound'
    PROVE  RInv'
<1>1. FcnOn(mem, Holders)' /\ FcnOn(latest, Holders)'
  BY DEF RInv, FcnOn
<1>2. CopySound(h)'
  BY GotoIs DEF RInv, CopySound
<1>3. QED
  BY <1>1, <1>2, GotoIs, OthersSound

LEMMA SaveSound ==
    ASSUME RInv, NEW h \in Holders,
           PersistWrite(h) \/ PersistRename(h) \/ PersistStamp(h) \/ PersistFail(h)
    PROVE  RInv'
<1>1. CASE PersistWrite(h)
  <2>1. tmp' = [mtime |-> writes + 1, skills |-> mem[h]] /\ file' = file
    BY <1>1 DEF PersistWrite
  <2>2. tmp'.skills = mem[h]
    BY <2>1
  <2>3. SoundRegistry(mem[h])
    BY DEF RInv, CopySound
  <2>4. FilesSound'
    BY <2>1, <2>2, <2>3 DEF RInv, FilesSound
  <2>5. QED
    BY <1>1, <2>4, GoSound DEF PersistWrite
<1>2. CASE PersistRename(h)
  <2>1. FilesSound'
    BY <1>2 DEF PersistRename, RInv, FilesSound
  <2>2. QED
    BY <1>2, <2>1, GoSound DEF PersistRename
<1>3. CASE PersistStamp(h)
  <2>1. FilesSound'
    BY <1>3 DEF PersistStamp, RInv, FilesSound, diskVars
  <2>2. QED
    BY <1>3, <2>1, GoSound DEF PersistStamp
<1>4. CASE PersistFail(h)
  <2>1. FilesSound'
    BY <1>4 DEF PersistFail, RInv, FilesSound, diskVars
  <2>2. QED
    BY <1>4, <2>1, GoSound DEF PersistFail
<1>5. QED
  BY <1>1, <1>2, <1>3, <1>4

LEMMA CrashSound == ASSUME RInv, NEW h \in Holders, SkillCrash(h) PROVE RInv'
<1>1. /\ mem' = [mem EXCEPT ![h] = Empty] /\ latest' = [latest EXCEPT ![h] = Empty]
      /\ Goto(h, "boot", Nothing) /\ UNCHANGED <<file, tmp>>
  BY DEF SkillCrash, diskVars
<1>2. FcnOn(mem, Holders)' /\ FcnOn(latest, Holders)' /\ mem'[h] = Empty /\ latest'[h] = Empty
      /\ \A x \in Holders \ {h} : mem'[x] = mem[x] /\ latest'[x] = latest[x]
  BY <1>1 DEF RInv, FcnOn
<1>3. FilesSound'
  BY <1>1 DEF RInv, FilesSound
<1>4. CopySound(h)'
  BY <1>1, <1>2, EmptySound, GotoIs DEF CopySound
<1>5. QED
  BY <1>1, <1>2, <1>3, <1>4, GotoIs, OthersSound

\* Until an upload was refused for its uploader, every step keeps copies and files sound.
LEMMA RegistryKeeps == (blanked \/ RInv) /\ [SkillsNext]_skillVars => (blanked \/ RInv)'
<1> SUFFICES ASSUME blanked \/ RInv, [SkillsNext]_skillVars, ~ blanked' PROVE RInv'
  OBVIOUS
<1>1. CASE UNCHANGED skillVars
  BY <1>1 DEF skillVars, procVars, diskVars, ghosts, RInv, FcnOn, FilesSound, CopySound
<1>2. CASE SkillsNext
  <2>1. PICK h \in Holders :
          \/ RefreshStat(h) \/ OpenRead(h) \/ OpenStamp(h)
          \/ \E s \in Skills :
                 \/ \E c \in Contents, a \in Authors : Upload(h, s, c, a)
                 \/ \E st : SetStatus(h, s, st)
                 \/ Delete(h, s) \/ NotFound(h, s)
          \/ PersistWrite(h) \/ PersistRename(h) \/ PersistStamp(h) \/ PersistFail(h)
          \/ SkillCrash(h)
    BY <1>2 DEF SkillsNext, ServerUpload, DashboardUpload, Deprecate, Revoke
  <2>2. ~ blanked
    <3>1. ASSUME NEW s \in Skills, NEW c, NEW a, Upload(h, s, c, a) PROVE ~ blanked
      BY <3>1 DEF Upload, LeaveChanged
    <3>2. ASSUME NEW s \in Skills, NEW st, SetStatus(h, s, st) PROVE ~ blanked
      BY <3>2 DEF SetStatus, LeaveChanged
    <3>3. ASSUME NEW s \in Skills, Delete(h, s) \/ NotFound(h, s) PROVE ~ blanked
      BY <3>3 DEF Delete, NotFound, ghosts
    <3>4. ASSUME RefreshStat(h) \/ OpenRead(h) \/ OpenStamp(h) PROVE ~ blanked
      BY <3>4 DEF RefreshStat, OpenRead, OpenStamp, ghosts
    <3>5. ASSUME PersistWrite(h) \/ PersistRename(h) \/ PersistStamp(h) \/ PersistFail(h) \/ SkillCrash(h)
          PROVE  ~ blanked
      BY <3>5 DEF PersistWrite, PersistRename, PersistStamp, PersistFail, SkillCrash, ghosts
    <3>6. QED
      BY <2>1, <3>1, <3>2, <3>3, <3>4, <3>5
  <2>3. RInv
    BY <2>2
  <2>4. ASSUME NEW s \in Skills, NotFound(h, s) PROVE RInv'
    BY <2>3, <2>4 DEF NotFound, diskVars, RInv, FcnOn, FilesSound, CopySound
  <2>5. QED
    BY <2>1, <2>3, <2>4, RefreshSound, OpenReadSound, OpenStampSound, UploadSound, SetStatusSound,
       DeleteSound, SaveSound, CrashSound
<1>3. QED
  BY <1>1, <1>2

\* However many processes share the file, and whatever failed on the way: the file
\* can be opened, and what list and search answer from is what the entries say, as
\* long as no upload was refused for its uploader (RegistryIsSound).
THEOREM RegistryStaysSound == SkillsSpec => []RegistryIsSound
<1>1. (blanked \/ RInv) => RegistryIsSound
  BY SoundOpens DEF RInv, FilesSound, CopySound, RegistryIsSound
<1>2. SkillsInit => blanked \/ RInv
  BY RegistryStarts
<1>3. QED
  BY RegistryKeeps, <1>1, <1>2, PTL DEF SkillsSpec
===============================================================================
