----------------------------- MODULE ServerProofs -----------------------------
(***************************************************************************)
(* Proofs about the parts the HTTP server is made of, for every value of   *)
(* the constants: the registry of webhooks on the disk (WebhookRegistry),  *)
(* their circuit breaker (WebhookDelivery), how long the body of a request *)
(* can last and what it must keep delivering (BodyMeter), how long the     *)
(* proof of a signed read stays spent (NonceCache), and that the budget of *)
(* bodies neither leaks nor is handed out twice (BodyBudget).              *)
(***************************************************************************)
EXTENDS WebhookRegistry, WebhookDelivery, BodyMeter, NonceCache, BodyBudget, TLAPS,
        FiniteSetTheorems

-----------------------------------------------------------------------------
(* The registry.  Once two saves have overlapped nothing is promised any   *)
(* more, so everything the invariant says it says while none has.          *)

CallerStates == {"idle", "save", "exists", "remove", "open", "write", "rename", "cleanup"}

\* No two requests are saving, and an idle one is as it was at the start.
OneSaves ==
    /\ caller \in [Callers -> [pc : CallerStates, op : {"none", "register", "delete"},
                               id : Ids \cup {"none"}, snapshot : SUBSET Ids,
                               file : Files \cup {NoHookFile}]]
    /\ \A c, d \in Callers : caller[c].pc = "idle" \/ caller[d].pc = "idle" \/ c = d
    /\ \A c \in Callers : caller[c].pc \notin {"write", "rename"} => caller[c].file = NoHookFile

\* The two names are names of different files, and the registry can be read.
DiskTyped ==
    /\ temp \in Files \cup {NoHookFile} /\ path \in Files \cup {NoHookFile}
    /\ temp # NoHookFile => temp # path
    /\ content \in [Files -> [text : {"empty", "list", "garbled"}, ids : SUBSET Ids]]
    /\ Readable

\* The list in memory is as good as the one on the disk.
BothLists ==
    /\ memory \subseteq used /\ Stored \subseteq used /\ used \subseteq Ids
    /\ registered \subseteq used /\ deleted \subseteq used
    /\ registered \ touched \subseteq memory \cap Stored
    /\ deleted \cap (memory \cup Stored) = {}

\* The save that is under way writes the list in memory to a file of its own.
SaveSound(c) ==
    LET r == caller[c]
    IN  /\ r.pc = "idle" <=> r.op = "none"
        /\ r.op # "none" => r.id \in used
        /\ r.op = "register" => r.id \in memory \ deleted
        /\ r.op = "delete" => r.id \in touched \ memory
        /\ r.pc \in {"exists", "remove", "open", "write", "rename"} => r.snapshot = memory
        /\ r.pc = "open" => temp = NoHookFile
        /\ r.pc \in {"write", "rename"} => temp # NoHookFile /\ r.file = temp
        /\ r.pc = "write" => content[temp] = NoHooks
        /\ r.pc = "rename" => content[temp] = List(memory)
        /\ r.pc # "cleanup"

HBody == OneSaves /\ DiskTyped /\ BothLists /\ \A c \in Callers : SaveSound(c)
HInv == ordered => HBody

-----------------------------------------------------------------------------

LEMMA FilesThere ==
    /\ Files \subseteq Nat \ {0} /\ \A n \in {1, 2} : n \in Files
    /\ NoHookFile \notin Files
<1>1. Cardinality(Callers) \in Nat
  BY ConstantAssumption, FS_CardinalityType
<1>2. QED
  BY <1>1 DEF Files, NoHookFile

Entry == [pc : CallerStates, op : {"none", "register", "delete"}, id : Ids \cup {"none"},
          snapshot : SUBSET Ids, file : Files \cup {NoHookFile}]

LEMMA IdleShape ==
    /\ IdleCaller \in Entry /\ IdleCaller.pc = "idle" /\ IdleCaller.op = "none" /\ IdleCaller.file = NoHookFile
    /\ IdleCaller.snapshot = {}
BY DEF IdleCaller, Entry, CallerStates

\* An idle request is sound whatever the lists are.
LEMMA IdleSound ==
    ASSUME NEW c \in Callers, caller[c].pc = "idle", caller[c].op = "none"
    PROVE  SaveSound(c)
BY DEF SaveSound

LEMMA IdleSoundNext ==
    ASSUME NEW c \in Callers, caller'[c].pc = "idle", caller'[c].op = "none"
    PROVE  SaveSound(c)'
BY DEF SaveSound

\* A step of the request that is saving.
LEMMA CallerStep ==
    ASSUME HBody, NEW c \in Callers, caller[c].pc # "idle", NEW new \in Entry,
           caller' = [caller EXCEPT ![c] = new],
           new.pc \notin {"write", "rename"} => new.file = NoHookFile
    PROVE  /\ OneSaves' /\ caller'[c] = new
           /\ \A d \in Callers \ {c} : SaveSound(d)'
<1>1. caller \in [Callers -> Entry]
  BY DEF HBody, OneSaves, Entry
<1>2. caller'[c] = new /\ caller' \in [Callers -> Entry]
      /\ \A d \in Callers \ {c} : caller'[d] = caller[d]
  BY <1>1
<1>3. \A d \in Callers \ {c} : caller[d].pc = "idle" /\ caller[d].op = "none"
  BY DEF HBody, OneSaves, SaveSound
<1>4. OneSaves'
  <2>1. \A a, b \in Callers : caller'[a].pc = "idle" \/ caller'[b].pc = "idle" \/ a = b
    BY <1>2, <1>3
  <2>2. \A d \in Callers : caller'[d].pc \notin {"write", "rename"} => caller'[d].file = NoHookFile
    BY <1>2 DEF HBody, OneSaves
  <2>3. QED
    BY <1>2, <2>1, <2>2 DEF OneSaves, Entry
<1>5. \A d \in Callers \ {c} : SaveSound(d)'
  BY <1>2, <1>3, IdleSoundNext
<1>6. QED
  BY <1>2, <1>4, <1>5

\* A request that begins to save while no other does.
LEMMA CallerBegins ==
    ASSUME HBody, NEW c \in Callers, Saving = {}, NEW new \in Entry,
           caller' = [caller EXCEPT ![c] = new],
           new.pc \notin {"write", "rename"} => new.file = NoHookFile
    PROVE  /\ OneSaves' /\ caller'[c] = new
           /\ \A d \in Callers \ {c} : SaveSound(d)'
<1>1. caller \in [Callers -> Entry]
  BY DEF HBody, OneSaves, Entry
<1>2. caller'[c] = new /\ caller' \in [Callers -> Entry]
      /\ \A d \in Callers \ {c} : caller'[d] = caller[d]
  BY <1>1
<1>3. \A d \in Callers : caller[d].pc = "idle" /\ caller[d].op = "none"
  BY DEF HBody, SaveSound, Saving
<1>4. OneSaves'
  <2>1. \A a, b \in Callers : caller'[a].pc = "idle" \/ caller'[b].pc = "idle" \/ a = b
    BY <1>2, <1>3
  <2>2. \A d \in Callers : caller'[d].pc \notin {"write", "rename"} => caller'[d].file = NoHookFile
    BY <1>2 DEF HBody, OneSaves
  <2>3. QED
    BY <1>2, <2>1, <2>2 DEF OneSaves, Entry
<1>5. \A d \in Callers \ {c} : SaveSound(d)'
  BY <1>2, <1>3, IdleSoundNext
<1>6. QED
  BY <1>2, <1>4, <1>5

BegunCall(op, i) == [IdleCaller EXCEPT !.pc = "save", !.op = op, !.id = i]
LEMMA BegunShape ==
    ASSUME NEW op \in {"register", "delete"}, NEW i \in Ids
    PROVE  /\ BegunCall(op, i) \in Entry /\ BegunCall(op, i).pc = "save" /\ BegunCall(op, i).op = op
           /\ BegunCall(op, i).id = i /\ BegunCall(op, i).file = NoHookFile
BY DEF BegunCall, IdleCaller, Entry, CallerStates

LEMMA RegisterKeeps ==
    ASSUME HBody, ordered', NEW c \in Callers, Register(c)
    PROVE  HBody'
<1>1. PICK i \in Ids \ used :
        /\ memory' = memory \cup {i} /\ used' = used \cup {i}
        /\ caller' = [caller EXCEPT ![c] = BegunCall("register", i)]
  BY DEF Register, BegunCall
<1>2. Saving = {} /\ UNCHANGED <<temp, path, content, registered, deleted, touched>>
  BY DEF Register, BeginSave, hookDisk
<1>3. OneSaves' /\ caller'[c] = BegunCall("register", i) /\ \A d \in Callers \ {c} : SaveSound(d)'
  BY <1>1, <1>2, BegunShape, CallerBegins
<1>4. DiskTyped'
  BY <1>2 DEF HBody, DiskTyped, Readable
<1>5. BothLists'
  BY <1>1, <1>2 DEF HBody, BothLists, Stored
<1>6. SaveSound(c)'
  BY <1>1, <1>2, <1>3, BegunShape DEF SaveSound, HBody, BothLists
<1>7. QED
  BY <1>3, <1>4, <1>5, <1>6 DEF HBody

LEMMA DeleteKeeps ==
    ASSUME HBody, ordered', NEW c \in Callers, DeleteHook(c)
    PROVE  HBody'
<1>1. PICK i \in memory :
        /\ memory' = memory \ {i} /\ touched' = touched \cup {i}
        /\ caller' = [caller EXCEPT ![c] = BegunCall("delete", i)]
  BY DEF DeleteHook, BegunCall
<1>2. Saving = {} /\ UNCHANGED <<temp, path, content, registered, deleted, used>>
  BY DEF DeleteHook, BeginSave, hookDisk
<1>3. i \in Ids /\ i \in used
  BY DEF HBody, BothLists
<1>4. OneSaves' /\ caller'[c] = BegunCall("delete", i) /\ \A d \in Callers \ {c} : SaveSound(d)'
  BY <1>1, <1>2, <1>3, BegunShape, CallerBegins
<1>5. DiskTyped'
  BY <1>2 DEF HBody, DiskTyped, Readable
<1>6. BothLists'
  BY <1>1, <1>2 DEF HBody, BothLists, Stored
<1>7. SaveSound(c)'
  BY <1>1, <1>2, <1>3, <1>4, BegunShape DEF SaveSound
<1>8. QED
  BY <1>4, <1>5, <1>6, <1>7 DEF HBody

\* A request that ends without an acknowledgement, the registry left as it is.
LEMMA EndsKeeps ==
    ASSUME HBody, NEW c \in Callers, caller[c].pc # "idle", Answered(c, FALSE), DiskTyped',
           Stored' = Stored
    PROVE  HBody'
<1>1. caller' = [caller EXCEPT ![c] = IdleCaller] /\ UNCHANGED <<memory, registered, deleted, touched, used>>
  BY DEF Answered
<1>2. OneSaves' /\ caller'[c] = IdleCaller /\ \A d \in Callers \ {c} : SaveSound(d)'
  BY <1>1, IdleShape, CallerStep
<1>3. SaveSound(c)'
  BY <1>2, IdleShape, IdleSoundNext
<1>4. BothLists'
  BY <1>1 DEF HBody, BothLists
<1>5. QED
  BY <1>2, <1>3, <1>4 DEF HBody

LEMMA SnapshotKeeps ==
    ASSUME HBody, NEW c \in Callers, TakeSnapshot(c)
    PROVE  HBody'
<1> DEFINE new == [caller[c] EXCEPT !.pc = "exists", !.snapshot = memory]
<1>1. /\ caller[c] \in Entry /\ caller[c].pc = "save" /\ caller[c].file = NoHookFile
      /\ memory \in SUBSET Ids /\ caller \in [Callers -> Entry] /\ SaveSound(c)
  BY DEF TakeSnapshot, HBody, OneSaves, BothLists, Entry
<1>2. UNCHANGED <<memory, temp, path, content, registered, deleted, touched, used>>
  BY DEF TakeSnapshot, hookDisk, history
<1>3. caller' = [caller EXCEPT ![c] = new]
  BY <1>1 DEF TakeSnapshot, Snapshot
<1>4. /\ new \in Entry /\ new.pc = "exists" /\ new.snapshot = memory /\ new.op = caller[c].op
      /\ new.id = caller[c].id /\ new.file = NoHookFile
  BY <1>1 DEF Entry, CallerStates
<1> HIDE DEF new
<1>5. OneSaves' /\ caller'[c] = new /\ \A d \in Callers \ {c} : SaveSound(d)'
  BY <1>1, <1>3, <1>4, CallerStep
<1>6. DiskTyped' /\ BothLists'
  BY <1>2 DEF HBody, DiskTyped, Readable, BothLists, Stored
<1>7. SaveSound(c)'
  BY <1>1, <1>2, <1>4, <1>5 DEF SaveSound
<1>8. QED
  BY <1>5, <1>6, <1>7 DEF HBody

\* A request that goes on to its next step without a file of its own.
LEMMA GoStep ==
    ASSUME HBody, NEW c \in Callers, caller[c].pc \notin {"idle", "write", "rename"},
           NEW next \in {"open", "remove"}, GoTo(c, next)
    PROVE  /\ OneSaves' /\ \A d \in Callers \ {c} : SaveSound(d)'
           /\ caller'[c].pc = next /\ caller'[c].op = caller[c].op /\ caller'[c].id = caller[c].id
           /\ caller'[c].snapshot = caller[c].snapshot
<1> DEFINE new == [caller[c] EXCEPT !.pc = next]
<1>1. caller[c] \in Entry /\ caller[c].file = NoHookFile /\ caller \in [Callers -> Entry]
  BY DEF HBody, OneSaves, Entry
<1>2. caller' = [caller EXCEPT ![c] = new]
  BY <1>1 DEF GoTo
<1>3. /\ new \in Entry /\ new.pc = next /\ new.snapshot = caller[c].snapshot /\ new.op = caller[c].op
      /\ new.id = caller[c].id /\ new.file = NoHookFile
  BY <1>1 DEF Entry, CallerStates
<1> HIDE DEF new
<1>4. QED
  BY <1>2, <1>3, CallerStep

LEMMA CheckKeeps ==
    ASSUME HBody, NEW c \in Callers, CheckTemp(c)
    PROVE  HBody'
<1>1. caller[c].pc = "exists" /\ SaveSound(c)
      /\ UNCHANGED <<memory, temp, path, content, registered, deleted, touched, used>>
  BY DEF CheckTemp, hookDisk, history, HBody
<1>2. DiskTyped' /\ BothLists'
  BY <1>1 DEF HBody, DiskTyped, Readable, BothLists, Stored
<1>3. ASSUME NEW next \in {"open", "remove"}, GoTo(c, next), next = "open" => temp = NoHookFile
      PROVE  HBody'
  <2>1. /\ OneSaves' /\ \A d \in Callers \ {c} : SaveSound(d)'
        /\ caller'[c].pc = next /\ caller'[c].op = caller[c].op /\ caller'[c].id = caller[c].id
        /\ caller'[c].snapshot = caller[c].snapshot
    BY <1>1, <1>3, GoStep
  <2>2. SaveSound(c)'
    BY <1>1, <1>3, <2>1 DEF SaveSound
  <2>3. QED
    BY <1>2, <2>1, <2>2 DEF HBody
<1>4. QED
  BY <1>3 DEF CheckTemp

LEMMA RemoveKeeps ==
    ASSUME HBody, NEW c \in Callers, RemoveTemp(c)
    PROVE  HBody'
<1>1. caller[c].pc = "remove" /\ SaveSound(c) /\ UNCHANGED <<path, content>>
  BY DEF RemoveTemp, HBody
<1>2. CASE temp = NoHookFile
  <2>1. Answered(c, FALSE) /\ temp' = temp
    BY <1>2 DEF RemoveTemp
  <2>2. DiskTyped' /\ Stored' = Stored
    BY <1>1, <2>1 DEF HBody, DiskTyped, Readable, Stored
  <2>3. QED
    BY <1>1, <2>1, <2>2, EndsKeeps
<1>3. CASE temp # NoHookFile
  <2>1. temp' = NoHookFile /\ GoTo(c, "open") /\ UNCHANGED <<memory, registered, deleted, touched, used>>
    BY <1>3 DEF RemoveTemp, history
  <2>2. /\ OneSaves' /\ \A d \in Callers \ {c} : SaveSound(d)'
        /\ caller'[c].pc = "open" /\ caller'[c].op = caller[c].op /\ caller'[c].id = caller[c].id
        /\ caller'[c].snapshot = caller[c].snapshot
    BY <1>1, <2>1, GoStep
  <2>3. DiskTyped' /\ BothLists'
    BY <1>1, <2>1 DEF HBody, DiskTyped, Readable, BothLists, Stored
  <2>4. SaveSound(c)'
    BY <1>1, <2>1, <2>2 DEF SaveSound
  <2>5. QED
    BY <2>2, <2>3, <2>4 DEF HBody
<1>4. QED
  BY <1>2, <1>3

\* There is always a file that has no name yet.
LEMMA NewFileShape ==
    ASSUME DiskTyped, temp = NoHookFile, \A c \in Callers : caller[c].file = NoHookFile
    PROVE  NewFile \in Files /\ NewFile # path
<1>1. UnusedFiles = Files \ {path}
  BY FilesThere DEF UnusedFiles
<1>2. \E f \in UnusedFiles : \A g \in UnusedFiles : f <= g
  <2>1. CASE path = 1
    <3>1. 2 \in UnusedFiles
      BY <1>1, <2>1, FilesThere
    <3>2. \A g \in UnusedFiles : 2 <= g
      BY <1>1, <2>1, FilesThere
    <3>3. QED
      BY <3>1, <3>2
  <2>2. CASE path # 1
    <3>1. 1 \in UnusedFiles
      BY <1>1, <2>2, FilesThere
    <3>2. \A g \in UnusedFiles : 1 <= g
      BY <1>1, FilesThere
    <3>3. QED
      BY <3>1, <3>2
  <2>3. QED
    BY <2>1, <2>2
<1>3. NewFile \in UnusedFiles
  BY <1>2 DEF NewFile
<1>4. QED
  BY <1>1, <1>3

LEMMA OpenKeeps ==
    ASSUME HBody, NEW c \in Callers, OpenTemp(c)
    PROVE  HBody'
<1>1. /\ caller[c].pc = "open" /\ SaveSound(c) /\ caller[c] \in Entry /\ caller \in [Callers -> Entry]
      /\ UNCHANGED <<memory, path, registered, deleted, touched, used>>
  BY DEF OpenTemp, HBody, OneSaves, Entry, history
<1>2. temp = NoHookFile
  BY <1>1 DEF SaveSound
<1>3. \A d \in Callers : caller[d].file = NoHookFile
  BY <1>1 DEF HBody, OneSaves
<1>4. PICK f \in Files : f = NewFile /\ f # path
  BY <1>2, <1>3, NewFileShape DEF HBody
<1> DEFINE new == [caller[c] EXCEPT !.pc = "write", !.file = f]
<1>5. /\ temp' = f /\ content' = [content EXCEPT ![f] = NoHooks]
      /\ caller' = [caller EXCEPT ![c] = new]
  BY <1>1, <1>2, <1>4 DEF OpenTemp
<1>6. /\ new \in Entry /\ new.pc = "write" /\ new.snapshot = caller[c].snapshot /\ new.op = caller[c].op
      /\ new.id = caller[c].id /\ new.file = f
  BY <1>1 DEF Entry, CallerStates
<1> HIDE DEF new
<1>7. OneSaves' /\ caller'[c] = new /\ \A d \in Callers \ {c} : SaveSound(d)'
  BY <1>1, <1>5, <1>6, CallerStep
<1>8. NoHooks \in [text : {"empty", "list", "garbled"}, ids : SUBSET Ids]
  BY DEF NoHooks
<1>9. /\ content' \in [Files -> [text : {"empty", "list", "garbled"}, ids : SUBSET Ids]]
      /\ content'[f] = NoHooks /\ (path # NoHookFile => content'[path] = content[path])
  BY <1>4, <1>5, <1>8 DEF HBody, DiskTyped
<1>10. DiskTyped'
  BY <1>1, <1>4, <1>5, <1>9 DEF HBody, DiskTyped, Readable
<1>11. BothLists'
  BY <1>1, <1>9 DEF HBody, BothLists, Stored
<1>12. f # NoHookFile
  BY FilesThere
<1>13. SaveSound(c)'
  BY <1>1, <1>5, <1>6, <1>7, <1>9, <1>12 DEF SaveSound
<1>14. QED
  BY <1>7, <1>10, <1>11, <1>13 DEF HBody

\* A list written to an empty file is what the file has then.
LEMMA OverNothing ==
    ASSUME NEW ids \in SUBSET Ids
    PROVE  Over(ids, NoHooks) = List(ids)
<1>1. Cardinality({}) = 0 /\ IsFiniteSet(ids)
  BY ConstantAssumption, FS_EmptySet, FS_Subset
<1>2. Cardinality(ids) \in Nat
  BY <1>1, FS_CardinalityType
<1>3. QED
  BY <1>1, <1>2 DEF Over, NoHooks

LEMMA WriteKeeps ==
    ASSUME HBody, NEW c \in Callers, WriteTemp(c)
    PROVE  HBody'
<1> DEFINE new == [caller[c] EXCEPT !.pc = "rename"]
<1>1. /\ caller[c].pc = "write" /\ SaveSound(c) /\ caller[c] \in Entry /\ caller \in [Callers -> Entry]
      /\ UNCHANGED <<memory, temp, path, registered, deleted, touched, used>>
  BY DEF WriteTemp, HBody, OneSaves, Entry, history
<1>2. /\ caller[c].file = temp /\ temp # NoHookFile /\ temp \in Files /\ temp # path
      /\ content[temp] = NoHooks /\ caller[c].snapshot = memory /\ memory \in SUBSET Ids
  BY <1>1 DEF SaveSound, HBody, DiskTyped, BothLists
<1>3. content' = [content EXCEPT ![temp] = List(memory)]
  BY <1>2, OverNothing DEF WriteTemp, HBody, DiskTyped
<1>4. List(memory) \in [text : {"empty", "list", "garbled"}, ids : SUBSET Ids]
  BY <1>2 DEF List
<1>5. /\ content' \in [Files -> [text : {"empty", "list", "garbled"}, ids : SUBSET Ids]]
      /\ content'[temp] = List(memory) /\ (path # NoHookFile => content'[path] = content[path])
  BY <1>2, <1>3, <1>4 DEF HBody, DiskTyped
<1>6. caller' = [caller EXCEPT ![c] = new]
  BY <1>1 DEF WriteTemp, GoTo
<1>7. /\ new \in Entry /\ new.pc = "rename" /\ new.snapshot = caller[c].snapshot /\ new.op = caller[c].op
      /\ new.id = caller[c].id /\ new.file = caller[c].file
  BY <1>1 DEF Entry, CallerStates
<1> HIDE DEF new
<1>8. OneSaves' /\ caller'[c] = new /\ \A d \in Callers \ {c} : SaveSound(d)'
  BY <1>1, <1>6, <1>7, CallerStep
<1>9. DiskTyped'
  BY <1>1, <1>5 DEF HBody, DiskTyped, Readable
<1>10. BothLists'
  BY <1>1, <1>5 DEF HBody, BothLists, Stored
<1>11. List(memory)' = List(memory)
  BY <1>1 DEF List
<1>12. SaveSound(c)'
  BY <1>1, <1>2, <1>5, <1>7, <1>8, <1>11 DEF SaveSound
<1>13. QED
  BY <1>8, <1>9, <1>10, <1>12 DEF HBody

\* The rename puts the list in memory where the registry is read from.
LEMMA DoneKeeps ==
    ASSUME HBody, NEW c \in Callers, Done(c)
    PROVE  HBody'
<1>1. caller[c].pc = "rename" /\ SaveSound(c)
  BY DEF Done, HBody
<1>2. /\ temp # NoHookFile /\ temp \in Files /\ content[temp] = List(memory)
      /\ caller[c].op \in {"register", "delete"} /\ caller[c].id \in used
      /\ caller[c].op = "register" => caller[c].id \in memory \ deleted
      /\ caller[c].op = "delete" => caller[c].id \in touched \ memory
  BY <1>1 DEF SaveSound, HBody, OneSaves, DiskTyped
<1>3. /\ path' = temp /\ temp' = NoHookFile /\ content' = content /\ Answered(c, TRUE)
  BY <1>2 DEF Done, Rename, GoTo
<1>4. /\ caller' = [caller EXCEPT ![c] = IdleCaller] /\ UNCHANGED <<memory, touched, used>>
      /\ registered' = IF caller[c].op = "register" THEN registered \cup {caller[c].id} ELSE registered
      /\ deleted' = IF caller[c].op = "delete" THEN deleted \cup {caller[c].id} ELSE deleted
  BY <1>3 DEF Answered
<1>5. OneSaves' /\ caller'[c] = IdleCaller /\ \A d \in Callers \ {c} : SaveSound(d)'
  BY <1>1, <1>4, IdleShape, CallerStep
<1>6. SaveSound(c)'
  BY <1>5, IdleShape, IdleSoundNext
<1>7. Readable' /\ Stored' = memory
  BY <1>2, <1>3 DEF Readable, Stored, List
<1>8. DiskTyped'
  BY <1>2, <1>3, <1>7 DEF HBody, DiskTyped
<1>9. BothLists'
  BY <1>2, <1>4, <1>7 DEF HBody, BothLists
<1>10. QED
  BY <1>5, <1>6, <1>8, <1>9 DEF HBody

LEMMA RestartKeeps ==
    ASSUME HBody, Restart
    PROVE  HBody'
<1>1. /\ memory' = Stored /\ caller' = [c \in Callers |-> IdleCaller]
      /\ UNCHANGED <<temp, path, content, registered, deleted, touched, used>>
  BY DEF Restart, hookDisk
<1>2. OneSaves'
  BY <1>1, IdleShape DEF OneSaves, Entry
<1>3. DiskTyped' /\ BothLists'
  BY <1>1 DEF HBody, DiskTyped, Readable, BothLists, Stored
<1>4. \A c \in Callers : SaveSound(c)'
  BY <1>1, IdleShape, IdleSoundNext
<1>5. QED
  BY <1>2, <1>3, <1>4 DEF HBody

LEMMA HooksInductive ==
    ASSUME HInv, [HooksNext]_hookVars
    PROVE  HInv'
<1> SUFFICES ASSUME ordered' PROVE HBody'
  BY DEF HInv
<1>1. ordered
  BY DEF HooksNext, Register, DeleteHook, BeginSave, TakeSnapshot, CheckTemp, RemoveTemp, OpenTemp, WriteTemp,
         SaveFails, Done, Rename, Cleanup, Restart, Answered, history, hookVars
<1>2. HBody
  BY <1>1 DEF HInv
<1>3. ASSUME NEW c \in Callers, SaveFails(c) PROVE HBody'
  <2>1. caller[c].pc # "idle" /\ Answered(c, FALSE) /\ UNCHANGED <<temp, path, content>>
    BY <1>3 DEF SaveFails, hookDisk
  <2>2. DiskTyped' /\ Stored' = Stored
    BY <1>2, <2>1 DEF HBody, DiskTyped, Readable, Stored
  <2>3. QED
    BY <1>2, <2>1, <2>2, EndsKeeps
<1>4. ASSUME NEW c \in Callers PROVE ~Cleanup(c)
  BY <1>2 DEF HBody, SaveSound, Cleanup
<1>5. CASE UNCHANGED hookVars
  <2>1. OneSaves' /\ DiskTyped' /\ BothLists'
    BY <1>2, <1>5 DEF HBody, OneSaves, DiskTyped, Readable, BothLists, Stored, hookVars
  <2>2. \A c \in Callers : SaveSound(c)'
    BY <1>2, <1>5 DEF HBody, SaveSound, List, hookVars
  <2>3. QED
    BY <2>1, <2>2 DEF HBody
<1>6. QED
  BY <1>2, <1>3, <1>4, <1>5, RegisterKeeps, DeleteKeeps, SnapshotKeeps, CheckKeeps, RemoveKeeps, OpenKeeps,
     WriteKeeps, DoneKeeps, RestartKeeps DEF HooksNext

LEMMA HooksInitial == HooksInit => HInv
<1> SUFFICES ASSUME HooksInit PROVE HBody
  BY DEF HInv
<1>1. OneSaves
  BY IdleShape DEF HooksInit, OneSaves, Entry
<1>2. \A c \in Callers : SaveSound(c)
  BY IdleShape, IdleSound DEF HooksInit
<1>3. DiskTyped /\ BothLists
  BY DEF HooksInit, DiskTyped, Readable, BothLists, Stored, NoHooks
<1>4. QED
  BY <1>1, <1>2, <1>3 DEF HBody

LEMMA HooksInvCorrect == HooksSpec => []HInv
<1>1. HInv /\ [HooksNext]_hookVars => HInv'
  BY HooksInductive
<1>2. QED
  BY <1>1, HooksInitial, PTL DEF HooksSpec

\* As long as no two saves overlap the registry can be read, has every
\* acknowledged registration nobody asked to delete and none whose deletion
\* was acknowledged, through full disks and restarts (StoredIsAcknowledged).
THEOREM AcknowledgedIsOnDisk == HooksSpec => []StoredIsAcknowledged
<1>1. HInv => StoredIsAcknowledged
  BY DEF HInv, HBody, DiskTyped, BothLists, StoredIsAcknowledged
<1>2. QED
  BY <1>1, HooksInvCorrect, PTL

-----------------------------------------------------------------------------
(* The circuit breaker.  A paused webhook has at most one job that was let *)
(* through before, whether it still waits for its permit or has begun.     *)

JobStates == {"none", "unwanted", "posted", "queued", "dropped", "skipped", "waiting", "trying",
              "sleeping", "delivered", "failed"}

DInv ==
    /\ delivery \in [DeliveryJobs -> JobStates]
    /\ events \in Seq(DeliveryJobs)
    /\ breaker \in [Hooks -> [count : Nat, pause : {"no", "yes", "over"}]]
    /\ late \in [Hooks -> Nat]
    /\ \A i, j \in DeliveryJobs : delivery[i] = "waiting" /\ delivery[j] = "waiting" => i = j
    /\ \A h \in Hooks : breaker[h].pause = "yes" =>
         /\ late[h] <= 1
         /\ late[h] = 1 => \A j \in DeliveryJobs : j[1] = h => delivery[j] # "waiting"

\* A step that lets no job through and leaves the breaker alone.
LEMMA MoveKeeps ==
    ASSUME DInv, NEW j \in DeliveryJobs, NEW where \in JobStates \ {"waiting"}, Move(j, where),
           UNCHANGED <<breaker, late>>, events' \in Seq(DeliveryJobs)
    PROVE  DInv'
<1>1. /\ delivery' \in [DeliveryJobs -> JobStates]
      /\ \A i \in DeliveryJobs : delivery'[i] = "waiting" => delivery[i] = "waiting"
  BY DEF DInv, Move
<1>2. QED
  BY <1>1 DEF DInv

\* What the breaker makes of an answer.
LEMMA BreakerShape ==
    ASSUME DInv, NEW h \in Hooks
    PROVE  /\ AfterAllow(h) \in [count : Nat, pause : {"no", "yes", "over"}]
           /\ AfterSuccess(h) \in [count : Nat, pause : {"no", "yes", "over"}]
           /\ AfterFailure(h) \in [count : Nat, pause : {"no", "yes", "over"}]
           /\ AfterAllow(h).pause = "yes" => breaker[h].pause = "yes" /\ ~Allow(h)
           /\ AfterSuccess(h).pause = "no"
<1>1. Threshold \in Nat \ {0}
  BY DeliveryAssumption
<1>2. Threshold - 1 \in Nat
  BY <1>1
<1>3. breaker[h] \in [count : Nat, pause : {"no", "yes", "over"}]
  BY DEF DInv
<1>4. AfterAllow(h) \in [count : Nat, pause : {"no", "yes", "over"}]
      /\ (AfterAllow(h).pause = "yes" => breaker[h].pause = "yes" /\ ~Allow(h))
  BY <1>2, <1>3 DEF AfterAllow, Allow
<1>5. AfterSuccess(h) \in [count : Nat, pause : {"no", "yes", "over"}] /\ AfterSuccess(h).pause = "no"
  BY DEF AfterSuccess, Closed
<1>6. AfterFailure(h) \in [count : Nat, pause : {"no", "yes", "over"}]
  BY <1>1, <1>3 DEF AfterFailure
<1>7. QED
  BY <1>4, <1>5, <1>6

LEMMA PauseEndsKeeps ==
    ASSUME DInv, NEW h \in Hooks, PauseEnds(h)
    PROVE  DInv'
<1>1. breaker' = [breaker EXCEPT ![h].pause = "over"] /\ UNCHANGED <<delivery, events, late>>
  BY DEF PauseEnds
<1>2. /\ breaker' \in [Hooks -> [count : Nat, pause : {"no", "yes", "over"}]]
      /\ \A g \in Hooks : breaker'[g].pause = "yes" => breaker[g].pause = "yes"
  BY <1>1 DEF DInv
<1>3. QED
  BY <1>1, <1>2 DEF DInv

LEMMA NotifyKeeps ==
    ASSUME DInv, NEW n \in Events, Notify(n)
    PROVE  DInv'
<1>1. PICK wanted \in SUBSET Hooks :
        delivery' = [j \in DeliveryJobs |-> IF j[2] # n THEN delivery[j]
                                            ELSE IF j[1] \in wanted THEN "posted" ELSE "unwanted"]
  BY DEF Notify
<1>2. UNCHANGED <<events, breaker, late>>
  BY DEF Notify
<1>3. /\ delivery' \in [DeliveryJobs -> JobStates]
      /\ \A j \in DeliveryJobs : delivery'[j] = "waiting" => delivery[j] = "waiting"
  BY <1>1 DEF DInv, JobStates
<1>4. QED
  BY <1>2, <1>3 DEF DInv

LEMMA ReceiveKeeps ==
    ASSUME DInv, Receive
    PROVE  DInv'
<1>1. /\ events # <<>> /\ In({"waiting"}) = {} /\ events' = Tail(events) /\ late' = late
  BY DEF Receive
<1>2. PICK j \in DeliveryJobs : j = Head(events)
  BY <1>1 DEF DInv
<1>3. PICK h \in Hooks : h = j[1]
  BY DEF DeliveryJobs
<1>4. /\ delivery' = [delivery EXCEPT ![j] = IF Allow(h) THEN "waiting" ELSE "skipped"]
      /\ breaker' = [breaker EXCEPT ![h] = AfterAllow(h)]
  BY <1>2, <1>3 DEF Receive, Move
<1>5. events' \in Seq(DeliveryJobs)
  BY <1>1 DEF DInv
<1>6. \A i \in DeliveryJobs : delivery[i] # "waiting"
  BY <1>1 DEF In
<1>7. /\ delivery' \in [DeliveryJobs -> JobStates]
      /\ \A i \in DeliveryJobs : delivery'[i] = "waiting" => i = j /\ Allow(h)
  BY <1>4, <1>6 DEF DInv, JobStates
<1>8. /\ breaker' \in [Hooks -> [count : Nat, pause : {"no", "yes", "over"}]]
      /\ breaker'[h] = AfterAllow(h) /\ \A g \in Hooks \ {h} : breaker'[g] = breaker[g]
  BY <1>4, BreakerShape DEF DInv
<1>9. breaker'[h].pause = "yes" => breaker[h].pause = "yes" /\ ~Allow(h)
  BY <1>8, BreakerShape
<1>10. \A g \in Hooks : breaker'[g].pause = "yes" =>
         /\ late'[g] <= 1
         /\ late'[g] = 1 => \A i \in DeliveryJobs : i[1] = g => delivery'[i] # "waiting"
  BY <1>1, <1>3, <1>7, <1>8, <1>9 DEF DInv
<1>11. QED
  BY <1>1, <1>5, <1>7, <1>8, <1>10 DEF DInv

LEMMA DispatchKeeps ==
    ASSUME DInv, NEW j \in DeliveryJobs, Dispatch(j)
    PROVE  DInv'
<1>1. PICK h \in Hooks : h = j[1]
  BY DEF DeliveryJobs
<1>2. /\ delivery[j] = "waiting" /\ delivery' = [delivery EXCEPT ![j] = "trying"]
      /\ late' = [late EXCEPT ![h] = @ + IF breaker[h].pause = "yes" THEN 1 ELSE 0]
      /\ UNCHANGED <<events, breaker>>
  BY <1>1 DEF Dispatch, Move
<1>3. /\ delivery' \in [DeliveryJobs -> JobStates] /\ \A i \in DeliveryJobs : delivery'[i] # "waiting"
  BY <1>2 DEF DInv, JobStates
<1>4. late' \in [Hooks -> Nat]
  BY <1>2 DEF DInv
<1>5. ASSUME NEW g \in Hooks, breaker[g].pause = "yes" PROVE late'[g] <= 1
  <2>1. CASE g # h
    BY <1>2, <1>5, <2>1 DEF DInv
  <2>2. CASE g = h
    <3>1. late[h] \in Nat /\ late[h] <= 1 /\ late[h] # 1
      BY <1>1, <1>2, <1>5, <2>2 DEF DInv
    <3>2. late'[h] = late[h] + 1
      BY <1>2, <1>5, <2>2 DEF DInv
    <3>3. QED
      BY <2>2, <3>1, <3>2
  <2>3. QED
    BY <2>1, <2>2
<1>6. QED
  BY <1>2, <1>3, <1>4, <1>5 DEF DInv

LEMMA SucceedKeeps ==
    ASSUME DInv, NEW j \in DeliveryJobs, Succeed(j)
    PROVE  DInv'
<1>1. PICK h \in Hooks : h = j[1]
  BY DEF DeliveryJobs
<1>2. /\ delivery' = [delivery EXCEPT ![j] = "delivered"] /\ late' = [late EXCEPT ![h] = 0]
      /\ breaker' = [breaker EXCEPT ![h] = AfterSuccess(h)] /\ events' = events
  BY <1>1 DEF Succeed, Move
<1>3. /\ delivery' \in [DeliveryJobs -> JobStates] /\ late' \in [Hooks -> Nat]
      /\ \A i \in DeliveryJobs : delivery'[i] = "waiting" => delivery[i] = "waiting"
  BY <1>2 DEF DInv, JobStates
<1>4. /\ breaker' \in [Hooks -> [count : Nat, pause : {"no", "yes", "over"}]]
      /\ \A g \in Hooks : breaker'[g].pause = "yes" => g # h /\ breaker[g].pause = "yes"
  BY <1>2, BreakerShape DEF DInv
<1>5. \A g \in Hooks : g # h => late'[g] = late[g]
  BY <1>2 DEF DInv
<1>6. QED
  BY <1>2, <1>3, <1>4, <1>5 DEF DInv

LEMMA GiveUpKeeps ==
    ASSUME DInv, NEW j \in DeliveryJobs, GiveUp(j)
    PROVE  DInv'
<1>1. PICK h \in Hooks : h = j[1]
  BY DEF DeliveryJobs
<1>2. /\ delivery' = [delivery EXCEPT ![j] = "failed"] /\ events' = events
      /\ breaker' = [breaker EXCEPT ![h] = AfterFailure(h)]
      /\ late' = IF breaker[h].pause # "yes" /\ breaker'[h].pause = "yes"
                   THEN [late EXCEPT ![h] = 0] ELSE late
  BY <1>1 DEF GiveUp, Move
<1>3. /\ delivery' \in [DeliveryJobs -> JobStates] /\ late' \in [Hooks -> Nat]
      /\ \A i \in DeliveryJobs : delivery'[i] = "waiting" => delivery[i] = "waiting"
  BY <1>2 DEF DInv, JobStates
<1>4. /\ breaker' \in [Hooks -> [count : Nat, pause : {"no", "yes", "over"}]]
      /\ \A g \in Hooks \ {h} : breaker'[g] = breaker[g] /\ late'[g] = late[g]
      /\ breaker[h].pause = "yes" => late'[h] = late[h]
      /\ breaker[h].pause # "yes" /\ breaker'[h].pause = "yes" => late'[h] = 0
  BY <1>2, BreakerShape DEF DInv
<1>5. QED
  BY <1>2, <1>3, <1>4 DEF DInv

LEMMA DeliveryInductive ==
    ASSUME DInv, [DeliveryNext]_deliveryVars
    PROVE  DInv'
<1>1. ASSUME NEW j \in DeliveryJobs, Post(j) PROVE DInv'
  <2>1. /\ UNCHANGED <<breaker, late>>
        /\ \/ Move(j, "queued") /\ events' = Append(events, j)
           \/ Move(j, "dropped") /\ events' = events
    BY <1>1 DEF Post
  <2>4. events \in Seq(DeliveryJobs)
    BY DEF DInv
  <2>5. Append(events, j) \in Seq(DeliveryJobs)
    BY <2>4
  <2>2. events' \in Seq(DeliveryJobs)
    BY <2>1, <2>4, <2>5
  <2>3. QED
    BY <2>1, <2>2, MoveKeeps DEF JobStates
<1>2. ASSUME NEW j \in DeliveryJobs, Retry(j) \/ Wake(j) PROVE DInv'
  <2>1. UNCHANGED <<events, breaker, late>> /\ (Move(j, "sleeping") \/ Move(j, "trying"))
    BY <1>2 DEF Retry, Wake
  <2>2. events' \in Seq(DeliveryJobs)
    BY <2>1 DEF DInv
  <2>3. QED
    BY <2>1, <2>2, MoveKeeps DEF JobStates
<1>3. CASE UNCHANGED deliveryVars
  BY <1>3 DEF DInv, deliveryVars
<1>4. QED
  BY <1>1, <1>2, <1>3, PauseEndsKeeps, NotifyKeeps, ReceiveKeeps, DispatchKeeps, SucceedKeeps, GiveUpKeeps
     DEF DeliveryNext, Deliver

\* While a webhook is paused at most one of its deliveries begins, however many
\* webhooks, permits and attempts there are (PausedAfterOne).
THEOREM PauseHolds == DeliverySpec => []PausedAfterOne
<1>1. DeliveryInit => DInv
  <2>1. Closed \in [count : Nat, pause : {"no", "yes", "over"}] /\ Closed.pause = "no"
    BY DEF Closed
  <2>2. QED
    BY <2>1 DEF DeliveryInit, DInv, JobStates
<1>2. DInv /\ [DeliveryNext]_deliveryVars => DInv'
  BY DeliveryInductive
<1>3. DInv => PausedAfterOne
  BY DEF DInv, PausedAfterOne
<1>4. QED
  BY <1>1, <1>2, <1>3, PTL DEF DeliverySpec

-----------------------------------------------------------------------------
(* The clock of a body. *)

(* The inductive invariant. *)

\* Before its idle timer runs out a window has been judged or is not yet two
\* idle timeouts old.
Judged ==
    state = "reading" /\ MinRate > 0 =>
      /\ now <= deadline /\ deadline < Start + 2 * Idle
      /\ Start >= GraceEnd
      /\ window_start <= now

\* What arrived before the window in progress was enough for the time up to it.
Earned ==
    state = "reading" /\ MinRate > 0 =>
      MinRate * (Start - GraceEnd) + window_bytes <= received

\* After the mark a window began within two idle timeouts, or one that began
\* after it was judged.
Watched ==
    state = "reading" /\ MinRate > 0 /\ mark >= GraceEnd =>
      \/ Start <= mark
      \/ /\ window_bytes <= since
         /\ Start < mark + 2 * Idle \/ window_bytes + Idle * MinRate <= since

Marked == mark <= now

MeterInv == MeterTypeOK /\ Judged /\ Earned /\ Watched /\ Marked /\ EndsInTime

-----------------------------------------------------------------------------

\* The least rate times a longer time is no less.
LEMMA RateMonotone ==
    ASSUME NEW a \in Int, NEW b \in Int, a <= b
    PROVE  MinRate * a <= MinRate * b
BY RateAssumption

\* The invariant holds of a body that has just started.
LEMMA MeterStarts == MeterInit => MeterInv
BY IdleAssumption, RateAssumption, CapAssumption
   DEF MeterInit, MeterInv, MeterTypeOK, Judged, Earned, Watched, Marked, EndsInTime, Start, GraceEnd

\* The frame of n bytes that arrives now: what becomes of the window.
LEMMA FrameCases ==
    ASSUME MeterInv, NEW n \in 0..MaxFrame, Rated(n)
    PROVE  \/ /\ MinRate = 0 \/ now <= GraceEnd
              /\ state' = "reading" /\ window_start' = window_start /\ window_bytes' = window_bytes
           \/ /\ MinRate > 0 /\ now > GraceEnd /\ now - Start < Idle
              /\ state' = "reading" /\ window_start' = Start /\ window_bytes' = Bytes(n)
           \/ state' = "too slow" /\ window_start' = Start /\ window_bytes' = Bytes(n)
           \/ /\ MinRate > 0 /\ now > GraceEnd /\ now - Start >= Idle
              /\ Bytes(n) >= (now - Start) * MinRate
              /\ state' = "reading" /\ window_start' = now /\ window_bytes' = 0
<1>1. now \in Nat /\ Start \in Int /\ Bytes(n) \in Int /\ MinRate \in Nat /\ GraceEnd \in Int
  <2>1. now \in Nat /\ window_start \in Int /\ window_bytes \in 0..received /\ received \in 0..Cap
    BY DEF MeterInv, MeterTypeOK
  <2>2. MinRate \in Nat /\ GraceEnd \in Int /\ n \in Nat /\ Cap \in Nat
    BY RateAssumption, IdleAssumption, FrameAssumption, CapAssumption DEF GraceEnd
  <2>3. Start \in Int
    BY <2>1, <2>2 DEF Start
  <2>4. window_bytes \in Int
    BY <2>1, <2>2
  <2>5. QED
    BY <2>1, <2>2, <2>3, <2>4 DEF Bytes
<1>1a. (now - Start) * MinRate \in Int
  BY <1>1
<1>2. CASE MinRate = 0 \/ now <= GraceEnd
  BY <1>2 DEF Rated
<1>3. CASE ~(MinRate = 0 \/ now <= GraceEnd)
  <2>1. MinRate > 0 /\ now > GraceEnd
    BY <1>1, <1>3
  <2>2. CASE now - Start < Idle
    BY <1>3, <2>1, <2>2 DEF Rated
  <2>3. CASE ~(now - Start < Idle)
    <3>1. now - Start >= Idle
      BY <1>1, <2>3, IdleAssumption
    <3>2. CASE Bytes(n) < (now - Start) * MinRate
      BY <1>3, <2>3, <3>2 DEF Rated
    <3>3. CASE ~(Bytes(n) < (now - Start) * MinRate)
      <4>1. state' = "reading" /\ window_start' = now /\ window_bytes' = 0
        BY <1>3, <2>3, <3>3 DEF Rated
      <4>2. Bytes(n) >= (now - Start) * MinRate
        BY <1>1, <1>1a, <3>3
      <4>3. QED
        BY <2>1, <3>1, <4>1, <4>2
    <3>4. QED
      BY <3>2, <3>3
  <2>4. QED
    BY <2>2, <2>3
<1>4. QED
  BY <1>2, <1>3

\* A window judged or young bounds the age by what was delivered.
LEMMA AgeIsPaid ==
    ASSUME NEW t \in Int, NEW d \in Int, NEW s \in Int, NEW b \in Nat, NEW r \in Nat,
           t <= d, d < s + 2 * Idle, MinRate * (s - GraceEnd) + b <= r
    PROVE  MinRate * (t - 4 * Idle) <= r
<1>1. t - 4 * Idle <= s - GraceEnd /\ t - 4 * Idle \in Int /\ s - GraceEnd \in Int
  BY IdleAssumption DEF GraceEnd
<1>2. MinRate * (t - 4 * Idle) <= MinRate * (s - GraceEnd)
  BY <1>1, RateMonotone
<1>3. MinRate * (s - GraceEnd) \in Int /\ MinRate * (t - 4 * Idle) \in Int
  BY <1>1, RateAssumption
<1>4. QED
  BY <1>2, <1>3

\* While a body is read its age is bounded by what it delivered: the primed
\* state of a step that goes on reading.
LEMMA ReadingEndsInTime ==
    ASSUME MeterTypeOK', Judged', Earned', state' = "reading"
    PROVE  EndsInTime'
<1>1. SUFFICES ASSUME MinRate > 0 PROVE MinRate * (now' - 4 * Idle) <= received'
  BY DEF EndsInTime
<1>2. /\ now' \in Int /\ deadline' \in Int /\ Start' \in Int
      /\ window_bytes' \in Nat /\ received' \in Nat
  BY IdleAssumption, CapAssumption DEF MeterTypeOK, Start, GraceEnd
<1>3. now' <= deadline' /\ deadline' < Start' + 2 * Idle
  BY <1>1 DEF Judged
<1>4. MinRate * (Start' - GraceEnd) + window_bytes' <= received'
  BY <1>1 DEF Earned, GraceEnd
<1>5. QED
  BY <1>2, <1>3, <1>4, AgeIsPaid

\* Time that passes before the idle timer runs out keeps the invariant.
LEMMA TickStep == ASSUME MeterInv, Tick PROVE MeterInv'
<1>1. /\ state = "reading" /\ now < deadline /\ now' = now + 1
      /\ UNCHANGED <<state, received, deadline, window_start, window_bytes, mark, since>>
  BY DEF Tick
<1>2. MeterTypeOK' /\ Marked' /\ Start' = Start
  BY <1>1 DEF MeterInv, MeterTypeOK, Marked, Start, GraceEnd
<1>3. Judged' /\ Earned' /\ Watched'
  BY <1>1, <1>2 DEF MeterInv, MeterTypeOK, Judged, Earned, Watched, GraceEnd
<1>4. QED
  BY <1>1, <1>2, <1>3, ReadingEndsInTime DEF MeterInv

\* A step that only ends the body keeps the invariant.
LEMMA EndStep == ASSUME MeterInv, TimeOut \/ TooLong \/ EndOfStream PROVE MeterInv'
<1>1. /\ state' \in {"read", "too slow", "too long"}
      /\ UNCHANGED <<now, received, deadline, window_start, window_bytes, mark, since>>
  BY DEF TimeOut, TooLong, EndOfStream
<1>2. QED
  BY <1>1 DEF MeterInv, MeterTypeOK, Judged, Earned, Watched, Marked, EndsInTime

\* The mark may be set at any moment: a window in progress began before it.
LEMMA MarkStep == ASSUME MeterInv, Mark PROVE MeterInv'
<1>1. /\ mark' = now /\ state = "reading"
      /\ UNCHANGED <<now, state, received, deadline, window_start, window_bytes, since>>
  BY DEF Mark
<1>2. MeterTypeOK' /\ Judged' /\ Earned' /\ EndsInTime' /\ Start' = Start
  BY <1>1 DEF MeterInv, MeterTypeOK, Judged, Earned, EndsInTime, Start, GraceEnd
<1>3. Marked'
  BY <1>1 DEF MeterInv, MeterTypeOK, Marked
<1>4. now >= GraceEnd /\ MinRate > 0 => Start <= now
  BY <1>1 DEF MeterInv, Judged, Start
<1>5. Watched'
  BY <1>1, <1>2, <1>4 DEF Watched, GraceEnd
<1>6. QED
  BY <1>2, <1>3, <1>5 DEF MeterInv

\* A frame keeps the invariant: one step per outcome of the rate check.
LEMMA FrameStep == ASSUME MeterInv, Frame PROVE MeterInv'
<1>a. state = "reading" /\ UNCHANGED <<now, mark>>
  BY DEF Frame
<1>0. PICK n \in 0..MaxFrame :
         /\ received + n <= Cap /\ received' = received + n
         /\ since' = (IF mark = -1 THEN since ELSE since + n)
         /\ Rated(n)
  BY DEF Frame
<1>t. /\ now \in Nat /\ received \in 0..Cap /\ window_bytes \in 0..received
      /\ since \in 0..received /\ mark \in Int /\ mark >= -1
      /\ window_start \in Int /\ window_start >= -1 /\ deadline \in Nat
  BY DEF MeterInv, MeterTypeOK
<1>c. n \in Nat /\ Idle \in Nat \ {0} /\ MinRate \in Nat /\ Cap \in Nat /\ GraceEnd = 2 * Idle
  BY IdleAssumption, RateAssumption, FrameAssumption, CapAssumption DEF GraceEnd
<1>s. /\ Start \in Int /\ Start >= 0
      /\ window_start # -1 => Start = window_start
      /\ window_start = -1 => Start = GraceEnd
  BY <1>t, <1>c DEF Start
<1>b. Bytes(n) = window_bytes + n
  BY DEF Bytes
<1>r. received \in Nat /\ received + n \in Nat /\ window_bytes \in Nat
  BY <1>t, <1>c
<1>1. /\ now \in Nat /\ received \in Nat /\ received \in 0..Cap /\ window_bytes \in 0..received /\ since \in 0..received
      /\ n \in Nat /\ Idle \in Nat \ {0} /\ MinRate \in Nat /\ mark \in Int /\ mark >= -1
      /\ window_start \in Int /\ window_start >= -1 /\ deadline \in Nat
      /\ Bytes(n) = window_bytes + n /\ GraceEnd = 2 * Idle
      /\ Start \in Int /\ Start >= 0 /\ (window_start # -1 => Start = window_start)
      /\ (window_start = -1 => Start = GraceEnd) /\ Cap \in Nat
  BY <1>t, <1>c, <1>s, <1>b, <1>r
<1>2. since' \in 0..received' /\ received' \in 0..Cap /\ (mark >= GraceEnd => since' = since + n)
  BY <1>0, <1>1
<1>3. CASE /\ MinRate = 0 \/ now <= GraceEnd
           /\ state' = "reading" /\ window_start' = window_start /\ window_bytes' = window_bytes
  <2>1. deadline' = now + Idle /\ Start' = Start
    BY <1>3 DEF Frame, Start, GraceEnd
  <2>2. MeterTypeOK'
    BY <1>a, <1>0, <1>1, <1>2, <1>3, <2>1 DEF MeterTypeOK
  <2>3. Marked'
    BY <1>a DEF MeterInv, Marked
  <2>4. Judged'
    BY <1>a, <1>1, <1>3, <2>1 DEF MeterInv, Judged, GraceEnd
  <2>5. Earned'
    <3>1. MinRate > 0 => MinRate * (Start - GraceEnd) + window_bytes <= received
      BY <1>a DEF MeterInv, Earned
    <3>2. MinRate * (Start - GraceEnd) \in Int
      BY <1>1
    <3>3. MinRate > 0 => MinRate * (Start - GraceEnd) + window_bytes <= received'
      BY <1>0, <1>1, <3>1, <3>2
    <3>4. QED
      BY <1>3, <2>1, <3>3 DEF Earned, GraceEnd
  <2>6. Watched'
    <3>1. MinRate > 0 /\ mark >= GraceEnd => Start <= mark \/ mark > now
      BY <1>a, <1>1, <1>3 DEF MeterInv, Judged
    <3>2. mark <= now
      BY DEF MeterInv, Marked
    <3>3. MinRate > 0 /\ mark >= GraceEnd => Start <= mark
      BY <1>1, <3>1, <3>2
    <3>4. QED
      BY <1>a, <2>1, <3>3 DEF Watched, GraceEnd
  <2>7. QED
    BY <1>3, <2>2, <2>3, <2>4, <2>5, <2>6, ReadingEndsInTime DEF MeterInv
<1>4. CASE /\ MinRate > 0 /\ now > GraceEnd /\ now - Start < Idle
           /\ state' = "reading" /\ window_start' = Start /\ window_bytes' = Bytes(n)
  <2>1. deadline' = now + Idle /\ Start' = Start
    BY <1>1, <1>4 DEF Frame, Start, GraceEnd
  <2>2. MeterTypeOK'
    BY <1>a, <1>0, <1>1, <1>2, <1>4, <2>1 DEF MeterTypeOK
  <2>3. Marked'
    BY <1>a DEF MeterInv, Marked
  <2>4. Judged'
    BY <1>a, <1>1, <1>4, <2>1 DEF MeterInv, Judged, GraceEnd
  <2>5. Earned'
    <3>1. MinRate * (Start - GraceEnd) + window_bytes <= received
      BY <1>a, <1>4 DEF MeterInv, Earned
    <3>2. MinRate * (Start - GraceEnd) \in Int
      BY <1>1
    <3>3. MinRate * (Start - GraceEnd) + Bytes(n) <= received'
      BY <1>0, <1>1, <3>1, <3>2
    <3>4. QED
      BY <1>4, <2>1, <3>3 DEF Earned, GraceEnd
  <2>6. Watched'
    <3>1. mark >= GraceEnd =>
            \/ Start <= mark
            \/ /\ window_bytes <= since
               /\ Start < mark + 2 * Idle \/ window_bytes + Idle * MinRate <= since
      BY <1>a, <1>4 DEF MeterInv, Watched
    <3>2. Idle * MinRate \in Int
      BY <1>1
    <3>3. mark >= GraceEnd =>
            \/ Start <= mark
            \/ /\ Bytes(n) <= since'
               /\ Start < mark + 2 * Idle \/ Bytes(n) + Idle * MinRate <= since'
      BY <1>1, <1>2, <3>1, <3>2
    <3>4. QED
      BY <1>a, <1>4, <2>1, <3>3 DEF Watched, GraceEnd
  <2>7. QED
    BY <1>4, <2>2, <2>3, <2>4, <2>5, <2>6, ReadingEndsInTime DEF MeterInv
<1>5. CASE state' = "too slow" /\ window_start' = Start /\ window_bytes' = Bytes(n)
  <2>1. deadline' = deadline
    BY <1>5 DEF Frame
  <2>2. MeterTypeOK'
    <3>1. now' \in Nat /\ deadline' \in Nat /\ mark' \in Int /\ mark' >= -1
      BY <1>a, <1>1, <2>1
    <3>2. window_start' \in Int /\ window_start' >= -1
      <4>1. window_start' = Start
        BY <1>5
      <4>2. QED
        BY <1>s, <4>1
    <3>3. window_bytes' \in 0..received'
      <4>1. window_bytes' = window_bytes + n /\ received' = received + n
        BY <1>0, <1>5, <1>b
      <4>2. QED
        BY <1>t, <1>c, <4>1
    <3>4. QED
      BY <1>2, <1>5, <3>1, <3>2, <3>3 DEF MeterTypeOK
  <2>3. Judged' /\ Earned' /\ Watched' /\ Marked'
    BY <1>a, <1>5 DEF MeterInv, Judged, Earned, Watched, Marked
  <2>4. EndsInTime'
    <3>1. MinRate * (now - 4 * Idle) \in Int
      BY <1>1
    <3>2. QED
      BY <1>a, <1>0, <1>1, <3>1 DEF MeterInv, EndsInTime
  <2>5. QED
    BY <2>2, <2>3, <2>4 DEF MeterInv
<1>6. CASE /\ MinRate > 0 /\ now > GraceEnd /\ now - Start >= Idle
           /\ Bytes(n) >= (now - Start) * MinRate
           /\ state' = "reading" /\ window_start' = now /\ window_bytes' = 0
  <2>1. deadline' = now + Idle /\ Start' = now
    BY <1>a, <1>1, <1>6 DEF Frame, Start, GraceEnd
  <2>2. MeterTypeOK'
    BY <1>a, <1>0, <1>1, <1>2, <1>6, <2>1 DEF MeterTypeOK
  <2>3. Marked'
    BY <1>a DEF MeterInv, Marked
  <2>4. Judged'
    BY <1>a, <1>1, <1>6, <2>1 DEF Judged, GraceEnd
  <2>5. Earned'
    <3>1. MinRate * (Start - GraceEnd) + window_bytes <= received
      BY <1>a, <1>6 DEF MeterInv, Earned
    <3>2. MinRate * (now - GraceEnd) = MinRate * (Start - GraceEnd) + (now - Start) * MinRate
      BY <1>1
    <3>3. MinRate * (Start - GraceEnd) \in Int /\ (now - Start) * MinRate \in Int
      BY <1>1
    <3>4. MinRate * (now - GraceEnd) <= received'
      BY <1>0, <1>1, <1>6, <3>1, <3>2, <3>3
    <3>5. QED
      BY <1>1, <1>6, <2>1, <3>4, <1>2 DEF Earned, GraceEnd
  <2>6. Watched'
    <3>0. GraceEnd' = GraceEnd /\ Idle * MinRate \in Int /\ since' \in Int
      BY <1>1, <1>2 DEF GraceEnd
    <3>1. SUFFICES ASSUME mark >= GraceEnd
                   PROVE  \/ now <= mark
                          \/ /\ 0 <= since'
                             /\ now < mark + 2 * Idle \/ Idle * MinRate <= since'
      <4>1. mark' = mark /\ window_bytes' = 0 /\ 0 + Idle * MinRate = Idle * MinRate
        BY <1>a, <1>6, <3>0
      <4>2. QED
        BY <2>1, <3>0, <4>1 DEF Watched
    <3>2. 0 <= since' /\ since' = since + n
      BY <1>2, <3>1
    <3>3. now <= deadline /\ deadline < Start + 2 * Idle
      BY <1>a, <1>6 DEF MeterInv, Judged
    <3>4. CASE Start <= mark
      BY <1>1, <3>2, <3>3, <3>4
    <3>5. CASE window_bytes <= since
      <4>1. Idle * MinRate <= (now - Start) * MinRate
        <5>1. MinRate * Idle <= MinRate * (now - Start)
          BY <1>1, <1>6, RateMonotone
        <5>2. QED
          BY <1>1, <5>1
      <4>2. Idle * MinRate \in Int /\ (now - Start) * MinRate \in Int
        BY <1>1
      <4>3. Idle * MinRate <= since'
        BY <1>1, <1>6, <3>2, <3>5, <4>1, <4>2
      <4>4. QED
        BY <3>2, <4>3
    <3>6. QED
      BY <1>a, <1>6, <3>1, <3>4, <3>5 DEF MeterInv, Watched
  <2>7. QED
    BY <1>6, <2>2, <2>3, <2>4, <2>5, <2>6, ReadingEndsInTime DEF MeterInv
<1>7. QED
  BY <1>0, <1>3, <1>4, <1>5, <1>6, FrameCases

\* Every step of MeteredBody keeps the invariant.
LEMMA MeterSteps == MeterInv /\ [MeterNext]_meterVars => MeterInv'
<1>1. SUFFICES ASSUME MeterInv, [MeterNext]_meterVars PROVE MeterInv'
  OBVIOUS
<1>2. CASE UNCHANGED meterVars
  BY <1>1, <1>2 DEF meterVars, MeterInv, MeterTypeOK, Judged, Earned, Watched, Marked, EndsInTime, Start, GraceEnd
<1>3. CASE MeterNext
  BY <1>1, <1>3, TickStep, EndStep, MarkStep, FrameStep DEF MeterNext
<1>4. QED
  BY <1>1, <1>2, <1>3

\* The inductive invariant holds of every body (MeteredBody::poll_frame).
THEOREM MeterInvCorrect == MeterSpec => []MeterInv
<1>1. MeterInit => MeterInv
  BY MeterStarts
<1>2. MeterInv /\ [MeterNext]_meterVars => MeterInv'
  BY MeterSteps
<1>3. QED
  BY <1>1, <1>2, PTL DEF MeterSpec

\* A body received no more than its cap and lasts, when its rate is judged, at
\* most four idle timeouts and the time its bytes take at the least rate
\* (EndsInTime), whatever the frames and the pauses between them.
THEOREM BodiesEndInTime == MeterSpec => []EndsInTime
<1>1. MeterInv => EndsInTime
  BY DEF MeterInv
<1>2. QED
  BY <1>1, MeterInvCorrect, PTL

\* Credit cannot be banked (RateKept): what arrived before a moment never pays
\* for more than four idle timeouts after it.
THEOREM CreditIsNotBanked == MeterSpec => []RateKept
<1>1. MeterInv => RateKept
  <2>1. SUFFICES ASSUME MeterInv, MinRate > 0, state = "reading", mark >= GraceEnd,
                        now > mark + 4 * Idle
                 PROVE  since >= Idle * MinRate
    BY DEF RateKept
  <2>2. now <= deadline /\ deadline < Start + 2 * Idle
    BY <2>1 DEF MeterInv, Judged
  <2>3. /\ Idle \in Nat /\ now \in Nat /\ deadline \in Nat /\ Start \in Int /\ mark \in Int
        /\ since \in Nat /\ window_bytes \in Nat /\ Idle * MinRate \in Int
    BY <2>1, IdleAssumption, RateAssumption, CapAssumption DEF MeterInv, MeterTypeOK, Start, GraceEnd
  <2>4. ~(Start < mark + 2 * Idle) /\ ~(Start <= mark)
    BY <2>1, <2>2, <2>3
  <2>5. window_bytes + Idle * MinRate <= since
    BY <2>1, <2>3, <2>4 DEF MeterInv, Watched
  <2>6. QED
    BY <2>3, <2>5
<1>2. QED
  BY <1>1, MeterInvCorrect, PTL

\* A body whose rate is judged keeps pace (KeepsPace), over all and in every
\* part: no frames and pauses make it last longer or let it bank credit.
THEOREM BodiesKeepPace == MeterSpec => []KeepsPace
BY BodiesEndInTime, CreditIsNotBanked, PTL DEF KeepsPace

-----------------------------------------------------------------------------
(* The proofs of signed reads: a proof granted to a request verified at time t *)
(* is remembered until the clock has shown t + 2 * Window, whatever the order  *)
(* in which requests prune the cache.                                          *)

NonceEntry == [expires : Int, proof : Proofs]
Reader == [pc : {"new", "body", "refused", "granted", "public"},
           proof : Proofs, at : Int, read : Int]

\* The types of the variables.
NonceTypeOK ==
    /\ clock \in Int /\ shown \in Int
    /\ signedAt \in [Proofs -> Int]
    /\ order \in Seq(NonceEntry)
    /\ seen \in [Proofs -> Int]
    /\ reader \in [Requests -> Reader]

\* A request whose header was accepted was verified at a time the clock has
\* shown, and not before the window of its proof.
InTime(r) ==
    reader[r].pc \in {"body", "granted"} =>
        /\ reader[r].at <= shown
        /\ signedAt[reader[r].proof] <= reader[r].at + Window

\* A granted proof is remembered, or two windows have passed.
Spent(r) ==
    reader[r].pc = "granted" =>
        \/ seen[reader[r].proof] >= reader[r].at + 2 * Window
        \/ shown >= reader[r].at + 2 * Window

NonceInv ==
    /\ NonceTypeOK /\ clock <= shown
    /\ \A r \in Requests : InTime(r) /\ Spent(r)
    /\ GrantedOnce

-----------------------------------------------------------------------------

\* Pruning keeps the queue a queue and forgets only what has expired.
LEMMA Pruning ==
    ASSUME NonceTypeOK, NEW t \in Int
    PROVE  /\ Pruned(t) \in Seq(NonceEntry)
           /\ Remembered(t) \in [Proofs -> Int]
           /\ \A p \in Proofs : Remembered(t)[p] = seen[p] \/ seen[p] <= t
<1>1. Expired(t) \subseteq 1 .. Len(order)
  BY DEF Expired, NonceTypeOK
<1>2. Cardinality(Expired(t)) \in Nat
  <2>1. IsFiniteSet(1 .. Len(order))
    BY FS_Interval DEF NonceTypeOK
  <2> QED BY <1>1, <2>1, FS_Subset, FS_CardinalityType
<1>3. Pruned(t) \in Seq(NonceEntry)
  BY <1>2 DEF Pruned, NonceTypeOK
<1>4. Remembered(t) \in [Proofs -> Int]
  BY DEF Remembered, NonceTypeOK
<1>5. ASSUME NEW p \in Proofs, Remembered(t)[p] # seen[p]
      PROVE  seen[p] <= t
  <2>1. PICK i \in Expired(t) : order[i] = [expires |-> seen[p], proof |-> p]
    BY <1>5 DEF Remembered
  <2>2. i \in 1 .. i /\ order[i].expires <= t
    BY <2>1, <1>1 DEF Expired
  <2> QED BY <2>1, <2>2
<1> QED BY <1>3, <1>4, <1>5

\* An entry expires two windows after its request, or later.
LEMMA Expiring ==
    ASSUME NEW t \in Int, NEW queue \in Seq(NonceEntry)
    PROVE  Expiry(t, queue) \in Int /\ Expiry(t, queue) >= t + 2 * Window
<1>1. Window \in Int
  BY ClockAssumption
<1>2. CASE queue = <<>>
  BY <1>1, <1>2 DEF Expiry
<1>3. CASE queue # <<>>
  <2>1. queue[Len(queue)] \in NonceEntry
    BY <1>3
  <2>2. queue[Len(queue)].expires \in Int
    BY <2>1 DEF NonceEntry
  <2> QED BY <1>1, <2>2 DEF Expiry
<1> QED BY <1>2, <1>3

LEMMA NonceStarts == NonceInit => NonceInv
<1> SUFFICES ASSUME NonceInit PROVE NonceInv
  OBVIOUS
<1>1. MaxNow \in Nat /\ \E p \in Proofs : TRUE
  BY ClockAssumption
<1>2. NonceTypeOK
  BY <1>1 DEF NonceInit, NonceTypeOK, Reader, NonceEntry
<1>3. clock <= shown
  BY DEF NonceInit
<1>4. \A r \in Requests : reader[r].pc = "new"
  BY DEF NonceInit
<1> QED BY <1>2, <1>3, <1>4 DEF NonceInv, InTime, Spent, GrantedOnce, Shared

\* Time may go on and back: what it has shown only grows.
LEMMA ClockKeeps ==
    ASSUME NonceInv, ClockTicks \/ ClockIsSetBack
    PROVE  NonceInv'
<1>1. UNCHANGED <<signedAt, order, seen, reader>>
  BY DEF ClockTicks, ClockIsSetBack
<1>2. clock \in Int /\ shown \in Int /\ clock <= shown
  BY DEF NonceInv, NonceTypeOK
<1>3. clock' \in Int /\ shown' \in Int /\ clock' <= shown' /\ shown <= shown'
  BY <1>2 DEF ClockTicks, ClockIsSetBack
<1>4. NonceTypeOK'
  BY <1>1, <1>3 DEF NonceInv, NonceTypeOK
<1>5. ASSUME NEW r \in Requests PROVE InTime(r)' /\ Spent(r)'
  <2>1. reader[r].at \in Int /\ Window \in Int
    BY ClockAssumption DEF NonceInv, NonceTypeOK, Reader
  <2>2. InTime(r) /\ Spent(r)
    BY DEF NonceInv
  <2> QED BY <1>1, <1>2, <1>3, <2>1, <2>2 DEF InTime, Spent
<1>6. GrantedOnce'
  BY <1>1 DEF NonceInv, GrantedOnce, Shared
<1> QED BY <1>3, <1>4, <1>5, <1>6 DEF NonceInv

LEMMA VerifyKeeps ==
    ASSUME NonceInv, NEW r \in Requests, Verify(r)
    PROVE  NonceInv'
<1>1. PICK p \in Proofs :
        reader' = [reader EXCEPT ![r] =
          [pc |-> IF Abs(clock - signedAt[p]) <= Window /\ ~ seen[p] > clock
                    THEN "body" ELSE "refused",
           proof |-> p, at |-> clock, read |-> 0]]
  BY DEF Verify
<1>2. UNCHANGED <<clock, shown, signedAt, order, seen>>
  BY DEF Verify
<1>3. /\ clock \in Int /\ shown \in Int /\ clock <= shown /\ Window \in Int
      /\ signedAt[p] \in Int /\ reader \in [Requests -> Reader]
  BY ClockAssumption DEF NonceInv, NonceTypeOK
<1>4. NonceTypeOK'
  BY <1>1, <1>2, <1>3 DEF NonceInv, NonceTypeOK, Reader
<1>5. InTime(r)' /\ Spent(r)'
  <2>1. reader'[r].proof = p /\ reader'[r].at = clock /\ reader'[r].pc # "granted"
    BY <1>1, <1>3
  <2>2. reader'[r].pc = "body" => Abs(clock - signedAt[p]) <= Window
    BY <1>1, <1>3
  <2> QED BY <1>2, <1>3, <2>1, <2>2 DEF InTime, Spent, Abs
<1>6. ASSUME NEW q \in Requests, q # r PROVE InTime(q)' /\ Spent(q)'
  <2>1. reader'[q] = reader[q]
    BY <1>1, <1>3, <1>6
  <2> QED BY <1>2, <2>1 DEF NonceInv, InTime, Spent
<1>7. GrantedOnce'
  BY <1>1, <1>3 DEF NonceInv, GrantedOnce, Shared
<1> QED BY <1>2, <1>3, <1>4, <1>5, <1>6, <1>7 DEF NonceInv

LEMMA ClaimKeeps ==
    ASSUME NonceInv, NEW r \in Requests, Claim(r)
    PROVE  NonceInv'
<1> DEFINE p == reader[r].proof
           t == reader[r].at
<1>1. /\ reader[r] \in Reader /\ p \in Proofs /\ t \in Int /\ Window \in Int
      /\ clock \in Int /\ shown \in Int /\ signedAt[p] \in Int /\ seen[p] \in Int
      /\ seen \in [Proofs -> Int] /\ reader \in [Requests -> Reader]
  BY ClockAssumption DEF NonceInv, NonceTypeOK, Reader
<1>2. /\ Pruned(t) \in Seq(NonceEntry)
      /\ Remembered(t) \in [Proofs -> Int]
      /\ \A x \in Proofs : Remembered(t)[x] = seen[x] \/ seen[x] <= t
  BY <1>1, Pruning DEF NonceInv
<1>3. Expiry(t, Pruned(t)) \in Int /\ Expiry(t, Pruned(t)) >= t + 2 * Window
  BY <1>1, <1>2, Expiring
<1>4. reader[r].pc = "body" /\ t <= shown /\ signedAt[p] <= t + Window
  BY DEF Claim, NonceInv, InTime
<1>5. UNCHANGED <<clock, shown, signedAt>> /\ clock <= shown
  BY DEF Claim, NonceInv
<1>6. CASE reader' = [reader EXCEPT ![r] = [@ EXCEPT !.pc = "public", !.read = shown]]
           /\ order' = Pruned(t) /\ seen' = Remembered(t)
  <2>1. NonceTypeOK'
    BY <1>1, <1>2, <1>5, <1>6 DEF NonceInv, NonceTypeOK, Reader
  <2>2. ASSUME NEW q \in Requests PROVE InTime(q)' /\ Spent(q)'
    <3>1. /\ reader'[q].at = reader[q].at /\ reader'[q].proof = reader[q].proof
          /\ reader'[q].pc = (IF q = r THEN "public" ELSE reader[q].pc)
      BY <1>1, <1>6
    <3>2. reader[q].at \in Int /\ reader[q].proof \in Proofs
          /\ seen[reader[q].proof] \in Int
      BY <1>1 DEF Reader
    <3>3. seen'[reader[q].proof] = seen[reader[q].proof] \/ seen[reader[q].proof] <= shown
      BY <1>1, <1>2, <1>4, <1>6, <3>2
    <3>4. InTime(q) /\ Spent(q)
      BY DEF NonceInv
    <3> QED BY <1>1, <1>5, <3>1, <3>2, <3>3, <3>4 DEF InTime, Spent
  <2>3. GrantedOnce'
    BY <1>1, <1>6 DEF NonceInv, GrantedOnce, Shared
  <2> QED BY <1>5, <2>1, <2>2, <2>3 DEF NonceInv
<1>7. CASE /\ ~ Remembered(t)[p] > t
           /\ reader' = [reader EXCEPT ![r] = [@ EXCEPT !.pc = "granted", !.read = shown]]
           /\ order' = Append(Pruned(t), [expires |-> Expiry(t, Pruned(t)), proof |-> p])
           /\ seen' = [Remembered(t) EXCEPT ![p] = Expiry(t, Pruned(t))]
  <2>1. NonceTypeOK'
    <3>1. [expires |-> Expiry(t, Pruned(t)), proof |-> p] \in NonceEntry
      BY <1>1, <1>3 DEF NonceEntry
    <3>2. order' \in Seq(NonceEntry)
      BY <1>2, <1>7, <3>1
    <3>3. seen' \in [Proofs -> Int]
      BY <1>2, <1>3, <1>7
    <3>4. reader' \in [Requests -> Reader]
      BY <1>1, <1>7 DEF Reader
    <3> QED BY <1>1, <1>5, <3>2, <3>3, <3>4 DEF NonceInv, NonceTypeOK
  <2>2. ASSUME NEW q \in Requests, reader[q].pc = "granted", reader[q].proof = p
        PROVE  shown >= reader[q].at + 2 * Window
    <3>1. reader[q].at \in Int
      BY <1>1 DEF Reader
    <3>2. Spent(q)
      BY DEF NonceInv
    <3>3. SUFFICES ASSUME seen[p] >= reader[q].at + 2 * Window,
                          shown < reader[q].at + 2 * Window
                   PROVE  FALSE
      BY <1>1, <2>2, <3>1, <3>2 DEF Spent
    <3>4. seen[p] > t
      BY <1>1, <1>4, <3>1, <3>3
    <3>5. Remembered(t)[p] = seen[p]
      BY <1>1, <1>2, <3>4
    <3>6. ~ Remembered(t)[p] > t
      BY <1>7
    <3> QED BY <3>4, <3>5, <3>6
  <2>3. ASSUME NEW q \in Requests
        PROVE  /\ reader'[q].at = reader[q].at /\ reader'[q].proof = reader[q].proof
               /\ reader'[q].pc = (IF q = r THEN "granted" ELSE reader[q].pc)
               /\ reader'[q].read = (IF q = r THEN shown ELSE reader[q].read)
    <3>1. CASE q = r
      BY <1>1, <1>7, <3>1 DEF Reader
    <3>2. CASE q # r
      BY <1>1, <1>7, <3>2
    <3> QED BY <3>1, <3>2
  <2>4. ASSUME NEW q \in Requests PROVE InTime(q)' /\ Spent(q)'
    <3>1. reader[q].at \in Int /\ reader[q].proof \in Proofs
          /\ seen[reader[q].proof] \in Int
      BY <1>1 DEF Reader
    <3>2. InTime(q) /\ Spent(q)
      BY DEF NonceInv
    <3>3. InTime(q)'
      BY <1>4, <1>5, <2>3, <3>2 DEF InTime
    <3>4. CASE q = r
      <4>1. seen'[p] = Expiry(t, Pruned(t))
        BY <1>1, <1>2, <1>7
      <4> QED BY <1>3, <2>3, <3>3, <3>4, <4>1 DEF Spent
    <3>5. CASE q # r /\ reader[q].proof = p
      BY <1>5, <2>2, <2>3, <3>3, <3>5 DEF Spent
    <3>6. CASE q # r /\ reader[q].proof # p
      <4>1. seen'[reader[q].proof] = seen[reader[q].proof]
            \/ seen[reader[q].proof] <= shown
        BY <1>1, <1>2, <1>4, <1>7, <3>1, <3>6
      <4> QED BY <1>1, <1>5, <2>3, <3>1, <3>2, <3>3, <3>6, <4>1 DEF Spent
    <3> QED BY <3>4, <3>5, <3>6
  <2>5. GrantedOnce'
    <3>1. ASSUME NEW a \in Requests, NEW b \in Requests, Shared(a, b)'
          PROVE  \/ reader'[b].read >= reader'[a].at + 2 * Window
                 \/ reader'[a].read >= reader'[b].at + 2 * Window
      <4>1. CASE a = r
        BY <2>2, <2>3, <3>1, <4>1 DEF Shared
      <4>2. CASE b = r
        BY <2>2, <2>3, <3>1, <4>2 DEF Shared
      <4>3. CASE a # r /\ b # r
        BY <2>3, <3>1, <4>3 DEF NonceInv, GrantedOnce, Shared
      <4> QED BY <4>1, <4>2, <4>3
    <3> QED BY <3>1 DEF GrantedOnce
  <2> QED BY <1>5, <2>1, <2>4, <2>5 DEF NonceInv
<1> QED BY <1>6, <1>7 DEF Claim

LEMMA NonceSteps == NonceInv /\ [NonceNext]_nonceVars => NonceInv'
<1> SUFFICES ASSUME NonceInv, [NonceNext]_nonceVars PROVE NonceInv'
  OBVIOUS
<1>1. CASE UNCHANGED nonceVars
  BY <1>1 DEF nonceVars, NonceInv, NonceTypeOK, InTime, Spent, GrantedOnce, Shared
<1>2. CASE ClockTicks \/ ClockIsSetBack
  BY <1>2, ClockKeeps
<1>3. ASSUME NEW r \in Requests, Verify(r) PROVE NonceInv'
  BY <1>3, VerifyKeeps
<1>4. ASSUME NEW r \in Requests, Claim(r) PROVE NonceInv'
  BY <1>4, ClaimKeeps
<1> QED BY <1>1, <1>2, <1>3, <1>4 DEF NonceNext

\* A spent proof stays spent for two windows: GrantedOnce holds in every
\* reachable state, whatever a client's clock says, however long requests take
\* and however the server's clock is set, for any capacity and quotas.
THEOREM ProofWorksOnce == NonceSpec => []GrantedOnce
<1>1. NonceInv => GrantedOnce
  BY DEF NonceInv
<1> QED BY NonceStarts, NonceSteps, <1>1, PTL DEF NonceSpec

\* And so a proof works once for those who read before the last second of its
\* window: a header is not accepted before that window begins.
THEOREM FreshProofWorksOnce == NonceSpec => []FreshWorksOnce
<1>1. NonceInv => FreshWorksOnce
  <2> SUFFICES ASSUME NonceInv, NEW q \in Requests, NEW r \in Requests, Shared(q, r)
               PROVE  \E a \in {q, r} :
                          reader[a].read >= signedAt[reader[a].proof] + Window
    BY DEF FreshWorksOnce
  <2>1. reader[q] \in Reader /\ reader[r] \in Reader /\ signedAt \in [Proofs -> Int]
        /\ Window \in Int
    BY ClockAssumption DEF NonceInv, NonceTypeOK
  <2>2. /\ reader[q].at \in Int /\ reader[q].read \in Int /\ reader[q].proof \in Proofs
        /\ reader[r].at \in Int /\ reader[r].read \in Int /\ reader[r].proof = reader[q].proof
    BY <2>1 DEF Reader, Shared
  <2>3. signedAt[reader[q].proof] \in Int
    BY <2>1, <2>2
  <2>4. /\ signedAt[reader[q].proof] <= reader[q].at + Window
        /\ signedAt[reader[q].proof] <= reader[r].at + Window
    BY <2>2 DEF NonceInv, InTime, Shared
  <2>5. \/ reader[r].read >= reader[q].at + 2 * Window
        \/ reader[q].read >= reader[r].at + 2 * Window
    BY DEF NonceInv, GrantedOnce
  <2> QED BY <2>1, <2>2, <2>3, <2>4, <2>5
<1> QED BY NonceStarts, NonceSteps, <1>1, PTL DEF NonceSpec

-----------------------------------------------------------------------------
(* Sums over the requests.  A sum of natural numbers is the cardinality of *)
(* the set of its units, so what the library says of finite sets says what *)
(* a sum becomes when one term changes.                                    *)

Units(f, S) == {u \in S \X Nat : u[2] \in 1 .. f[u[1]]}

\* The element a fold takes first.
First(S) == CHOOSE x \in S : TRUE

\* A non-empty set of subsets of a finite set has a smallest one.
LEMMA LeastSubset ==
    ASSUME NEW S, IsFiniteSet(S), NEW B \in SUBSET SUBSET S, B # {}
    PROVE  \E s \in B : \A x \in s : s \ {x} \notin B
<1>1. FiniteSubsetsOf(S) = SUBSET S
  BY FS_FiniteSubsetsOfFinite
<1>2. IsWellFoundedOn(StrictSubsetOrdering(S), SUBSET S)
  BY <1>1, FS_StrictSubsetOrderingWellFounded
<1>3. PICK s \in B : \A t \in B : ~(<<t, s>> \in StrictSubsetOrdering(S))
  BY <1>2, WFMin
<1>4. ASSUME NEW x \in s PROVE s \ {x} \notin B
  <2>1. <<s \ {x}, s>> \in StrictSubsetOrdering(S)
    BY DEF StrictSubsetOrdering
  <2>2. QED
    BY <1>3, <2>1
<1>5. QED
  BY <1>4

LEMMA UnitsOfOne ==
    ASSUME NEW f, NEW x, f[x] \in Nat
    PROVE  IsFiniteSet(Units(f, {x})) /\ Cardinality(Units(f, {x})) = f[x]
<1> DEFINE n == f[x]
           b == [i \in 1 .. n |-> <<x, i>>]
           T == Units(f, {x})
<1>1. b \in Bijection(1 .. n, T)
  <2>1. b \in [1 .. n -> T]
    BY DEF Units
  <2>2. \A i, j \in 1 .. n : b[i] = b[j] => i = j
    OBVIOUS
  <2>3. \A u \in T : \E i \in 1 .. n : b[i] = u
    BY DEF Units
  <2>4. QED
    BY <2>1, <2>2, <2>3 DEF Bijection, Injection, Surjection, IsInjective
<1>2. IsFiniteSet(1 .. n) /\ Cardinality(1 .. n) = n
  BY FS_Interval
<1>3. ExistsBijection(1 .. n, T)
  BY <1>1 DEF ExistsBijection
<1>4. QED
  BY <1>2, <1>3, FS_Bijection

LEMMA UnitsSplit ==
    ASSUME NEW f, NEW S, NEW x \in S
    PROVE  /\ Units(f, S) = Units(f, S \ {x}) \cup Units(f, {x})
           /\ Units(f, S \ {x}) \cap Units(f, {x}) = {}
BY DEF Units

LEMMA UnitsFinite ==
    ASSUME NEW S, IsFiniteSet(S), NEW f, \A x \in S : f[x] \in Nat
    PROVE  \A s \in SUBSET S : IsFiniteSet(Units(f, s)) /\ Cardinality(Units(f, s)) \in Nat
<1> DEFINE B == {s \in SUBSET S : ~IsFiniteSet(Units(f, s))}
<1>1. B = {}
  <2> SUFFICES ASSUME B # {} PROVE FALSE
    OBVIOUS
  <2>1. PICK s \in B : \A x \in s : s \ {x} \notin B
    BY LeastSubset
  <2>2. CASE s = {}
    <3>1. Units(f, s) = {}
      BY <2>2 DEF Units
    <3>2. QED
      BY <2>1, <3>1, FS_EmptySet
  <2>3. CASE s # {}
    <3>1. PICK x \in s : TRUE
      BY <2>3
    <3>2. IsFiniteSet(Units(f, s \ {x}))
      BY <2>1, <3>1
    <3>3. IsFiniteSet(Units(f, {x}))
      BY UnitsOfOne
    <3>4. Units(f, s) = Units(f, s \ {x}) \cup Units(f, {x})
      BY UnitsSplit
    <3> DEFINE a == Units(f, s \ {x})
               b == Units(f, {x})
    <3> HIDE DEF a, b
    <3>5. IsFiniteSet(a) /\ IsFiniteSet(b)
      BY <3>2, <3>3 DEF a, b
    <3>6. IsFiniteSet(a \cup b)
      BY <3>5, FS_Union
    <3>7. QED
      BY <2>1, <3>4, <3>6 DEF a, b
  <2>4. QED
    BY <2>2, <2>3
<1>2. QED
  BY <1>1, FS_CardinalityType

LEMMA UnitsAdd ==
    ASSUME NEW S, IsFiniteSet(S), NEW f, \A y \in S : f[y] \in Nat, NEW x \in S
    PROVE  Cardinality(Units(f, S)) = f[x] + Cardinality(Units(f, S \ {x}))
<1>1. IsFiniteSet(Units(f, S \ {x})) /\ Cardinality(Units(f, S \ {x})) \in Nat
  BY UnitsFinite
<1>2. IsFiniteSet(Units(f, {x})) /\ Cardinality(Units(f, {x})) = f[x]
  BY UnitsOfOne
<1>3. /\ Units(f, S) = Units(f, S \ {x}) \cup Units(f, {x})
      /\ Units(f, S \ {x}) \cap Units(f, {x}) = {}
  BY UnitsSplit
<1> DEFINE a == Units(f, S \ {x})
           b == Units(f, {x})
<1> HIDE DEF a, b
<1>4. IsFiniteSet(a) /\ IsFiniteSet(b) /\ a \cap b = {}
  BY <1>1, <1>2, <1>3 DEF a, b
<1>5. Cardinality(a \cup b) = Cardinality(a) + Cardinality(b) - Cardinality(a \cap b)
  BY <1>4, FS_Union
<1>6. Cardinality(a \cap b) = 0
  BY <1>4, FS_EmptySet
<1>7. Cardinality(a) \in Nat /\ Cardinality(b) = f[x]
  BY <1>1, <1>2 DEF a, b
<1>8. Cardinality(a \cup b) = f[x] + Cardinality(a)
  BY <1>5, <1>6, <1>7
<1>9. QED
  BY <1>3, <1>8 DEF a, b

\* What a fold computes from the subsets it passes.
IsFold(it, f, S) ==
    it = [s \in SUBSET S |-> IF s = {} THEN 0 ELSE f[First(s)] + it[s \ {First(s)}]]

LEMMA FoldExists ==
    ASSUME NEW S, IsFiniteSet(S), NEW f, \A x \in S : f[x] \in Nat
    PROVE  IsFold([s \in SUBSET S |-> Cardinality(Units(f, s))], f, S)
<1> DEFINE c == [s \in SUBSET S |-> Cardinality(Units(f, s))]
<1>1. ASSUME NEW s \in SUBSET S
      PROVE  c[s] = IF s = {} THEN 0 ELSE f[First(s)] + c[s \ {First(s)}]
  <2>1. CASE s = {}
    <3>1. Units(f, s) = {}
      BY <2>1 DEF Units
    <3>2. QED
      BY <2>1, <3>1, FS_EmptySet
  <2>2. CASE s # {}
    <3>1. First(s) \in s
      BY <2>2 DEF First
    <3>2. IsFiniteSet(s)
      BY FS_Subset
    <3>3. s \ {First(s)} \in SUBSET S
      OBVIOUS
    <3>4. QED
      BY <2>2, <3>1, <3>2, <3>3, UnitsAdd
  <2>3. QED
    BY <2>1, <2>2
<1>2. QED
  BY <1>1 DEF IsFold

LEMMA FoldUnique ==
    ASSUME NEW S, IsFiniteSet(S), NEW f, NEW it, NEW c, IsFold(it, f, S), IsFold(c, f, S)
    PROVE  \A s \in SUBSET S : it[s] = c[s]
<1> DEFINE B == {s \in SUBSET S : it[s] # c[s]}
<1> SUFFICES ASSUME B # {} PROVE FALSE
  OBVIOUS
<1>1. PICK s \in B : \A x \in s : s \ {x} \notin B
  BY LeastSubset
<1>2. /\ it[s] = IF s = {} THEN 0 ELSE f[First(s)] + it[s \ {First(s)}]
      /\ c[s] = IF s = {} THEN 0 ELSE f[First(s)] + c[s \ {First(s)}]
  BY <1>1 DEF IsFold
<1>3. s # {} => First(s) \in s
  BY DEF First
<1>4. s # {} => it[s \ {First(s)}] = c[s \ {First(s)}]
  BY <1>1, <1>3
<1>5. QED
  BY <1>1, <1>2, <1>4

LEMMA SumOfUnits ==
    ASSUME NEW S, IsFiniteSet(S), NEW f, \A x \in S : f[x] \in Nat
    PROVE  SumFunctionOnSet(f, S) = Cardinality(Units(f, S))
<1> DEFINE it == CHOOSE it : IsFold(it, f, S)
           c == [s \in SUBSET S |-> Cardinality(Units(f, s))]
<1>1. SumFunctionOnSet(f, S) = it[S]
  BY DEF SumFunctionOnSet, FoldFunctionOnSet, MapThenFoldSet, IsFold, First
<1>2. IsFold(c, f, S)
  BY FoldExists
<1> HIDE DEF c
<1>3. IsFold(it, f, S)
  BY <1>2
<1> HIDE DEF it
<1>4. it[S] = c[S]
  BY <1>2, <1>3, FoldUnique
<1>5. QED
  BY <1>1, <1>4 DEF c

\* A sum is what one term and the others give.
LEMMA SumSplit ==
    ASSUME NEW S, IsFiniteSet(S), NEW f, \A y \in S : f[y] \in Nat, NEW x
    PROVE  /\ SumFunctionOnSet(f, S) \in Nat /\ SumFunctionOnSet(f, S \ {x}) \in Nat
           /\ SumFunctionOnSet(f, S)
                = SumFunctionOnSet(f, S \ {x}) + (IF x \in S THEN f[x] ELSE 0)
<1>1. IsFiniteSet(S \ {x}) /\ \A y \in S \ {x} : f[y] \in Nat
  BY FS_RemoveElement
<1>2. /\ SumFunctionOnSet(f, S) = Cardinality(Units(f, S))
      /\ SumFunctionOnSet(f, S \ {x}) = Cardinality(Units(f, S \ {x}))
  BY <1>1, SumOfUnits
<1>3. Cardinality(Units(f, S)) \in Nat /\ Cardinality(Units(f, S \ {x})) \in Nat
  BY UnitsFinite
<1>4. CASE x \in S
  BY <1>2, <1>3, <1>4, UnitsAdd
<1>5. CASE x \notin S
  <2>1. S \ {x} = S
    BY <1>5
  <2>2. QED
    BY <1>2, <1>3, <1>5, <2>1
<1>6. QED
  BY <1>4, <1>5

\* A sum does not depend on the terms it leaves out.
LEMMA SumSame ==
    ASSUME NEW S, IsFiniteSet(S), NEW f, NEW g,
           \A y \in S : f[y] \in Nat /\ f[y] = g[y]
    PROVE  SumFunctionOnSet(f, S) = SumFunctionOnSet(g, S)
<1>1. Units(f, S) = Units(g, S)
  BY DEF Units
<1>2. QED
  BY <1>1, SumOfUnits

-----------------------------------------------------------------------------
(* The budget of bodies.  A step moves one request; the invariant is kept  *)
(* when what that request has of its pool, and what its peer is charged for*)
(* it, change as the counters do.                                          *)

\* What one request has of a pool, and what its peer is charged for it.
TakenBy(r, c) == IF class[r] = c THEN Taken[r] ELSE 0
ChargedTo(r, p, c) == IF class[r] = c /\ peer[r] = p THEN Charged[r] ELSE 0

\* What each request holds at the points of its way.
Phases ==
    \A r \in Bodies :
        /\ pc[r] \in {"none", "return", "return_drop", "uncharge", "uncharge_drop", "leave"} =>
              held[r] = 0
        /\ pc[r] \in {"charge", "acquire", "undo"} => held[r] <= want[r]
        /\ pc[r] = "none" => class[r] = "small"

LargeOf(p) == Of("large") \cap From(p)

\* The peers' large reservations are the large requests that came from them.
BodiesCounted == \A p \in Peers : bodies[p] = Cardinality(LargeOf(p))

BudgetInv == BudgetTypeOK /\ Phases /\ BodiesCounted /\ BudgetConserved

\* Only request r moves, and what it has and is charged for changes as the
\* counters do.
OnlyMoves(r) ==
    \A q \in Bodies \ {r} : /\ pc'[q] = pc[q] /\ class'[q] = class[q] /\ peer'[q] = peer[q]
                            /\ held'[q] = held[q] /\ want'[q] = want[q]

PoolEven(r) ==
    \A c \in Classes : permits'[c] + TakenBy(r, c)' = permits[c] + TakenBy(r, c)

PeersEven(r) ==
    \A p \in Peers :
        /\ \A c \in Classes :
              /\ UseOf(p)'.units[c] + ChargedTo(r, p, c) = UseOf(p).units[c] + ChargedTo(r, p, c)'
              /\ UseOf(p)'.units[c] <= Share[c]
        /\ UseOf(p)'.large_bodies = bodies'[p]

BodiesEven(r) ==
    \A p \in Peers :
        bodies'[p] + (IF class[r] = "large" /\ peer[r] = p THEN 1 ELSE 0)
          = bodies[p] + (IF class'[r] = "large" /\ peer'[r] = p THEN 1 ELSE 0)

LEMMA SumMoves ==
    ASSUME NEW S, IsFiniteSet(S), NEW f \in [S -> Nat], NEW g \in [S -> Nat],
           NEW A \in SUBSET S, NEW B \in SUBSET S, NEW r \in S,
           \A q \in S \ {r} : f[q] = g[q] /\ (q \in A <=> q \in B)
    PROVE  SumFunctionOnSet(g, B) + (IF r \in A THEN f[r] ELSE 0)
             = SumFunctionOnSet(f, A) + (IF r \in B THEN g[r] ELSE 0)
<1>1. IsFiniteSet(A) /\ IsFiniteSet(B)
  BY FS_Subset
<1>2. (\A y \in A : f[y] \in Nat) /\ (\A y \in B : g[y] \in Nat)
  OBVIOUS
<1>3. A \ {r} = B \ {r}
  OBVIOUS
<1>4. \A y \in A \ {r} : f[y] \in Nat /\ f[y] = g[y]
  OBVIOUS
<1>5. IsFiniteSet(A \ {r})
  BY <1>1, FS_RemoveElement
<1>6. SumFunctionOnSet(f, A \ {r}) = SumFunctionOnSet(g, A \ {r})
  BY <1>4, <1>5, SumSame
<1>7. /\ SumFunctionOnSet(f, A \ {r}) \in Nat
      /\ SumFunctionOnSet(f, A) = SumFunctionOnSet(f, A \ {r}) + (IF r \in A THEN f[r] ELSE 0)
  BY <1>1, <1>2, SumSplit
<1>8. /\ SumFunctionOnSet(g, B \ {r}) \in Nat
      /\ SumFunctionOnSet(g, B) = SumFunctionOnSet(g, B \ {r}) + (IF r \in B THEN g[r] ELSE 0)
  BY <1>1, <1>2, SumSplit
<1>9. f[r] \in Nat /\ g[r] \in Nat
  OBVIOUS
<1>10. QED
  BY SMTT(30), <1>3, <1>6, <1>7, <1>8, <1>9

LEMMA UpToMax ==
    ASSUME NEW n \in 0 .. MaxUnits
    PROVE  n \in Nat
BY BodiesAssumption

LEMMA WeightsTyped ==
    ASSUME BudgetTypeOK, Phases
    PROVE  /\ Taken \in [Bodies -> Nat] /\ Charged \in [Bodies -> Nat]
           /\ \A r \in Bodies : held[r] \in Nat /\ want[r] \in Nat
<1>1. \A r \in Bodies : held[r] \in 0 .. MaxUnits /\ want[r] \in 0 .. MaxUnits
  BY DEF BudgetTypeOK
<1>2. \A r \in Bodies : held[r] \in Nat /\ want[r] \in Nat
  BY <1>1, UpToMax
<1>3. ASSUME NEW r \in Bodies
      PROVE  /\ held[r] + (IF pc[r] \in {"return", "return_drop"} THEN want[r] ELSE 0) \in Nat
             /\ held[r] + (IF pc[r] \in {"acquire", "undo"} THEN Extra(r)
                  ELSE IF pc[r] \in {"return", "return_drop", "uncharge", "uncharge_drop"}
                  THEN want[r] ELSE 0) \in Nat
  <2>1. held[r] \in Nat /\ want[r] \in Nat
    BY <1>2
  <2>2. pc[r] \in {"acquire", "undo"} => held[r] <= want[r]
    BY DEF Phases
  <2>3. pc[r] \in {"acquire", "undo"} => Extra(r) \in Nat
    BY <2>1, <2>2 DEF Extra
  <2>4. \A m, n \in Nat : m + n \in Nat
    OBVIOUS
  <2>5. CASE pc[r] \in {"acquire", "undo"}
    BY <2>1, <2>3, <2>4, <2>5
  <2>6. CASE pc[r] \notin {"acquire", "undo"}
    BY <2>1, <2>4, <2>6
  <2>7. QED
    BY <2>5, <2>6
<1>4. QED
  BY <1>2, <1>3 DEF Taken, Charged

LEMMA WeightsTypedNext ==
    ASSUME BudgetTypeOK', Phases'
    PROVE  /\ Taken' \in [Bodies -> Nat] /\ Charged' \in [Bodies -> Nat]
           /\ \A r \in Bodies : held'[r] \in Nat /\ want'[r] \in Nat
<1>1. \A r \in Bodies : held'[r] \in 0 .. MaxUnits /\ want'[r] \in 0 .. MaxUnits
  BY DEF BudgetTypeOK
<1>2. \A r \in Bodies : held'[r] \in Nat /\ want'[r] \in Nat
  BY <1>1, UpToMax
<1>3. ASSUME NEW r \in Bodies
      PROVE  /\ held'[r] + (IF pc'[r] \in {"return", "return_drop"} THEN want'[r] ELSE 0) \in Nat
             /\ held'[r] + (IF pc'[r] \in {"acquire", "undo"} THEN Extra(r)'
                  ELSE IF pc'[r] \in {"return", "return_drop", "uncharge", "uncharge_drop"}
                  THEN want'[r] ELSE 0) \in Nat
  <2>1. held'[r] \in Nat /\ want'[r] \in Nat
    BY <1>2
  <2>2. pc'[r] \in {"acquire", "undo"} => held'[r] <= want'[r]
    BY DEF Phases
  <2>3. pc'[r] \in {"acquire", "undo"} => Extra(r)' \in Nat
    BY <2>1, <2>2 DEF Extra
  <2>4. \A m, n \in Nat : m + n \in Nat
    OBVIOUS
  <2>5. CASE pc'[r] \in {"acquire", "undo"}
    BY <2>1, <2>3, <2>4, <2>5
  <2>6. CASE pc'[r] \notin {"acquire", "undo"}
    BY <2>1, <2>4, <2>6
  <2>7. QED
    BY <2>5, <2>6
<1>4. QED
  BY <1>2, <1>3 DEF Taken, Charged

LEMMA UseTyped ==
    ASSUME BudgetTypeOK, NEW p \in Peers
    PROVE  /\ UseOf(p) \in PeerUse /\ UseOf(p).large_bodies \in Nat
           /\ \A c \in Classes : UseOf(p).units[c] \in Nat
<1>1. UseOf(p) \in PeerUse
  BY DEF BudgetTypeOK, UseOf, Unused, PeerUse
<1>2. QED
  BY <1>1 DEF PeerUse

LEMMA UseTypedNext ==
    ASSUME BudgetTypeOK', NEW p \in Peers
    PROVE  /\ UseOf(p)' \in PeerUse /\ UseOf(p)'.large_bodies \in Nat
           /\ \A c \in Classes : UseOf(p)'.units[c] \in Nat
<1>1. UseOf(p)' \in PeerUse
  BY DEF BudgetTypeOK, UseOf, Unused, PeerUse
<1>2. QED
  BY <1>1 DEF PeerUse

LEMMA PoolMoves ==
    ASSUME BudgetInv, BudgetTypeOK', Phases', NEW r \in Bodies, OnlyMoves(r), PoolEven(r)
    PROVE  \A c \in Classes : permits'[c] + SumFunctionOnSet(Taken', Of(c)') = Pool[c]
<1> SUFFICES ASSUME NEW c \in Classes
             PROVE  permits'[c] + SumFunctionOnSet(Taken', Of(c)') = Pool[c]
  OBVIOUS
<1>1. Taken \in [Bodies -> Nat] /\ Taken' \in [Bodies -> Nat]
  BY WeightsTyped, WeightsTypedNext DEF BudgetInv
<1>2. \A q \in Bodies \ {r} : Taken[q] = Taken'[q] /\ (q \in Of(c) <=> q \in Of(c)')
  BY DEF OnlyMoves, Taken, Of
<1>3. Of(c) \in SUBSET Bodies /\ Of(c)' \in SUBSET Bodies
  BY DEF Of
<1> DEFINE t == Taken
           u == Taken'
           a == Of(c)
           b == Of(c)'
<1>4. (r \in a <=> class[r] = c) /\ (r \in b <=> class'[r] = c)
  BY DEF Of
<1>5. permits[c] + SumFunctionOnSet(t, a) = Pool[c]
  BY DEF BudgetInv, BudgetConserved
<1>6. permits'[c] + (IF class'[r] = c THEN u[r] ELSE 0) = permits[c] + (IF class[r] = c THEN t[r] ELSE 0)
  BY DEF PoolEven, TakenBy
<1>7. permits[c] \in Nat /\ permits'[c] \in Nat
  BY DEF BudgetInv, BudgetTypeOK
<1> HIDE DEF t, u, a, b
<1>8. t \in [Bodies -> Nat] /\ u \in [Bodies -> Nat] /\ t[r] \in Nat /\ u[r] \in Nat
  BY <1>1 DEF t, u
<1>9. \A q \in Bodies \ {r} : t[q] = u[q] /\ (q \in a <=> q \in b)
  BY <1>2 DEF t, u, a, b
<1>10. a \in SUBSET Bodies /\ b \in SUBSET Bodies
  BY <1>3 DEF a, b
<1>11. SumFunctionOnSet(u, b) + (IF r \in a THEN t[r] ELSE 0)
         = SumFunctionOnSet(t, a) + (IF r \in b THEN u[r] ELSE 0)
  BY <1>8, <1>9, <1>10, FiniteBodies, SumMoves
<1>12. SumFunctionOnSet(u, b) \in Nat /\ SumFunctionOnSet(t, a) \in Nat
  <2>1. IsFiniteSet(a) /\ IsFiniteSet(b)
    BY <1>10, FiniteBodies, FS_Subset
  <2>2. QED
    BY <1>8, <1>10, <2>1, SumSplit
<1>13. permits'[c] + SumFunctionOnSet(u, b) = Pool[c]
  BY <1>4, <1>5, <1>6, <1>7, <1>8, <1>11, <1>12
<1>14. QED
  BY <1>13 DEF u, b

LEMMA PeersMove ==
    ASSUME BudgetInv, BudgetTypeOK', Phases', NEW r \in Bodies, OnlyMoves(r), PeersEven(r),
           NEW p \in Peers, NEW c \in Classes
    PROVE  UseOf(p)'.units[c] = SumFunctionOnSet(Charged', (Of(c) \cap From(p))')
<1>1. Charged \in [Bodies -> Nat] /\ Charged' \in [Bodies -> Nat]
  BY WeightsTyped, WeightsTypedNext DEF BudgetInv
<1> DEFINE t == Charged
           u == Charged'
           a == Of(c) \cap From(p)
           b == (Of(c) \cap From(p))'
           m == UseOf(p).units[c]
           n == UseOf(p)'.units[c]
<1>2. \A q \in Bodies \ {r} : t[q] = u[q] /\ (q \in a <=> q \in b)
  BY DEF OnlyMoves, Charged, Extra, Of, From
<1>3. a \in SUBSET Bodies /\ b \in SUBSET Bodies
  BY DEF Of
<1>4. (r \in a <=> class[r] = c /\ peer[r] = p) /\ (r \in b <=> class'[r] = c /\ peer'[r] = p)
  BY DEF Of, From
<1>5. m = SumFunctionOnSet(t, a)
  BY DEF BudgetInv, BudgetConserved
<1>6. n + (IF class[r] = c /\ peer[r] = p THEN t[r] ELSE 0)
        = m + (IF class'[r] = c /\ peer'[r] = p THEN u[r] ELSE 0)
  BY DEF PeersEven, ChargedTo
<1>7. n \in Nat
  BY UseTypedNext
<1> HIDE DEF t, u, a, b, m, n
<1>8. t \in [Bodies -> Nat] /\ u \in [Bodies -> Nat] /\ t[r] \in Nat /\ u[r] \in Nat
  BY <1>1 DEF t, u
<1>9. SumFunctionOnSet(u, b) + (IF r \in a THEN t[r] ELSE 0)
         = SumFunctionOnSet(t, a) + (IF r \in b THEN u[r] ELSE 0)
  BY <1>2, <1>3, <1>8, FiniteBodies, SumMoves
<1>10. SumFunctionOnSet(u, b) \in Nat /\ SumFunctionOnSet(t, a) \in Nat
  <2>1. IsFiniteSet(a) /\ IsFiniteSet(b)
    BY <1>3, FiniteBodies, FS_Subset
  <2>2. QED
    BY <1>3, <1>8, <2>1, SumSplit
<1>11. n = SumFunctionOnSet(u, b)
  BY <1>4, <1>5, <1>6, <1>7, <1>8, <1>9, <1>10
<1>12. QED
  BY <1>11 DEF n, u, b

LEMMA BodiesMove ==
    ASSUME BudgetInv, BudgetTypeOK', NEW r \in Bodies, OnlyMoves(r), BodiesEven(r)
    PROVE  BodiesCounted'
<1> SUFFICES ASSUME NEW p \in Peers
             PROVE  bodies'[p] = Cardinality(LargeOf(p)')
  BY DEF BodiesCounted
<1> DEFINE a == LargeOf(p)
           b == LargeOf(p)'
           m == bodies[p]
           n == bodies'[p]
<1>1. a \in SUBSET Bodies /\ b \in SUBSET Bodies
  BY DEF LargeOf, Of
<1>2. \A q \in Bodies \ {r} : q \in a <=> q \in b
  BY DEF OnlyMoves, LargeOf, Of, From
<1>3. (r \in a <=> class[r] = "large" /\ peer[r] = p)
      /\ (r \in b <=> class'[r] = "large" /\ peer'[r] = p)
  BY DEF LargeOf, Of, From
<1>4. m = Cardinality(a)
  BY DEF BudgetInv, BodiesCounted
<1>5. n + (IF class[r] = "large" /\ peer[r] = p THEN 1 ELSE 0)
        = m + (IF class'[r] = "large" /\ peer'[r] = p THEN 1 ELSE 0)
  BY DEF BodiesEven
<1>6. n \in 0 .. BodiesPerPeer
  BY DEF BudgetTypeOK
<1> HIDE DEF a, b, m, n
<1>7. IsFiniteSet(a) /\ IsFiniteSet(b)
  BY <1>1, FiniteBodies, FS_Subset
<1>8. a \ {r} = b \ {r}
  BY <1>1, <1>2
<1>9. /\ Cardinality(a) \in Nat /\ Cardinality(b) \in Nat
  BY <1>7, FS_CardinalityType
<1>10. Cardinality(a \ {r}) = IF r \in a THEN Cardinality(a) - 1 ELSE Cardinality(a)
  BY <1>7, FS_RemoveElement
<1>11. Cardinality(b \ {r}) = IF r \in b THEN Cardinality(b) - 1 ELSE Cardinality(b)
  BY <1>7, FS_RemoveElement
<1>12. n \in Int
  BY <1>6, BodiesAssumption
<1> DEFINE before == IF r \in a THEN 1 ELSE 0
           after == IF r \in b THEN 1 ELSE 0
<1>13. n + before = m + after
  BY <1>3, <1>5
<1>14. Cardinality(a) - before = Cardinality(b) - after
  <2>1. Cardinality(a \ {r}) = Cardinality(b \ {r})
    BY <1>8
  <2>2. Cardinality(a \ {r}) = Cardinality(a) - before
    BY <1>9, <1>10
  <2>3. Cardinality(b \ {r}) = Cardinality(b) - after
    BY <1>9, <1>11
  <2>4. QED
    BY <2>1, <2>2, <2>3
<1>15. before \in Int /\ after \in Int
  OBVIOUS
<1> DEFINE x == Cardinality(a)
           y == Cardinality(b)
<1> HIDE DEF before, after, x, y
<1>16. n = y
  <2>1. x \in Nat /\ y \in Nat /\ m = x
    BY <1>4, <1>9 DEF x, y
  <2>2. x - before = y - after
    BY <1>14 DEF x, y
  <2>3. QED
    BY <1>12, <1>13, <1>15, <2>1, <2>2
<1>17. QED
  BY <1>16 DEF n, b, y

\* One request's step keeps the invariant, when it is even.
LEMMA StepConserves ==
    ASSUME BudgetInv, BudgetTypeOK', Phases', NEW r \in Bodies,
           OnlyMoves(r), PoolEven(r), PeersEven(r), BodiesEven(r)
    PROVE  BudgetInv'
<1>1. \A c \in Classes : permits'[c] + SumFunctionOnSet(Taken', Of(c)') = Pool[c]
  BY PoolMoves
<1>2. \A p \in Peers, c \in Classes :
        UseOf(p)'.units[c] = SumFunctionOnSet(Charged', (Of(c) \cap From(p))')
  BY PeersMove
<1>3. \A p \in Peers : /\ \A c \in Classes : UseOf(p)'.units[c] <= Share[c]
                       /\ UseOf(p)'.large_bodies = bodies'[p]
  BY DEF PeersEven
<1>4. BudgetConserved'
  BY <1>1, <1>2, <1>3 DEF BudgetConserved
<1>5. BodiesCounted'
  BY BodiesMove
<1>6. QED
  BY <1>4, <1>5 DEF BudgetInv

LEMMA SetUseLaw ==
    ASSUME BudgetTypeOK, NEW p \in Peers, NEW u \in PeerUse, SetUse(p, u)
    PROVE  /\ DOMAIN peers' \subseteq Peers /\ \A q \in DOMAIN peers' : peers'[q] \in PeerUse
           /\ UseOf(p)' = u
           /\ \A q \in Peers : q # p => UseOf(q)' = UseOf(q)
<1> DEFINE d == (DOMAIN peers \cup {p}) \ (IF u = Unused THEN {p} ELSE {})
<1>1. peers' = [q \in d |-> IF q = p THEN u ELSE peers[q]]
  BY DEF SetUse
<1>2. DOMAIN peers' = d /\ \A q \in d : peers'[q] = IF q = p THEN u ELSE peers[q]
  BY <1>1
<1>3. /\ p \in d <=> u # Unused
      /\ \A q : q # p => (q \in d <=> q \in DOMAIN peers)
  OBVIOUS
<1>4. DOMAIN peers \subseteq Peers /\ \A q \in DOMAIN peers : peers[q] \in PeerUse
  BY DEF BudgetTypeOK
<1> HIDE DEF d
<1>5. DOMAIN peers' \subseteq Peers /\ \A q \in DOMAIN peers' : peers'[q] \in PeerUse
  BY <1>2, <1>3, <1>4
<1>6. UseOf(p)' = u
  BY <1>2, <1>3 DEF UseOf
<1>7. \A q \in Peers : q # p => UseOf(q)' = UseOf(q)
  BY <1>2, <1>3 DEF UseOf
<1>8. QED
  BY <1>5, <1>6, <1>7

LEMMA UseStays ==
    ASSUME UNCHANGED peers
    PROVE  \A q : UseOf(q)' = UseOf(q)
BY DEF UseOf

\* A peer is charged at least for each of its requests.
LEMMA ChargedIsCounted ==
    ASSUME BudgetInv, NEW r \in Bodies, peer[r] \in Peers
    PROVE  Charged[r] \in Nat /\ Charged[r] <= UseOf(peer[r]).units[class[r]]
<1> DEFINE a == Of(class[r]) \cap From(peer[r])
           t == Charged
<1>1. t \in [Bodies -> Nat]
  BY WeightsTyped DEF BudgetInv
<1>2. class[r] \in Classes
  BY DEF BudgetInv, BudgetTypeOK
<1>3. UseOf(peer[r]).units[class[r]] = SumFunctionOnSet(t, a)
  BY <1>2 DEF BudgetInv, BudgetConserved
<1>4. a \in SUBSET Bodies /\ r \in a
  BY DEF Of, From
<1> HIDE DEF t, a
<1>5. IsFiniteSet(a)
  BY <1>4, FiniteBodies, FS_Subset
<1>6. /\ SumFunctionOnSet(t, a \ {r}) \in Nat
      /\ SumFunctionOnSet(t, a) = SumFunctionOnSet(t, a \ {r}) + t[r]
  BY <1>1, <1>4, <1>5, SumSplit
<1>7. t[r] \in Nat /\ t[r] <= SumFunctionOnSet(t, a)
  BY <1>1, <1>6
<1>8. QED
  BY <1>3, <1>7 DEF t

\* A peer with a large request in flight has it counted.
LEMMA LargeIsCounted ==
    ASSUME BudgetInv, NEW r \in Bodies, class[r] = "large", peer[r] \in Peers
    PROVE  bodies[peer[r]] >= 1
<1> DEFINE a == LargeOf(peer[r])
<1>1. a \in SUBSET Bodies /\ r \in a
  BY DEF LargeOf, Of, From
<1>2. bodies[peer[r]] = Cardinality(a)
  BY DEF BudgetInv, BodiesCounted
<1> HIDE DEF a
<1>3. IsFiniteSet(a)
  BY <1>1, FiniteBodies, FS_Subset
<1>4. Cardinality(a) \in Nat /\ Cardinality(a) # 0
  BY <1>1, <1>3, FS_CardinalityType, FS_EmptySet
<1>5. QED
  BY <1>2, <1>4

-----------------------------------------------------------------------------
(* Each step keeps the budget even.                                        *)

LEMMA Amounts ==
    ASSUME BudgetTypeOK, Phases, NEW r \in Bodies
    PROVE  /\ pc[r] \in {"none", "read", "charge", "failed", "answer", "leave"} =>
                 Taken[r] = held[r] /\ Charged[r] = held[r]
           /\ pc[r] \in {"acquire", "undo"} => Taken[r] = held[r] /\ Charged[r] = want[r]
           /\ pc[r] \in {"return", "return_drop"} =>
                 Taken[r] = want[r] /\ Charged[r] = want[r]
           /\ pc[r] \in {"uncharge", "uncharge_drop"} => Taken[r] = 0 /\ Charged[r] = want[r]
<1>1. held[r] \in Nat /\ want[r] \in Nat
  BY WeightsTyped
<1>2. \A n \in Nat : n + 0 = n /\ 0 + n = n
  OBVIOUS
<1>3. CASE pc[r] \in {"none", "read", "charge", "failed", "answer", "leave"}
  <2>1. Taken[r] = held[r] + 0 /\ Charged[r] = held[r] + 0
    BY <1>3 DEF Taken, Charged
  <2>2. QED
    BY <1>1, <1>2, <1>3, <2>1
<1>4. CASE pc[r] \in {"acquire", "undo"}
  <2>1. Taken[r] = held[r] + 0 /\ Charged[r] = held[r] + (want[r] - held[r])
    BY <1>4 DEF Taken, Charged, Extra
  <2>2. held[r] + (want[r] - held[r]) = want[r]
    BY <1>1
  <2>3. QED
    BY <1>1, <1>2, <1>4, <2>1, <2>2
<1>5. CASE pc[r] \in {"return", "return_drop"}
  <2>1. Taken[r] = 0 + want[r] /\ Charged[r] = 0 + want[r]
    BY <1>5 DEF Taken, Charged, Phases
  <2>2. QED
    BY <1>1, <1>2, <1>5, <2>1
<1>6. CASE pc[r] \in {"uncharge", "uncharge_drop"}
  <2>1. Taken[r] = 0 + 0 /\ Charged[r] = 0 + want[r]
    BY <1>6 DEF Taken, Charged, Phases
  <2>2. QED
    BY <1>1, <1>2, <1>6, <2>1
<1>7. QED
  BY <1>3, <1>4, <1>5, <1>6

LEMMA AmountsNext ==
    ASSUME BudgetTypeOK', Phases', NEW r \in Bodies
    PROVE  /\ pc'[r] \in {"none", "read", "charge", "failed", "answer", "leave"} =>
                 Taken'[r] = held'[r] /\ Charged'[r] = held'[r]
           /\ pc'[r] \in {"acquire", "undo"} => Taken'[r] = held'[r] /\ Charged'[r] = want'[r]
           /\ pc'[r] \in {"return", "return_drop"} =>
                 Taken'[r] = want'[r] /\ Charged'[r] = want'[r]
           /\ pc'[r] \in {"uncharge", "uncharge_drop"} => Taken'[r] = 0 /\ Charged'[r] = want'[r]
<1>1. held'[r] \in Nat /\ want'[r] \in Nat
  BY WeightsTypedNext
<1>2. \A n \in Nat : n + 0 = n /\ 0 + n = n
  OBVIOUS
<1>3. CASE pc'[r] \in {"none", "read", "charge", "failed", "answer", "leave"}
  <2>1. Taken'[r] = held'[r] + 0 /\ Charged'[r] = held'[r] + 0
    BY <1>3 DEF Taken, Charged
  <2>2. QED
    BY <1>1, <1>2, <1>3, <2>1
<1>4. CASE pc'[r] \in {"acquire", "undo"}
  <2>1. Taken'[r] = held'[r] + 0 /\ Charged'[r] = held'[r] + (want'[r] - held'[r])
    BY <1>4 DEF Taken, Charged, Extra
  <2>2. held'[r] + (want'[r] - held'[r]) = want'[r]
    BY <1>1
  <2>3. QED
    BY <1>1, <1>2, <1>4, <2>1, <2>2
<1>5. CASE pc'[r] \in {"return", "return_drop"}
  <2>1. Taken'[r] = 0 + want'[r] /\ Charged'[r] = 0 + want'[r]
    BY <1>5 DEF Taken, Charged, Phases
  <2>2. QED
    BY <1>1, <1>2, <1>5, <2>1
<1>6. CASE pc'[r] \in {"uncharge", "uncharge_drop"}
  <2>1. Taken'[r] = 0 + 0 /\ Charged'[r] = 0 + want'[r]
    BY <1>6 DEF Taken, Charged, Phases
  <2>2. QED
    BY <1>1, <1>2, <1>6, <2>1
<1>7. QED
  BY <1>3, <1>4, <1>5, <1>6

LEMMA QuietStep ==
    ASSUME BudgetInv, BudgetTypeOK', Phases', NEW r \in Bodies, OnlyMoves(r),
           UNCHANGED <<permits, peers, class, peer, bodies>>,
           Taken'[r] = Taken[r], Charged'[r] = Charged[r]
    PROVE  BudgetInv'
<1>1. PoolEven(r)
  BY DEF PoolEven, TakenBy
<1>2. PeersEven(r)
  <2>1. \A q \in Peers : UseOf(q)' = UseOf(q)
    BY DEF UseOf
  <2>2. QED
    BY <2>1 DEF PeersEven, ChargedTo, BudgetInv, BudgetConserved
<1>3. BodiesEven(r)
  BY DEF BodiesEven
<1>4. QED
  BY <1>1, <1>2, <1>3, StepConserves

\* The units of one peer and class change by what its request is charged for.
LEMMA UnitsStep ==
    ASSUME BudgetInv, NEW r \in Bodies, UNCHANGED <<class, peer, bodies>>, peer[r] \in Peers,
           NEW x \in Nat, x <= Share[class[r]],
           x + Charged[r] = UseOf(peer[r]).units[class[r]] + Charged'[r],
           SetUse(peer[r], [UseOf(peer[r]) EXCEPT !.units[class[r]] = x])
    PROVE  /\ PeersEven(r)
           /\ DOMAIN peers' \subseteq Peers /\ \A q \in DOMAIN peers' : peers'[q] \in PeerUse
<1> DEFINE old == UseOf(peer[r])
           new == [old EXCEPT !.units[class[r]] = x]
<1>1. old \in PeerUse /\ class[r] \in Classes
  BY UseTyped DEF BudgetInv, BudgetTypeOK
<1>2. /\ new \in PeerUse /\ new.large_bodies = old.large_bodies
      /\ new.units[class[r]] = x
      /\ \A c \in Classes : c # class[r] => new.units[c] = old.units[c]
  BY <1>1 DEF PeerUse
<1> HIDE DEF new
<1>3. SetUse(peer[r], new)
  BY DEF new
<1>4. /\ DOMAIN peers' \subseteq Peers /\ \A q \in DOMAIN peers' : peers'[q] \in PeerUse
      /\ UseOf(peer[r])' = new
      /\ \A q \in Peers : q # peer[r] => UseOf(q)' = UseOf(q)
  <2>1. BudgetTypeOK
    BY DEF BudgetInv
  <2>2. UseOf(peer[r]') = UseOf(peer[r])
    OBVIOUS
  <2>3. \A p \in Peers, u \in PeerUse : SetUse(p, u) =>
          /\ DOMAIN peers' \subseteq Peers /\ \A q \in DOMAIN peers' : peers'[q] \in PeerUse
          /\ (IF p \in DOMAIN peers' THEN peers'[p] ELSE Unused) = u
          /\ \A q \in Peers : q # p => UseOf(q)' = UseOf(q)
    BY <2>1, SetUseLaw DEF UseOf
  <2>4. UseOf(peer[r])' = IF peer[r] \in DOMAIN peers' THEN peers'[peer[r]] ELSE Unused
    BY DEF UseOf
  <2>5. QED
    BY <1>2, <1>3, <2>3, <2>4
<1>5. ASSUME NEW p \in Peers
      PROVE  /\ \A c \in Classes :
                   /\ UseOf(p)'.units[c] + ChargedTo(r, p, c)
                        = UseOf(p).units[c] + ChargedTo(r, p, c)'
                   /\ UseOf(p)'.units[c] <= Share[c]
             /\ UseOf(p)'.large_bodies = bodies'[p]
  <2>1. /\ UseOf(p).large_bodies = bodies[p]
        /\ \A c \in Classes : UseOf(p).units[c] <= Share[c]
    BY DEF BudgetInv, BudgetConserved
  <2>2. CASE p # peer[r]
    <3>1. \A c \in Classes : ChargedTo(r, p, c) = 0 /\ ChargedTo(r, p, c)' = 0
      BY <2>2 DEF ChargedTo
    <3>2. QED
      BY <1>4, <2>1, <2>2, <3>1
  <2>3. CASE p = peer[r]
    <3>1. UseOf(p)' = new /\ UseOf(p) = old
      BY <1>4, <2>3 DEF UseOf
    <3>2. \A c \in Classes :
            /\ ChargedTo(r, p, c) = IF c = class[r] THEN Charged[r] ELSE 0
            /\ ChargedTo(r, p, c)' = IF c = class[r] THEN Charged'[r] ELSE 0
      BY <2>3 DEF ChargedTo
    <3> HIDE DEF old
    <3>3. QED
      BY <1>2, <2>1, <2>3, <3>1, <3>2 DEF old
  <2>4. QED
    BY <2>2, <2>3
<1>6. QED
  BY <1>4, <1>5 DEF PeersEven

\* The points of a request's way.
Points == {"none", "read", "charge", "acquire", "undo", "failed", "answer",
           "return", "return_drop", "uncharge", "uncharge_drop", "leave"}

LEMMA ArriveEven ==
    ASSUME BudgetInv, NEW r \in Bodies, Arrive(r)
    PROVE  BudgetInv'
<1>1. PICK c \in Classes \ {"large"}, p \in Peers \cup {NoPeer} :
        class' = [class EXCEPT ![r] = c] /\ peer' = [peer EXCEPT ![r] = p]
  BY DEF Arrive
<1>2. /\ pc[r] = "none" /\ pc' = [pc EXCEPT ![r] = "read"]
      /\ declared' = [declared EXCEPT ![r] = FALSE]
      /\ UNCHANGED <<permits, peers, held, want, bodies>>
  BY DEF Arrive, RequestGoes
<1>3. BudgetTypeOK'
  BY <1>1, <1>2 DEF BudgetInv, BudgetTypeOK
<1>4. /\ pc'[r] = "read" /\ class'[r] = c /\ peer'[r] = p /\ c # "large"
      /\ held'[r] = 0 /\ held[r] = 0 /\ class[r] = "small"
  BY <1>1, <1>2 DEF BudgetInv, BudgetTypeOK, Phases
<1>5. OnlyMoves(r)
  BY <1>1, <1>2 DEF OnlyMoves, BudgetInv, BudgetTypeOK
<1>6. Phases'
  BY <1>2, <1>4, <1>5 DEF BudgetInv, Phases, OnlyMoves
<1>7. Taken[r] = 0 /\ Taken'[r] = 0 /\ Charged[r] = 0 /\ Charged'[r] = 0
  <2>1. Taken[r] = held[r] + 0 /\ Charged[r] = held[r] + 0
    BY <1>2 DEF Taken, Charged
  <2>2. Taken'[r] = held'[r] + 0 /\ Charged'[r] = held'[r] + 0
    BY <1>4 DEF Taken, Charged
  <2>3. QED
    BY <1>4, <2>1, <2>2
<1>8. PoolEven(r)
  BY <1>2, <1>7 DEF PoolEven, TakenBy, BudgetInv, BudgetTypeOK
<1>9. PeersEven(r)
  <2>1. \A q \in Peers : UseOf(q)' = UseOf(q)
    BY <1>2 DEF UseOf
  <2>2. QED
    BY <1>2, <1>7, <2>1 DEF PeersEven, ChargedTo, BudgetInv, BudgetConserved
<1>10. BodiesEven(r)
  BY <1>2, <1>4 DEF BodiesEven, BudgetInv, BudgetTypeOK
<1>11. QED
  BY <1>3, <1>5, <1>6, <1>8, <1>9, <1>10, StepConserves

LEMMA ChunkEven ==
    ASSUME BudgetInv, NEW r \in Bodies, Chunk(r)
    PROVE  BudgetInv'
<1>1. PICK n \in held[r] + 1 .. MaxUnits : want' = [want EXCEPT ![r] = n]
  BY DEF Chunk
<1>2. /\ pc[r] = "read" /\ pc' = [pc EXCEPT ![r] = "charge"]
      /\ UNCHANGED <<permits, peers, class, peer, declared, held, bodies>>
  BY DEF Chunk, RequestGoes, request
<1>3. BudgetTypeOK /\ Phases
  BY DEF BudgetInv
<1>4. held[r] \in Nat /\ n \in 0 .. MaxUnits /\ held[r] <= n
  BY <1>3, WeightsTyped, BodiesAssumption
<1>5. BudgetTypeOK'
  BY <1>1, <1>2, <1>3, <1>4 DEF BudgetTypeOK
<1>6. pc'[r] = "charge" /\ want'[r] = n /\ held'[r] = held[r] /\ class'[r] = class[r]
  BY <1>1, <1>2, <1>3 DEF BudgetTypeOK
<1>7. OnlyMoves(r)
  BY <1>1, <1>2, <1>3 DEF OnlyMoves, BudgetTypeOK
<1>8. Phases'
  BY <1>3, <1>4, <1>6, <1>7 DEF Phases, OnlyMoves
<1>9. Taken[r] = held[r] /\ Charged[r] = held[r]
  BY <1>2, <1>3, Amounts
<1>10. Taken'[r] = held[r] /\ Charged'[r] = held[r]
  BY <1>5, <1>6, <1>8, AmountsNext
<1>11. QED
  BY <1>2, <1>5, <1>7, <1>8, <1>9, <1>10, QuietStep

LEMMA GivesBackEven ==
    ASSUME BudgetInv, NEW r \in Bodies, EndOfBody(r) \/ Drop(r)
    PROVE  BudgetInv'
<1>1. /\ pc[r] \in {"read", "failed", "answer"}
      /\ want' = [want EXCEPT ![r] = held[r]] /\ held' = [held EXCEPT ![r] = 0]
      /\ UNCHANGED <<permits, peers, class, peer, declared, bodies>>
      /\ \E l \in (IF held[r] = 0 THEN {"answer", "leave"} ELSE {"return", "return_drop"}) :
           pc' = [pc EXCEPT ![r] = l]
  BY DEF EndOfBody, Drop, RequestGoes, request
<1>2. PICK l \in (IF held[r] = 0 THEN {"answer", "leave"} ELSE {"return", "return_drop"}) :
        pc' = [pc EXCEPT ![r] = l]
  BY <1>1
<1>3. BudgetTypeOK /\ Phases
  BY DEF BudgetInv
<1>4. held[r] \in Nat /\ held[r] \in 0 .. MaxUnits /\ 0 \in 0 .. MaxUnits
  <2>1. held[r] \in 0 .. MaxUnits
    BY <1>3 DEF BudgetTypeOK
  <2>2. 0 \in 0 .. MaxUnits
    BY BodiesAssumption
  <2>3. QED
    BY <2>1, <2>2, UpToMax
<1>5. l \in {"answer", "leave", "return", "return_drop"}
      /\ (held[r] = 0 <=> l \in {"answer", "leave"})
  BY <1>2
<1>6. BudgetTypeOK'
  BY <1>1, <1>2, <1>3, <1>4, <1>5 DEF BudgetTypeOK
<1>7. pc'[r] = l /\ want'[r] = held[r] /\ held'[r] = 0
  BY <1>1, <1>2, <1>3 DEF BudgetTypeOK
<1>8. OnlyMoves(r)
  BY <1>1, <1>2, <1>3 DEF OnlyMoves, BudgetTypeOK
<1>9. Phases'
  BY <1>1, <1>3, <1>5, <1>7, <1>8 DEF Phases, OnlyMoves
<1>10. Taken[r] = held[r] /\ Charged[r] = held[r]
  BY <1>1, <1>3, Amounts
<1>11. Taken'[r] = held[r] /\ Charged'[r] = held[r]
  BY <1>5, <1>6, <1>7, <1>9, AmountsNext
<1>12. QED
  BY <1>1, <1>6, <1>8, <1>9, <1>10, <1>11, QuietStep

\* The peer is charged: what it is charged for is now what the call wants.
LEMMA ChargePeerEven ==
    ASSUME BudgetInv, NEW r \in Bodies, ChargePeer(r)
    PROVE  BudgetInv'
<1>1. /\ pc[r] = "charge"
      /\ UNCHANGED <<permits, class, peer, declared, held, want, bodies>>
  BY DEF ChargePeer, request
<1>2. BudgetTypeOK /\ Phases
  BY DEF BudgetInv
<1>3. /\ held[r] \in Nat /\ want[r] \in Nat /\ held[r] <= want[r]
      /\ Taken[r] = held[r] /\ Charged[r] = held[r]
  BY <1>1, <1>2, WeightsTyped, Amounts DEF Phases
<1>4. CASE ~Fits(r, Extra(r))
  <2>1. UNCHANGED peers /\ pc' = [pc EXCEPT ![r] = "failed"]
    BY <1>4 DEF ChargePeer, RequestGoes
  <2>2. BudgetTypeOK'
    BY <1>1, <1>2, <2>1 DEF BudgetTypeOK
  <2>3. pc'[r] = "failed" /\ held'[r] = held[r]
    BY <1>1, <1>2, <2>1 DEF BudgetTypeOK
  <2>4. OnlyMoves(r)
    BY <1>1, <1>2, <2>1 DEF OnlyMoves, BudgetTypeOK
  <2>5. Phases'
    BY <1>1, <1>2, <2>3, <2>4 DEF Phases, OnlyMoves
  <2>6. Taken'[r] = held[r] /\ Charged'[r] = held[r]
    BY <2>2, <2>3, <2>5, AmountsNext
  <2>7. QED
    BY <1>1, <1>3, <2>1, <2>2, <2>4, <2>5, <2>6, QuietStep
<1>5. CASE Fits(r, Extra(r))
  <2>1. Charge(r, Extra(r)) /\ pc' = [pc EXCEPT ![r] = "acquire"]
    BY <1>5 DEF ChargePeer, RequestGoes
  <2>2. /\ pc'[r] = "acquire" /\ held'[r] = held[r] /\ want'[r] = want[r]
        /\ pc' \in [Bodies -> Points]
    BY <1>1, <1>2, <2>1 DEF BudgetTypeOK, Points
  <2>3. OnlyMoves(r)
    BY <1>1, <1>2, <2>1 DEF OnlyMoves, BudgetTypeOK
  <2>4. Phases'
    BY <1>1, <1>2, <1>3, <2>2, <2>3 DEF Phases, OnlyMoves
  <2>5. CASE peer[r] = NoPeer
    <3>1. UNCHANGED peers
      BY <2>1, <2>5 DEF Charge
    <3>2. BudgetTypeOK'
      BY <1>1, <1>2, <2>2, <3>1 DEF BudgetTypeOK, Points
    <3>3. Taken'[r] = held[r]
      BY <2>2, <2>4, <3>2, AmountsNext
    <3>4. PoolEven(r)
      BY <1>1, <1>3, <3>3 DEF PoolEven, TakenBy
    <3>5. PeersEven(r)
      <4>1. \A q \in Peers : UseOf(q)' = UseOf(q)
        BY <3>1 DEF UseOf
      <4>2. \A p \in Peers : p # peer[r] /\ p # peer'[r]
        BY <1>1, <2>5, NoPeerAssumption
      <4>3. QED
        BY <1>1, <4>1, <4>2 DEF PeersEven, ChargedTo, BudgetInv, BudgetConserved
    <3>6. BodiesEven(r)
      BY <1>1 DEF BodiesEven
    <3>7. QED
      BY <2>3, <2>4, <3>2, <3>4, <3>5, <3>6, StepConserves
  <2>6. CASE peer[r] # NoPeer
    <3>1. peer[r] \in Peers /\ class[r] \in Classes
      BY <1>2, <2>6 DEF BudgetTypeOK
    <3> DEFINE x == UseOf(peer[r]).units[class[r]] + Extra(r)
    <3>2. SetUse(peer[r], [UseOf(peer[r]) EXCEPT !.units[class[r]] = x])
      <4>1. UseOf(peer[r]) \in PeerUse
        BY <1>2, <3>1, UseTyped
      <4>2. QED
        BY <2>1, <2>6, <3>1, <4>1 DEF Charge, PeerUse
    <3>3. x \in Nat /\ x <= Share[class[r]]
      <4>1. UseOf(peer[r]).units[class[r]] \in Nat
        BY <1>2, <3>1, UseTyped
      <4>2. QED
        BY <1>3, <1>5, <2>6, <4>1 DEF Fits, Extra
    <3>4. /\ want[r] \in Nat /\ Charged'[r] = want[r] /\ Taken'[r] = held[r]
      <4>1. \A q \in Bodies : held'[q] \in Nat /\ want'[q] \in Nat
        BY <1>1, <1>2, WeightsTyped
      <4>2. /\ Taken'[r] = held'[r] + 0
            /\ Charged'[r] = held'[r] + (want'[r] - held'[r])
        BY <2>2 DEF Taken, Charged, Extra
      <4>3. QED
        BY <1>3, <2>2, <4>1, <4>2
    <3>5. x + Charged[r] = UseOf(peer[r]).units[class[r]] + Charged'[r]
      <4>1. UseOf(peer[r]).units[class[r]] \in Nat
        BY <1>2, <3>1, UseTyped
      <4>2. QED
        BY <1>3, <3>4, <4>1 DEF Extra
    <3> HIDE DEF x
    <3>6. /\ PeersEven(r)
          /\ DOMAIN peers' \subseteq Peers /\ \A q \in DOMAIN peers' : peers'[q] \in PeerUse
      BY <1>1, <3>1, <3>2, <3>3, <3>5, UnitsStep
    <3>7. BudgetTypeOK'
      BY <1>1, <1>2, <2>2, <3>6 DEF BudgetTypeOK, Points
    <3>8. PoolEven(r)
      BY <1>1, <1>3, <3>4 DEF PoolEven, TakenBy
    <3>9. BodiesEven(r)
      BY <1>1 DEF BodiesEven
    <3>10. QED
      BY <2>3, <2>4, <3>6, <3>7, <3>8, <3>9, StepConserves
  <2>7. QED
    BY <2>5, <2>6
<1>6. QED
  BY <1>4, <1>5

LEMMA AcquireEven ==
    ASSUME BudgetInv, NEW r \in Bodies, Acquire(r)
    PROVE  BudgetInv'
<1>1. pc[r] = "acquire" /\ UNCHANGED <<peers, class, peer, declared, want, bodies>>
  BY DEF Acquire, request
<1>2. BudgetTypeOK /\ Phases
  BY DEF BudgetInv
<1>3. /\ held[r] \in Nat /\ want[r] \in Nat /\ held[r] <= want[r]
      /\ Taken[r] = held[r] /\ Charged[r] = want[r]
  BY <1>1, <1>2, WeightsTyped, Amounts DEF Phases
<1>4. CASE ~(Extra(r) <= permits[class[r]])
  <2>1. UNCHANGED <<permits, held>> /\ pc' = [pc EXCEPT ![r] = "undo"]
    BY <1>4 DEF Acquire, RequestGoes
  <2>2. BudgetTypeOK'
    BY <1>1, <1>2, <2>1 DEF BudgetTypeOK
  <2>3. pc'[r] = "undo" /\ held'[r] = held[r] /\ want'[r] = want[r]
    BY <1>1, <1>2, <2>1 DEF BudgetTypeOK
  <2>4. OnlyMoves(r)
    BY <1>1, <1>2, <2>1 DEF OnlyMoves, BudgetTypeOK
  <2>5. Phases'
    BY <1>2, <1>3, <2>3, <2>4 DEF Phases, OnlyMoves
  <2>6. Taken'[r] = held[r] /\ Charged'[r] = want[r]
    BY <2>2, <2>3, <2>5, AmountsNext
  <2>7. QED
    BY <1>1, <1>3, <2>1, <2>2, <2>4, <2>5, <2>6, QuietStep
<1>5. CASE Extra(r) <= permits[class[r]]
  <2>1. /\ permits' = [permits EXCEPT ![class[r]] = @ - Extra(r)]
        /\ held' = [held EXCEPT ![r] = want[r]] /\ pc' = [pc EXCEPT ![r] = "read"]
    BY <1>5 DEF Acquire, RequestGoes
  <2>2. class[r] \in Classes /\ permits[class[r]] \in Nat
    BY <1>2 DEF BudgetTypeOK
  <2> DEFINE left == permits[class[r]] - Extra(r)
  <2>3. left \in Nat /\ left + want[r] = permits[class[r]] + held[r]
    BY <1>3, <1>5, <2>2 DEF Extra
  <2>4. permits' = [permits EXCEPT ![class[r]] = left]
    BY <2>1
  <2> HIDE DEF left
  <2>5. BudgetTypeOK'
    BY <1>1, <1>2, <2>1, <2>3, <2>4 DEF BudgetTypeOK
  <2>6. pc'[r] = "read" /\ held'[r] = want[r]
    BY <1>2, <2>1 DEF BudgetTypeOK
  <2>7. OnlyMoves(r)
    BY <1>1, <1>2, <2>1 DEF OnlyMoves, BudgetTypeOK
  <2>8. Phases'
    BY <1>2, <2>6, <2>7 DEF Phases, OnlyMoves
  <2>9. Taken'[r] = want[r] /\ Charged'[r] = want[r]
    BY <2>5, <2>6, <2>8, AmountsNext
  <2>10. PoolEven(r)
    <3> SUFFICES ASSUME NEW c \in Classes
                 PROVE  permits'[c] + TakenBy(r, c)' = permits[c] + TakenBy(r, c)
      BY DEF PoolEven
    <3>1. class'[r] = class[r]
      BY <1>1
    <3>2. CASE c = class[r]
      <4>1. permits'[c] = left
        BY <1>2, <2>4, <3>2 DEF BudgetTypeOK
      <4>2. QED
        BY <1>3, <2>3, <2>9, <3>1, <3>2, <4>1 DEF TakenBy
    <3>3. CASE c # class[r]
      <4>1. permits'[c] = permits[c]
        BY <1>2, <2>4, <3>3 DEF BudgetTypeOK
      <4>2. QED
        BY <3>1, <3>3, <4>1 DEF TakenBy
    <3>4. QED
      BY <3>2, <3>3
  <2>11. PeersEven(r)
    <3>1. \A q \in Peers : UseOf(q)' = UseOf(q)
      BY <1>1 DEF UseOf
    <3>2. QED
      BY <1>1, <1>3, <2>9, <3>1 DEF PeersEven, ChargedTo, BudgetInv, BudgetConserved
  <2>12. BodiesEven(r)
    BY <1>1 DEF BodiesEven
  <2>13. QED
    BY <2>5, <2>7, <2>8, <2>10, <2>11, <2>12, StepConserves
<1>6. QED
  BY <1>4, <1>5

\* The pool gets back what the request gives.
LEMMA AddPermitsEven ==
    ASSUME BudgetInv, NEW r \in Bodies, AddPermits(r)
    PROVE  BudgetInv'
<1>1. /\ pc[r] \in {"return", "return_drop"}
      /\ permits' = [permits EXCEPT ![class[r]] = @ + want[r]]
      /\ UNCHANGED <<peers, class, peer, declared, held, want, bodies>>
      /\ \E l \in {"uncharge", "uncharge_drop"} : pc' = [pc EXCEPT ![r] = l]
  BY DEF AddPermits, request, RequestGoes
<1>2. PICK l \in {"uncharge", "uncharge_drop"} : pc' = [pc EXCEPT ![r] = l]
  BY <1>1
<1>3. BudgetTypeOK /\ Phases
  BY DEF BudgetInv
<1>4. /\ held[r] = 0 /\ want[r] \in Nat /\ Taken[r] = want[r] /\ Charged[r] = want[r]
  BY <1>1, <1>3, WeightsTyped, Amounts DEF Phases
<1>5. class[r] \in Classes /\ permits[class[r]] \in Nat
  BY <1>3 DEF BudgetTypeOK
<1> DEFINE more == permits[class[r]] + want[r]
<1>6. more \in Nat
  BY <1>4, <1>5
<1>7. permits' = [permits EXCEPT ![class[r]] = more]
  BY <1>1
<1>8. more + 0 = permits[class[r]] + want[r]
  BY <1>4, <1>5
<1> HIDE DEF more
<1>9. BudgetTypeOK'
  BY <1>1, <1>2, <1>3, <1>6, <1>7 DEF BudgetTypeOK
<1>10. pc'[r] = l /\ held'[r] = 0 /\ want'[r] = want[r] /\ class'[r] = class[r]
  BY <1>1, <1>2, <1>3, <1>4 DEF BudgetTypeOK
<1>11. OnlyMoves(r)
  BY <1>1, <1>2, <1>3 DEF OnlyMoves, BudgetTypeOK
<1>12. Phases'
  BY <1>3, <1>10, <1>11 DEF Phases, OnlyMoves
<1>13. Taken'[r] = 0 /\ Charged'[r] = want[r]
  BY <1>9, <1>10, <1>12, AmountsNext
<1>14. PoolEven(r)
  <2> SUFFICES ASSUME NEW c \in Classes
               PROVE  permits'[c] + TakenBy(r, c)' = permits[c] + TakenBy(r, c)
    BY DEF PoolEven
  <2>1. CASE c = class[r]
    <3>1. permits'[c] = more
      BY <1>3, <1>7, <2>1 DEF BudgetTypeOK
    <3>2. QED
      BY <1>4, <1>8, <1>10, <1>13, <2>1, <3>1 DEF TakenBy
  <2>2. CASE c # class[r]
    <3>1. permits'[c] = permits[c]
      BY <1>3, <1>7, <2>2 DEF BudgetTypeOK
    <3>2. QED
      BY <1>10, <2>2, <3>1 DEF TakenBy
  <2>3. QED
    BY <2>1, <2>2
<1>15. PeersEven(r)
  <2>1. \A q \in Peers : UseOf(q)' = UseOf(q)
    BY <1>1 DEF UseOf
  <2>2. QED
    BY <1>1, <1>4, <1>13, <2>1 DEF PeersEven, ChargedTo, BudgetInv, BudgetConserved
<1>16. BodiesEven(r)
  BY <1>1 DEF BodiesEven
<1>17. QED
  BY <1>9, <1>11, <1>12, <1>14, <1>15, <1>16, StepConserves

\* What a peer is uncharged it was charged for, so nothing is cut off at zero.
LEMMA UnchargeEven ==
    ASSUME BudgetInv, NEW r \in Bodies, NEW n \in Nat, n <= Charged[r], Uncharge(r, n),
           UNCHANGED <<class, peer, bodies>>, Charged'[r] \in Nat, Charged'[r] + n = Charged[r]
    PROVE  /\ PeersEven(r)
           /\ DOMAIN peers' \subseteq Peers /\ \A q \in DOMAIN peers' : peers'[q] \in PeerUse
<1>1. BudgetTypeOK /\ Phases
  BY DEF BudgetInv
<1>2. Charged[r] \in Nat
  BY <1>1, WeightsTyped
<1>3. DOMAIN peers \subseteq Peers /\ \A q \in DOMAIN peers : peers[q] \in PeerUse
  BY <1>1 DEF BudgetTypeOK
<1>4. \A p \in Peers : /\ \A c \in Classes : UseOf(p).units[c] <= Share[c]
                       /\ UseOf(p).large_bodies = bodies[p]
  BY DEF BudgetInv, BudgetConserved
<1>5. CASE peer[r] = NoPeer
  <2>1. UNCHANGED peers
    BY <1>5 DEF Uncharge
  <2>2. \A p \in Peers : p # peer[r] /\ p # peer'[r] /\ UseOf(p)' = UseOf(p)
    BY <1>5, <2>1, NoPeerAssumption DEF UseOf
  <2>3. QED
    BY <1>3, <1>4, <2>1, <2>2 DEF PeersEven, ChargedTo
<1>6. CASE peer[r] # NoPeer
  <2>1. peer[r] \in Peers /\ class[r] \in Classes
    BY <1>1, <1>6 DEF BudgetTypeOK
  <2> DEFINE m == UseOf(peer[r]).units[class[r]]
  <2>2. m \in Nat /\ Charged[r] <= m /\ m <= Share[class[r]]
    BY <1>1, <1>4, <2>1, ChargedIsCounted, UseTyped
  <2>3. CASE peer[r] \notin DOMAIN peers
    <3>1. m = 0
      BY <2>1, <2>3 DEF UseOf, Unused
    <3>2. Charged'[r] = Charged[r]
      BY <1>2, <2>2, <3>1
    <3>3. UNCHANGED peers
      BY <2>3 DEF Uncharge
    <3>4. \A p \in Peers : UseOf(p)' = UseOf(p)
      BY <3>3 DEF UseOf
    <3>5. QED
      BY <1>3, <1>4, <3>2, <3>3, <3>4 DEF PeersEven, ChargedTo
  <2>4. CASE peer[r] \in DOMAIN peers
    <3>1. UseOf(peer[r]) = peers[peer[r]] /\ peers[peer[r]] \in PeerUse
      BY <1>3, <2>4 DEF UseOf
    <3> DEFINE x == SaturatingSub(m, n)
    <3>2. SetUse(peer[r], [UseOf(peer[r]) EXCEPT !.units[class[r]] = x])
      BY <1>6, <2>1, <2>4, <3>1 DEF Uncharge, PeerUse
    <3>3. /\ x \in Nat /\ x = m - n
      BY <1>2, <2>2 DEF SaturatingSub
    <3> HIDE DEF x
    <3>4. Share[class[r]] \in Nat
      BY <2>1, PoolAssumption
    <3>5. x <= Share[class[r]]
      BY <2>2, <3>3, <3>4
    <3>6. x + Charged[r] = m + Charged'[r]
      BY <1>2, <2>2, <3>3
    <3>7. QED
      BY <2>1, <3>2, <3>3, <3>5, <3>6, UnitsStep
  <2>5. QED
    BY <2>3, <2>4
<1>7. QED
  BY <1>5, <1>6

LEMMA UndoEven ==
    ASSUME BudgetInv, NEW r \in Bodies, Undo(r)
    PROVE  BudgetInv'
<1>1. /\ pc[r] = "undo" /\ pc' = [pc EXCEPT ![r] = "failed"] /\ Uncharge(r, Extra(r))
      /\ UNCHANGED <<permits, class, peer, declared, held, want, bodies>>
  BY DEF Undo, RequestGoes, request
<1>2. BudgetTypeOK /\ Phases
  BY DEF BudgetInv
<1>3. /\ held[r] \in Nat /\ want[r] \in Nat /\ held[r] <= want[r]
      /\ Taken[r] = held[r] /\ Charged[r] = want[r]
  BY <1>1, <1>2, WeightsTyped, Amounts DEF Phases
<1>4. /\ pc'[r] = "failed" /\ held'[r] = held[r]
      /\ pc' \in [Bodies -> Points]
  BY <1>1, <1>2 DEF BudgetTypeOK, Points
<1>5. OnlyMoves(r)
  BY <1>1, <1>2 DEF OnlyMoves, BudgetTypeOK
<1>6. Phases'
  BY <1>2, <1>4, <1>5 DEF Phases, OnlyMoves
<1>7. Taken'[r] = held[r] /\ Charged'[r] = held[r]
  <2>1. Taken'[r] = held'[r] + 0 /\ Charged'[r] = held'[r] + 0
    BY <1>4 DEF Taken, Charged
  <2>2. QED
    BY <1>3, <1>4, <2>1
<1>8. Extra(r) \in Nat /\ Extra(r) <= Charged[r] /\ Charged'[r] + Extra(r) = Charged[r]
  BY <1>3, <1>7 DEF Extra
<1>9. /\ PeersEven(r)
      /\ DOMAIN peers' \subseteq Peers /\ \A q \in DOMAIN peers' : peers'[q] \in PeerUse
  BY <1>1, <1>3, <1>7, <1>8, UnchargeEven
<1>10. BudgetTypeOK'
  BY <1>1, <1>2, <1>4, <1>9 DEF BudgetTypeOK, Points
<1>11. PoolEven(r)
  BY <1>1, <1>3, <1>7 DEF PoolEven, TakenBy
<1>12. BodiesEven(r)
  BY <1>1 DEF BodiesEven
<1>13. QED
  BY <1>5, <1>6, <1>9, <1>10, <1>11, <1>12, StepConserves

LEMMA UnchargePeerEven ==
    ASSUME BudgetInv, NEW r \in Bodies, UnchargePeer(r)
    PROVE  BudgetInv'
<1>1. /\ pc[r] \in {"uncharge", "uncharge_drop"} /\ Uncharge(r, want[r])
      /\ UNCHANGED <<permits, class, peer, declared, held, want, bodies>>
      /\ \E l \in {"answer", "leave"} : pc' = [pc EXCEPT ![r] = l]
  BY DEF UnchargePeer, RequestGoes, request
<1>2. PICK l \in {"answer", "leave"} : pc' = [pc EXCEPT ![r] = l]
  BY <1>1
<1>3. BudgetTypeOK /\ Phases
  BY DEF BudgetInv
<1>4. /\ held[r] = 0 /\ want[r] \in Nat /\ Taken[r] = 0 /\ Charged[r] = want[r]
  BY <1>1, <1>3, WeightsTyped, Amounts DEF Phases
<1>5. /\ pc'[r] \in {"answer", "leave"} /\ held'[r] = 0
      /\ pc' \in [Bodies -> Points]
  BY <1>1, <1>2, <1>3, <1>4 DEF BudgetTypeOK, Points
<1>6. OnlyMoves(r)
  BY <1>1, <1>2, <1>3 DEF OnlyMoves, BudgetTypeOK
<1>7. Phases'
  BY <1>3, <1>5, <1>6 DEF Phases, OnlyMoves
<1>8. Taken'[r] = 0 /\ Charged'[r] = 0
  <2>1. Taken'[r] = held'[r] + 0 /\ Charged'[r] = held'[r] + 0
    BY <1>5 DEF Taken, Charged
  <2>2. QED
    BY <1>5, <2>1
<1>9. want[r] <= Charged[r] /\ Charged'[r] \in Nat /\ Charged'[r] + want[r] = Charged[r]
  BY <1>4, <1>8
<1>10. /\ PeersEven(r)
       /\ DOMAIN peers' \subseteq Peers /\ \A q \in DOMAIN peers' : peers'[q] \in PeerUse
  BY <1>1, <1>4, <1>9, UnchargeEven
<1>11. BudgetTypeOK'
  BY <1>1, <1>3, <1>5, <1>10 DEF BudgetTypeOK, Points
<1>12. PoolEven(r)
  BY <1>1, <1>4, <1>8 DEF PoolEven, TakenBy
<1>13. BodiesEven(r)
  BY <1>1 DEF BodiesEven
<1>14. QED
  BY <1>6, <1>7, <1>10, <1>11, <1>12, <1>13, StepConserves

\* The large bodies of one peer change in its entry as they do in the history.
LEMMA LargeStep ==
    ASSUME BudgetInv, NEW r \in Bodies, NEW p \in Peers, NEW k \in Nat,
           SetUse(p, [UseOf(p) EXCEPT !.large_bodies = k]),
           bodies' = [bodies EXCEPT ![p] = k],
           Charged[r] = 0, Charged'[r] = 0
    PROVE  /\ PeersEven(r)
           /\ DOMAIN peers' \subseteq Peers /\ \A q \in DOMAIN peers' : peers'[q] \in PeerUse
<1> DEFINE new == [UseOf(p) EXCEPT !.large_bodies = k]
<1>1. BudgetTypeOK /\ UseOf(p) \in PeerUse
  BY UseTyped DEF BudgetInv
<1>2. new \in PeerUse /\ new.large_bodies = k /\ new.units = UseOf(p).units
  BY <1>1 DEF PeerUse
<1>3. SetUse(p, new)
  OBVIOUS
<1> HIDE DEF new
<1>4. /\ DOMAIN peers' \subseteq Peers /\ \A q \in DOMAIN peers' : peers'[q] \in PeerUse
      /\ UseOf(p)' = new
      /\ \A q \in Peers : q # p => UseOf(q)' = UseOf(q)
  BY <1>1, <1>2, <1>3, SetUseLaw
<1>5. \A q \in Peers : bodies'[q] = IF q = p THEN k ELSE bodies[q]
  BY <1>1 DEF BudgetTypeOK
<1>6. \A q \in Peers : /\ \A c \in Classes : /\ UseOf(q)'.units[c] = UseOf(q).units[c]
                                             /\ UseOf(q).units[c] <= Share[c]
                       /\ UseOf(q)'.large_bodies = bodies'[q]
  BY <1>2, <1>4, <1>5 DEF BudgetInv, BudgetConserved
<1>7. \A q \in Peers, c \in Classes : ChargedTo(r, q, c) = 0 /\ ChargedTo(r, q, c)' = 0
  BY DEF ChargedTo
<1>8. QED
  BY <1>4, <1>6, <1>7 DEF PeersEven

LEMMA LeaveEven ==
    ASSUME BudgetInv, NEW r \in Bodies, Leave(r)
    PROVE  BudgetInv'
<1>1. /\ pc[r] = "leave" /\ pc' = [pc EXCEPT ![r] = "none"]
      /\ class' = [class EXCEPT ![r] = "small"] /\ peer' = [peer EXCEPT ![r] = NoPeer]
      /\ declared' = [declared EXCEPT ![r] = FALSE] /\ want' = [want EXCEPT ![r] = 0]
      /\ UNCHANGED <<permits, held>>
  BY DEF Leave, RequestGoes
<1>2. BudgetTypeOK /\ Phases
  BY DEF BudgetInv
<1>3. /\ held[r] = 0 /\ Taken[r] = 0 /\ Charged[r] = 0
  BY <1>1, <1>2, Amounts DEF Phases
<1>4. /\ pc'[r] = "none" /\ held'[r] = 0 /\ class'[r] = "small" /\ peer'[r] = NoPeer
      /\ pc' \in [Bodies -> Points]
  BY <1>1, <1>2, <1>3 DEF BudgetTypeOK, Points
<1>5. OnlyMoves(r)
  BY <1>1, <1>2 DEF OnlyMoves, BudgetTypeOK
<1>6. Phases'
  BY <1>2, <1>4, <1>5 DEF Phases, OnlyMoves
<1>7. Taken'[r] = 0 /\ Charged'[r] = 0
  <2>1. Taken'[r] = held'[r] + 0 /\ Charged'[r] = held'[r] + 0
    BY <1>4 DEF Taken, Charged
  <2>2. QED
    BY <1>4, <2>1
<1>8. PoolEven(r)
  BY <1>1, <1>3, <1>7 DEF PoolEven, TakenBy
<1>9. /\ PeersEven(r) /\ BodiesEven(r) /\ bodies' \in [Peers -> 0 .. BodiesPerPeer]
      /\ DOMAIN peers' \subseteq Peers /\ \A q \in DOMAIN peers' : peers'[q] \in PeerUse
  <2>1. CASE ~(class[r] = "large" /\ peer[r] # NoPeer)
    <3>1. UNCHANGED <<peers, bodies>>
      BY <2>1 DEF Leave
    <3>2. \A q \in Peers : UseOf(q)' = UseOf(q)
      BY <3>1 DEF UseOf
    <3>3. PeersEven(r)
      BY <1>3, <1>7, <3>1, <3>2 DEF PeersEven, ChargedTo, BudgetInv, BudgetConserved
    <3>4. BodiesEven(r)
      BY <1>4, <2>1, <3>1, NoPeerAssumption DEF BodiesEven
    <3>5. QED
      BY <1>2, <3>1, <3>3, <3>4 DEF BudgetTypeOK
  <2>2. CASE class[r] = "large" /\ peer[r] # NoPeer
    <3>1. peer[r] \in Peers
      BY <1>2, <2>2 DEF BudgetTypeOK
    <3> DEFINE p == peer[r]
               k == bodies[p] - 1
    <3>2. bodies[p] >= 1 /\ bodies[p] \in Nat /\ bodies[p] <= BodiesPerPeer
      <4>1. bodies[p] \in 0 .. BodiesPerPeer
        BY <1>2, <3>1 DEF BudgetTypeOK
      <4>2. QED
        BY <2>2, <3>1, <4>1, LargeIsCounted, BodiesAssumption
    <3>3. UseOf(p).large_bodies = bodies[p]
      BY <3>1 DEF BudgetInv, BudgetConserved
    <3>4. p \in DOMAIN peers /\ UseOf(p) = peers[p]
      BY <3>2, <3>3 DEF UseOf, Unused
    <3>5. k \in Nat /\ k = SaturatingSub(peers[p].large_bodies, 1) /\ k <= BodiesPerPeer
      BY <3>2, <3>3, <3>4, BodiesAssumption DEF SaturatingSub
    <3>6. UseOf(p) \in PeerUse
      BY <1>2, <3>1, UseTyped
    <3>7. SetUse(p, [UseOf(p) EXCEPT !.large_bodies = k])
      BY <2>2, <3>4, <3>5, <3>6 DEF Leave, PeerUse
    <3>8. bodies' = [bodies EXCEPT ![p] = k]
      BY <2>2 DEF Leave
    <3>9. k + 1 = bodies[p]
      BY <3>2
    <3> HIDE DEF k, p
    <3>10. p \in Peers
      BY <3>1 DEF p
    <3>11. /\ PeersEven(r)
           /\ DOMAIN peers' \subseteq Peers /\ \A q \in DOMAIN peers' : peers'[q] \in PeerUse
      BY <1>3, <1>7, <3>5, <3>7, <3>8, <3>10, LargeStep
    <3>12. \A q \in Peers : bodies'[q] = IF q = p THEN k ELSE bodies[q]
      BY <1>2, <3>8 DEF BudgetTypeOK
    <3>13. BodiesEven(r)
      <4>1. \A q \in Peers : bodies[q] \in 0 .. BodiesPerPeer
        BY <1>2 DEF BudgetTypeOK
      <4>2. \A q \in Peers : bodies[q] \in Nat
        BY <4>1, BodiesAssumption
      <4>3. QED
        BY <1>4, <2>2, <3>5, <3>9, <3>12, <4>2 DEF BodiesEven, p
    <3>14. k \in 0 .. BodiesPerPeer
      BY <3>5, BodiesAssumption
    <3>15. bodies' \in [Peers -> 0 .. BodiesPerPeer]
      BY <1>2, <3>8, <3>14 DEF BudgetTypeOK
    <3>16. QED
      BY <3>11, <3>13, <3>15
  <2>3. QED
    BY <2>1, <2>2
<1>10. BudgetTypeOK'
  <2>1. 0 \in 0 .. MaxUnits
    BY BodiesAssumption
  <2>2. permits' \in [Classes -> Nat] /\ held' \in [Bodies -> 0 .. MaxUnits]
    BY <1>1, <1>2 DEF BudgetTypeOK
  <2>3. class' \in [Bodies -> Classes] /\ peer' \in [Bodies -> Peers \cup {NoPeer}]
    BY <1>1, <1>2 DEF BudgetTypeOK, Classes
  <2>4. want' \in [Bodies -> 0 .. MaxUnits] /\ declared' \in [Bodies -> BOOLEAN]
    BY <1>1, <1>2, <2>1 DEF BudgetTypeOK
  <2>5. QED
    BY <1>4, <1>9, <2>2, <2>3, <2>4 DEF BudgetTypeOK, Points
<1>11. QED
  BY <1>5, <1>6, <1>8, <1>9, <1>10, StepConserves

LEMMA ArriveLargeEven ==
    ASSUME BudgetInv, NEW r \in Bodies, ArriveLarge(r)
    PROVE  BudgetInv'
<1>1. PICK p \in Peers \cup {NoPeer}, length \in 0 .. MaxUnits :
        /\ p # NoPeer => UseOf(p).large_bodies < BodiesPerPeer
        /\ peer' = [peer EXCEPT ![r] = p] /\ want' = [want EXCEPT ![r] = length]
        /\ declared' = [declared EXCEPT ![r] = length > 0]
        /\ pc' = [pc EXCEPT ![r] = IF length > 0 THEN "charge" ELSE "read"]
        /\ IF p = NoPeer
             THEN UNCHANGED <<peers, bodies>>
             ELSE /\ SetUse(p, [UseOf(p) EXCEPT !.large_bodies = @ + 1])
                  /\ bodies' = [bodies EXCEPT ![p] = @ + 1]
  BY DEF ArriveLarge, RequestGoes
<1>2. /\ pc[r] = "none" /\ class' = [class EXCEPT ![r] = "large"]
      /\ UNCHANGED <<permits, held>>
  BY DEF ArriveLarge
<1>3. BudgetTypeOK /\ Phases
  BY DEF BudgetInv
<1>4. /\ held[r] = 0 /\ class[r] = "small" /\ Taken[r] = 0 /\ Charged[r] = 0
  BY <1>2, <1>3, Amounts DEF Phases
<1>5. length \in Nat
  BY UpToMax
<1>6. /\ pc'[r] \in {"charge", "read"} /\ held'[r] = 0 /\ class'[r] = "large"
      /\ peer'[r] = p /\ want'[r] = length
      /\ pc' \in [Bodies -> Points]
  BY <1>1, <1>2, <1>3, <1>4 DEF BudgetTypeOK, Points
<1>7. OnlyMoves(r)
  BY <1>1, <1>2, <1>3 DEF OnlyMoves, BudgetTypeOK
<1>8. Phases'
  BY <1>3, <1>5, <1>6, <1>7 DEF Phases, OnlyMoves
<1>9. Taken'[r] = 0 /\ Charged'[r] = 0
  <2>1. Taken'[r] = held'[r] + 0 /\ Charged'[r] = held'[r] + 0
    BY <1>6 DEF Taken, Charged
  <2>2. QED
    BY <1>6, <2>1
<1>10. PoolEven(r)
  BY <1>2, <1>4, <1>9 DEF PoolEven, TakenBy
<1>11. /\ PeersEven(r) /\ BodiesEven(r) /\ bodies' \in [Peers -> 0 .. BodiesPerPeer]
       /\ DOMAIN peers' \subseteq Peers /\ \A q \in DOMAIN peers' : peers'[q] \in PeerUse
  <2>1. CASE p = NoPeer
    <3>1. UNCHANGED <<peers, bodies>>
      BY <1>1, <2>1
    <3>2. \A q \in Peers : UseOf(q)' = UseOf(q)
      BY <3>1 DEF UseOf
    <3>3. PeersEven(r)
      BY <1>4, <1>9, <3>1, <3>2 DEF PeersEven, ChargedTo, BudgetInv, BudgetConserved
    <3>4. BodiesEven(r)
      BY <1>4, <1>6, <2>1, <3>1, NoPeerAssumption DEF BodiesEven
    <3>5. QED
      BY <1>3, <3>1, <3>3, <3>4 DEF BudgetTypeOK
  <2>2. CASE p # NoPeer
    <3>1. p \in Peers
      BY <2>2
    <3> DEFINE k == bodies[p] + 1
    <3>2. UseOf(p).large_bodies = bodies[p] /\ UseOf(p) \in PeerUse
      BY <1>3, <3>1, UseTyped DEF BudgetInv, BudgetConserved
    <3>3. bodies[p] \in Nat /\ bodies[p] < BodiesPerPeer
      BY <1>1, <1>3, <2>2, <3>1, <3>2, UseTyped
    <3>4. k \in Nat /\ k \in 0 .. BodiesPerPeer
      BY <3>3, BodiesAssumption
    <3>5. SetUse(p, [UseOf(p) EXCEPT !.large_bodies = k])
      BY <1>1, <2>2, <3>2 DEF PeerUse
    <3>6. bodies' = [bodies EXCEPT ![p] = k]
      BY <1>1, <2>2
    <3>7. k = bodies[p] + 1
      OBVIOUS
    <3> HIDE DEF k
    <3>8. /\ PeersEven(r)
          /\ DOMAIN peers' \subseteq Peers /\ \A q \in DOMAIN peers' : peers'[q] \in PeerUse
      BY <1>4, <1>9, <3>1, <3>4, <3>5, <3>6, LargeStep
    <3>9. \A q \in Peers : bodies'[q] = IF q = p THEN k ELSE bodies[q]
      BY <1>3, <3>6 DEF BudgetTypeOK
    <3>10. BodiesEven(r)
      <4>1. \A q \in Peers : bodies[q] \in 0 .. BodiesPerPeer
        BY <1>3 DEF BudgetTypeOK
      <4>2. \A q \in Peers : bodies[q] \in Nat
        BY <4>1, BodiesAssumption
      <4>3. QED
        BY <1>4, <1>6, <3>7, <3>9, <4>2 DEF BodiesEven
    <3>11. bodies' \in [Peers -> 0 .. BodiesPerPeer]
      BY <1>3, <3>4, <3>6 DEF BudgetTypeOK
    <3>12. QED
      BY <3>8, <3>10, <3>11
  <2>3. QED
    BY <2>1, <2>2
<1>12. BudgetTypeOK'
  <2>1. permits' \in [Classes -> Nat] /\ held' \in [Bodies -> 0 .. MaxUnits]
    BY <1>1, <1>2, <1>3 DEF BudgetTypeOK
  <2>2. class' \in [Bodies -> Classes] /\ peer' \in [Bodies -> Peers \cup {NoPeer}]
    BY <1>1, <1>2, <1>3 DEF BudgetTypeOK, Classes
  <2>3. want' \in [Bodies -> 0 .. MaxUnits] /\ declared' \in [Bodies -> BOOLEAN]
    BY <1>1, <1>2, <1>3 DEF BudgetTypeOK
  <2>4. QED
    BY <1>6, <1>11, <2>1, <2>2, <2>3 DEF BudgetTypeOK, Points
<1>13. QED
  BY <1>7, <1>8, <1>10, <1>11, <1>12, StepConserves

LEMMA SumOfZeros ==
    ASSUME NEW S, IsFiniteSet(S), NEW f, \A x \in S : f[x] = 0
    PROVE  SumFunctionOnSet(f, S) = 0
<1>1. Units(f, S) = {}
  BY DEF Units
<1>2. QED
  BY <1>1, SumOfUnits, FS_EmptySet

LEMMA BudgetInvInitially ==
    ASSUME BudgetInit
    PROVE  BudgetInv
<1>1. BudgetTypeOK
  BY PoolAssumption, BodiesAssumption DEF BudgetInit, BudgetTypeOK, Classes
<1>2. Phases
  BY DEF BudgetInit, Phases
<1>3. \A r \in Bodies : Taken[r] = 0 /\ Charged[r] = 0
  BY <1>1, <1>2, Amounts DEF BudgetInit
<1>4. \A p \in Peers : UseOf(p) = Unused
  BY DEF BudgetInit, UseOf
<1>5. BodiesCounted
  <2>1. \A p \in Peers : LargeOf(p) = {}
    BY DEF BudgetInit, LargeOf, Of
  <2>2. QED
    BY <2>1, FS_EmptySet DEF BudgetInit, BodiesCounted
<1>6. \A c \in Classes : SumFunctionOnSet(Taken, Of(c)) = 0
  <2> TAKE c \in Classes
  <2> DEFINE a == Of(c)
             t == Taken
  <2>1. a \in SUBSET Bodies /\ \A x \in a : t[x] = 0
    BY <1>3 DEF Of
  <2> HIDE DEF a, t
  <2>2. SumFunctionOnSet(t, a) = 0
    BY <2>1, FiniteBodies, FS_Subset, SumOfZeros
  <2>3. QED
    BY <2>2 DEF a, t
<1>7. \A p \in Peers, c \in Classes : SumFunctionOnSet(Charged, Of(c) \cap From(p)) = 0
  <2> TAKE p \in Peers, c \in Classes
  <2> DEFINE a == Of(c) \cap From(p)
             t == Charged
  <2>1. a \in SUBSET Bodies /\ \A x \in a : t[x] = 0
    BY <1>3 DEF Of
  <2> HIDE DEF a, t
  <2>2. SumFunctionOnSet(t, a) = 0
    BY <2>1, FiniteBodies, FS_Subset, SumOfZeros
  <2>3. QED
    BY <2>2 DEF a, t
<1>8. \A c \in Classes : permits[c] \in Nat /\ permits[c] = Pool[c] /\ Share[c] \in Nat
  BY PoolAssumption DEF BudgetInit
<1>9. \A p \in Peers : /\ \A c \in Classes : UseOf(p).units[c] = 0
                       /\ UseOf(p).large_bodies = bodies[p]
  BY <1>4 DEF Unused, BudgetInit
<1>10. BudgetConserved
  BY <1>6, <1>7, <1>8, <1>9 DEF BudgetConserved
<1>11. QED
  BY <1>1, <1>2, <1>5, <1>10 DEF BudgetInv

\* No unit of a pool is lost or handed out twice, and a peer's counters are what
\* its requests have charged (Reservation::ensure, release, drop), for every number
\* of requests and peers, every pool and every share.
THEOREM BudgetIsConserved ==
    BudgetSpec => []BudgetConserved
<1>1. BudgetInit => BudgetInv
  BY BudgetInvInitially
<1>2. BudgetInv /\ [BudgetNext]_budgetVars => BudgetInv'
  <2> SUFFICES ASSUME BudgetInv, [BudgetNext]_budgetVars PROVE BudgetInv'
    OBVIOUS
  <2>1. CASE BudgetNext
    <3>1. PICK r \in Bodies : \/ Arrive(r) \/ ArriveLarge(r) \/ Chunk(r) \/ Ensure(r)
                             \/ EndOfBody(r) \/ GiveBack(r)
      BY <2>1 DEF BudgetNext
    <3>2. QED
      BY <3>1, ArriveEven, ArriveLargeEven, ChunkEven, ChargePeerEven, AcquireEven, UndoEven,
         GivesBackEven, AddPermitsEven, UnchargePeerEven, LeaveEven DEF Ensure, GiveBack
  <2>2. CASE UNCHANGED budgetVars
    <3>1. BudgetTypeOK' /\ Phases' /\ BodiesCounted'
      BY <2>2 DEF BudgetInv, BudgetTypeOK, Phases, BodiesCounted, LargeOf, Of, From,
                  budgetVars
    <3>2. BudgetConserved'
      BY <2>2 DEF BudgetInv, BudgetConserved, UseOf, Taken, Charged, Extra, Of, From,
                  budgetVars
    <3>3. QED
      BY <3>1, <3>2 DEF BudgetInv
  <2>3. QED
    BY <2>1, <2>2
<1>3. BudgetInv => BudgetConserved
  BY DEF BudgetInv
<1>4. QED
  BY <1>1, <1>2, <1>3, PTL DEF BudgetSpec
=============================================================================
