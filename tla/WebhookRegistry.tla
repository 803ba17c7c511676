-------------------------- MODULE WebhookRegistry --------------------------
(***************************************************************************)
(* The webhook registrations of webhooks.rs: a list in memory, changed     *)
(* under a lock, and its copy in mentisdb-webhooks.json, written after the *)
(* lock has been released.  Every save writes the same temporary file and  *)
(* renames it, and nothing keeps two requests from saving at the same      *)
(* time: each step below is one file operation.                            *)
(*                                                                         *)
(* Files are told apart from their names, since a file that was unlinked   *)
(* or renamed stays open.  What a file holds is nothing yet, a whole list, *)
(* or the head of one list with the tail of a longer one.                  *)
(***************************************************************************)
EXTENDS Naturals, FiniteSets

CONSTANTS
    Callers,   \* requests that may run at the same time
    Ids,       \* registrations
    MaxHookFaults, \* bound: file operations that fail
    MaxHookCrashes \* bound: restarts of the daemon

ASSUME ConstantAssumption ==
    /\ IsFiniteSet(Callers) /\ IsFiniteSet(Ids)
    /\ MaxHookFaults \in Nat /\ MaxHookCrashes \in Nat

Files == 1 .. Cardinality(Callers) + 2
NoHookFile == 0
NoHooks == [text |-> "empty", ids |-> {}]
List(ids) == [text |-> "list", ids |-> ids]
Garbled == [text |-> "garbled", ids |-> {}]

VARIABLES
    memory,  \* WebhookManager.webhooks
    temp,    \* the file named mentisdb-webhooks.json.tmp, if any
    path,    \* the file named mentisdb-webhooks.json, if any
    content, \* of each file
    caller,  \* where each request is: pc, op, id, snapshot, file
    registered, deleted, \* history: acknowledged registrations and deletions
    touched, \* history: registrations someone asked to delete
    used,    \* history: identifiers given out (Uuid::new_v4)
    ordered, \* history: no two saves have overlapped yet
    hookFaults, hookCrashes

hookVars == <<memory, temp, path, content, caller, registered, deleted, touched,
          used, ordered, hookFaults, hookCrashes>>
hookDisk == <<temp, path, content>>
history == <<registered, deleted, touched, used, ordered>>
hookBounds == <<hookFaults, hookCrashes>>

IdleCaller == [pc |-> "idle", op |-> "none", id |-> "none", snapshot |-> {},
         file |-> NoHookFile]

HooksInit ==
    /\ memory = {}
    /\ temp = NoHookFile /\ path = NoHookFile
    /\ content = [f \in Files |-> NoHooks]
    /\ caller = [c \in Callers |-> IdleCaller]
    /\ registered = {} /\ deleted = {} /\ touched = {} /\ used = {}
    /\ ordered = TRUE
    /\ hookFaults = 0 /\ hookCrashes = 0

\* load_webhooks
Readable == path # NoHookFile => content[path].text = "list"
Stored == IF path = NoHookFile THEN {} ELSE content[path].ids

Saving == {c \in Callers : caller[c].pc # "idle"}
GoTo(c, pc) == caller' = [caller EXCEPT ![c].pc = pc]

\* A save that begins while another is under way overlaps with it.
BeginSave == ordered' = (ordered /\ Saving = {})

-----------------------------------------------------------------------------
(* The list in memory *)

\* register_webhook
Register(c) ==
    /\ caller[c].pc = "idle"
    /\ \E i \in Ids \ used :
          /\ memory' = memory \cup {i}
          /\ used' = used \cup {i}
          /\ caller' = [caller EXCEPT ![c] =
                [IdleCaller EXCEPT !.pc = "save", !.op = "register", !.id = i]]
    /\ BeginSave
    /\ UNCHANGED <<hookDisk, registered, deleted, touched, hookBounds>>

\* delete_webhook: nothing is saved if the registration is not there.
DeleteHook(c) ==
    /\ caller[c].pc = "idle"
    /\ \E i \in memory :
          /\ memory' = memory \ {i}
          /\ touched' = touched \cup {i}
          /\ caller' = [caller EXCEPT ![c] =
                [IdleCaller EXCEPT !.pc = "save", !.op = "delete", !.id = i]]
    /\ BeginSave
    /\ UNCHANGED <<hookDisk, registered, deleted, used, hookBounds>>

-----------------------------------------------------------------------------
(* WebhookManager::save *)

\* The end of the request; it is acknowledged if the save went well.
Answered(c, ok) ==
    /\ caller' = [caller EXCEPT ![c] = IdleCaller]
    /\ registered' = IF ok /\ caller[c].op = "register"
                       THEN registered \cup {caller[c].id} ELSE registered
    /\ deleted' = IF ok /\ caller[c].op = "delete"
                    THEN deleted \cup {caller[c].id} ELSE deleted
    /\ UNCHANGED <<memory, touched, used, ordered, hookCrashes>>

Snapshot(c) == memory

TakeSnapshot(c) ==
    /\ caller[c].pc = "save"
    /\ caller' = [caller EXCEPT ![c].pc = "exists", ![c].snapshot = Snapshot(c)]
    /\ UNCHANGED <<memory, hookDisk, history, hookBounds>>

CheckTemp(c) ==
    /\ caller[c].pc = "exists"
    /\ GoTo(c, IF temp = NoHookFile THEN "open" ELSE "remove")
    /\ UNCHANGED <<memory, hookDisk, history, hookBounds>>

\* Another save may have renamed or removed it in the meantime.
RemoveTemp(c) ==
    /\ caller[c].pc = "remove"
    /\ IF temp = NoHookFile
         THEN Answered(c, FALSE) /\ UNCHANGED temp
         ELSE /\ temp' = NoHookFile /\ GoTo(c, "open")
              /\ UNCHANGED <<memory, history, hookCrashes>>
    /\ UNCHANGED <<path, content, hookFaults>>

\* A file no name and no request refers to.
UnusedFiles == Files \ ({temp, path} \cup {caller[c].file : c \in Callers})
NewFile == CHOOSE f \in UnusedFiles : \A g \in UnusedFiles : f <= g

\* create and truncate
OpenTemp(c) ==
    /\ caller[c].pc = "open"
    /\ LET f == IF temp = NoHookFile THEN NewFile ELSE temp
       IN  /\ temp' = f
           /\ content' = [content EXCEPT ![f] = NoHooks]
           /\ caller' = [caller EXCEPT ![c].pc = "write", ![c].file = f]
    /\ UNCHANGED <<memory, path, history, hookBounds>>

\* A list written over a longer one leaves the longer one's tail.
Over(ids, old) ==
    IF Cardinality(old.ids) > Cardinality(ids) \/ old.text = "garbled"
      THEN Garbled ELSE List(ids)

\* to_writer_pretty, flush and sync_all, through the handle
WriteTemp(c) ==
    /\ caller[c].pc = "write"
    /\ content' = [content EXCEPT ![caller[c].file] =
                      Over(caller[c].snapshot, @)]
    /\ GoTo(c, "rename")
    /\ UNCHANGED <<memory, temp, path, history, hookBounds>>

\* Variant: the error is logged only.
SaveFailsSilently(c) ==
    /\ caller[c].pc \in {"open", "write"} /\ hookFaults < MaxHookFaults
    /\ hookFaults' = hookFaults + 1
    /\ Answered(c, TRUE)
    /\ UNCHANGED hookDisk
\* A full disk: the save ends where it is.
SaveFails(c) ==
    /\ caller[c].pc \in {"open", "write"} /\ hookFaults < MaxHookFaults
    /\ hookFaults' = hookFaults + 1
    /\ Answered(c, FALSE)
    /\ UNCHANGED hookDisk

\* Whatever file has the temporary name by now takes the registry's name.
Rename(c) ==
    /\ temp # NoHookFile /\ path' = temp /\ temp' = NoHookFile
    /\ Answered(c, TRUE)
    /\ UNCHANGED content

Done(c) ==
    /\ caller[c].pc = "rename"
    /\ \/ Rename(c)
       \/ /\ temp = NoHookFile
          /\ GoTo(c, "cleanup")
          /\ UNCHANGED <<memory, hookDisk, history, hookCrashes>>
    /\ UNCHANGED hookFaults

\* remove_file of the temporary file after a rename that failed
Cleanup(c) ==
    /\ caller[c].pc = "cleanup"
    /\ temp' = NoHookFile
    /\ Answered(c, FALSE)
    /\ UNCHANGED <<path, content, hookFaults>>

-----------------------------------------------------------------------------
(* Restart *)

\* The daemon does not start with a registry it cannot parse.
Restart ==
    /\ hookCrashes < MaxHookCrashes /\ Readable
    /\ hookCrashes' = hookCrashes + 1
    /\ memory' = Stored
    /\ caller' = [c \in Callers |-> IdleCaller]
    /\ UNCHANGED <<hookDisk, registered, deleted, touched, used, ordered, hookFaults>>

HooksNext ==
    \/ \E c \in Callers :
          \/ Register(c) \/ DeleteHook(c)
          \/ TakeSnapshot(c) \/ CheckTemp(c) \/ RemoveTemp(c) \/ OpenTemp(c)
          \/ WriteTemp(c) \/ SaveFails(c) \/ Done(c) \/ Cleanup(c)
    \/ Restart

HooksSpec == HooksInit /\ [][HooksNext]_hookVars

-----------------------------------------------------------------------------
(* Properties *)

\* Every piece of state has its type, and no file has both names.
HooksTypeOK ==
    /\ memory \subseteq used /\ used \subseteq Ids
    /\ temp \in Files \cup {NoHookFile} /\ path \in Files \cup {NoHookFile}
    /\ temp # NoHookFile => temp # path
    /\ content \in [Files -> [text : {"empty", "list", "garbled"},
                              ids : SUBSET Ids]]
    /\ \A c \in Callers : caller[c].file \in Files \cup {NoHookFile}

\* As long as no two saves have overlapped, whatever fails and whenever the
\* daemon stops: the registry can be read, has every acknowledged registration
\* nobody asked to delete, and no registration whose deletion was acknowledged.
StoredIsAcknowledged ==
    ordered => /\ Readable
               /\ registered \ touched \subseteq Stored
               /\ deleted \cap Stored = {}

=============================================================================
