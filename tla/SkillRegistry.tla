--------------------------- MODULE SkillRegistry ---------------------------
(* The versioned skill registry: one binary file of skills, and the           *)
(* processes that hold a copy of it in memory behind a lock.  A handler       *)
(* refreshes the copy when the file's modification time has changed, gives    *)
(* the lock up, takes it again, changes the copy, and rewrites the whole      *)
(* file through one temporary name.                                           *)
(*                                                                            *)
(* A skill's text is a member of Contents.  A version after the first is      *)
(* stored as a patch, which is the text it was made from and the text it      *)
(* makes; a patch applies only to the text it was made from.  Modification    *)
(* times never repeat (a coarser clock can only hide more changes), and       *)
(* writing the temporary file is one step, since a half-written one is only   *)
(* ever read after a rename.                                                  *)
EXTENDS Integers, Sequences, FiniteSets, SequencesExt

CONSTANTS
    Holders,         \* processes with the registry open
    Skills,          \* skill ids
    Contents,        \* texts of a skill
    Authors,         \* agent ids an upload may name
    Registered,      \* the agents the default chain's registry knows
    Blank,           \* an agent id of white space
    MaxVersions,     \* versions of a skill
    MaxBirths,       \* skills ever created
    MaxWrites,       \* writes of the temporary file
    MaxReady,        \* requests of a holder between refresh and change
    MaxSkillCrashes, \* restarts
    MaxSkillFaults,  \* writes and renames that fail
    NoEntry, NoFile

ASSUME ConstantsAssumption ==
    /\ Registered \subseteq Authors /\ Blank \notin Registered
    /\ {MaxVersions, MaxBirths, MaxWrites, MaxReady} \subseteq Nat \ {0}
    /\ {MaxSkillCrashes, MaxSkillFaults} \subseteq Nat

VARIABLES
    mem,     \* holder -> skill -> entry            (SkillRegistry.skills)
    latest,  \* holder -> skill -> summary          (latest_summaries, indexes)
    lastMod, \* holder -> modification time, 0 none (last_modified)
    at,      \* holder -> where the lock's owner is
    op,      \* holder -> the skill being changed, or what a reload has read
    ready,   \* holder -> requests that have refreshed and not yet changed
    file,    \* the registry file: [mtime, skills], or NoFile
    tmp,     \* the temporary file, likewise
    born,    \* skills created so far               (created_at)
    writes,  \* temporary files written so far      (the clock)
    skillCrashes, skillFaults,
    acked,   \* skill -> entry as last acknowledged
    refused, \* skills with a change that was not acknowledged since
    blanked  \* an upload was refused after it had changed its entry

procVars == <<mem, latest, lastMod, at, op, ready>>
diskVars == <<file, tmp, writes>>
ghosts == <<acked, refused, blanked>>
skillBounds == <<skillCrashes, skillFaults>>
skillVars == <<procVars, diskVars, born, skillBounds, ghosts>>

Status == {"active", "deprecated", "revoked"}
Empty == [s \in Skills |-> NoEntry]
Nothing == "nothing"

(* SkillVersion: the patch's base, or Nothing for a full text; the text; and  *)
(* the uploader.                                                              *)
Version == [base : Contents \cup {Nothing}, text : Contents, by : Authors]
Entry == [born : 1 .. MaxBirths, status : Status,
          versions : BoundedSeq(Version, MaxVersions)]
Summary == [status : Status, count : 1 .. MaxVersions, text : Contents \cup {Nothing}]

(* reconstruct_raw_content: the text of version i, patches applied in order;  *)
(* Nothing when there is no version, the first one is a patch, or a patch     *)
(* does not apply.                                                            *)
TextOf(entry, i) ==
  LET Text[n \in 1 .. i] ==
        LET v == entry.versions[n]
            bases == IF n = 1 THEN {Nothing} ELSE {Nothing, Text[n - 1]}
        IN IF v.base \in bases THEN v.text ELSE Nothing
  IN IF entry.versions = <<>> THEN Nothing ELSE Text[i]

(* summarize_entry: panics on an entry without versions. *)
Summarize(entry) ==
    [status |-> entry.status, count |-> Len(entry.versions),
     text |-> TextOf(entry, Len(entry.versions))]

Summaries(skills) ==
    [s \in Skills |-> IF skills[s] = NoEntry THEN NoEntry ELSE Summarize(skills[s])]

(* verify_skill_registry_integrity: what a file must pass to be opened. *)
Opens(skills) ==
    \A s \in Skills : skills[s] # NoEntry =>
        /\ skills[s].versions # <<>>
        /\ \A i \in DOMAIN skills[s].versions :
               TextOf(skills[s], i) = skills[s].versions[i].text

MTime(f) == IF f = NoFile THEN 0 ELSE f.mtime

SkillsTypeOK ==
    /\ mem \in [Holders -> [Skills -> Entry \cup {NoEntry}]]
    /\ latest \in [Holders -> [Skills -> Summary \cup {NoEntry}]]
    /\ lastMod \in [Holders -> 0 .. MaxWrites]
    /\ at \in [Holders -> {"idle", "reload", "restamp", "write", "rename", "stamp",
                           "down", "boot", "bootstamp"}]
    /\ ready \in [Holders -> 0 .. MaxReady]
    /\ \A f \in {file, tmp} : f = NoFile \/ f.mtime \in 1 .. writes
    /\ born \in 0 .. MaxBirths /\ writes \in 0 .. MaxWrites
    /\ skillCrashes \in 0 .. MaxSkillCrashes /\ skillFaults \in 0 .. MaxSkillFaults

SkillsInit ==
    /\ mem = [h \in Holders |-> Empty] /\ latest = [h \in Holders |-> Empty]
    /\ lastMod = [h \in Holders |-> 0]
    /\ at = [h \in Holders |-> "boot"] /\ op = [h \in Holders |-> Nothing]
    /\ ready = [h \in Holders |-> 0]
    /\ file = NoFile /\ tmp = NoFile
    /\ born = 0 /\ writes = 0 /\ skillCrashes = 0 /\ skillFaults = 0
    /\ acked = Empty /\ refused = {} /\ blanked = FALSE

-----------------------------------------------------------------------------
(* Opening and refreshing.                                                    *)

Goto(h, place, what) ==
    /\ at' = [at EXCEPT ![h] = place]
    /\ op' = [op EXCEPT ![h] = what]

ReplaceEntriesOnly(h, skills, mtime) ==
    /\ mem' = [mem EXCEPT ![h] = skills]
    /\ lastMod' = [lastMod EXCEPT ![h] = mtime]
    /\ UNCHANGED latest

(* *self = fresh: entries, summaries and indexes together. *)
Replace(h, skills, mtime) ==
    /\ mem' = [mem EXCEPT ![h] = skills]
    /\ latest' = [latest EXCEPT ![h] = Summaries(skills)]
    /\ lastMod' = [lastMod EXCEPT ![h] = mtime]

(* refresh_from_disk_if_stale, first stat: an unchanged time ends it. *)
RefreshStat(h) ==
    /\ at[h] = "idle" /\ ready[h] < MaxReady
    /\ IF MTime(file) = lastMod[h]
       THEN ready' = [ready EXCEPT ![h] = @ + 1] /\ UNCHANGED <<at, op>>
       ELSE Goto(h, "reload", Nothing) /\ UNCHANGED ready
    /\ UNCHANGED <<mem, latest, lastMod, diskVars, born, skillBounds, ghosts>>

(* open_at_path, up to the integrity check: no file is an empty registry, a   *)
(* file that fails the check is an error and changes nothing.                 *)
OpenRead(h) ==
    LET booting == at[h] = "boot"
    IN
    /\ at[h] \in {"reload", "boot"}
    /\ IF file # NoFile /\ ~Opens(file.skills)
       THEN Goto(h, IF booting THEN "down" ELSE "idle", Nothing)
       ELSE Goto(h, IF booting THEN "bootstamp" ELSE "restamp",
                 IF file = NoFile THEN [skills |-> Empty, exists |-> FALSE]
                                  ELSE [skills |-> file.skills, exists |-> TRUE])
    /\ UNCHANGED <<mem, latest, lastMod, ready, diskVars, born, skillBounds, ghosts>>

(* open_at_path, the rest: the time is asked for after the bytes were read.   *)
OpenStamp(h) ==
    /\ at[h] \in {"restamp", "bootstamp"}
    /\ Replace(h, op[h].skills, IF op[h].exists THEN MTime(file) ELSE 0)
    /\ ready' = [ready EXCEPT ![h] = IF at[h] = "restamp" THEN @ + 1 ELSE @]
    /\ Goto(h, "idle", Nothing)
    /\ UNCHANGED <<diskVars, born, skillBounds, ghosts>>

-----------------------------------------------------------------------------
(* Changes.  Each leaves the copy, its summary and its indexes changed before *)
(* the file is written.                                                       *)

Begin(h) == at[h] = "idle" /\ ready[h] > 0 /\ ready' = [ready EXCEPT ![h] = @ - 1]

Change(h, s, entry) ==
    /\ mem' = [mem EXCEPT ![h][s] = entry]
    /\ latest' = [latest EXCEPT ![h][s] = IF entry = NoEntry THEN NoEntry
                                                             ELSE Summarize(entry)]
    /\ Goto(h, "write", s)

(* The entry a mistake leaves behind: the copy has changed, its summary has   *)
(* not, nothing is written, and the caller gets an error or no answer.        *)
LeaveChanged(h, s, entry) ==
    /\ mem' = [mem EXCEPT ![h][s] = entry]
    /\ refused' = refused \cup {s}
    /\ blanked' = TRUE
    /\ UNCHANGED <<latest, at, op>>

EntryForUploadAfresh(h, s) ==
    IF mem[h][s] = NoEntry
    THEN [born |-> born + 1, status |-> "active", versions |-> <<>>]
    ELSE [mem[h][s] EXCEPT !.status = IF @ = "revoked" THEN @ ELSE "active",
                           !.versions = IF mem[h][s].status = "deprecated" THEN <<>> ELSE @]

(* An upload takes over a missing entry, or un-deprecates the present one. *)
EntryForUpload(h, s) ==
    IF mem[h][s] = NoEntry
    THEN [born |-> born + 1, status |-> "active", versions |-> <<>>]
    ELSE [mem[h][s] EXCEPT !.status = IF @ = "revoked" THEN @ ELSE "active"]

PatchBaseFirst(entry) ==
    IF entry.versions = <<>> THEN Nothing ELSE TextOf(entry, 1)

(* A new version is a patch of the latest text; the first is a full text. *)
PatchBase(entry) ==
    IF entry.versions = <<>> THEN Nothing ELSE TextOf(entry, Len(entry.versions))

(* SkillRegistry::upload_skill.                                               *)
(* The uploader is checked after the entry has been created or re-activated.  *)
Upload(h, s, c, a) ==
    LET entry == EntryForUpload(h, s)
    IN
    /\ Begin(h)
    /\ Len(entry.versions) < MaxVersions
    /\ mem[h][s] = NoEntry => born < MaxBirths
    /\ born' = IF mem[h][s] = NoEntry THEN born + 1 ELSE born
    /\ IF a = Blank
       THEN LeaveChanged(h, s, entry)
       ELSE /\ Change(h, s, [entry EXCEPT !.versions =
                                 Append(@, [base |-> PatchBase(entry), text |-> c, by |-> a])])
            /\ UNCHANGED <<refused, blanked>>
    /\ UNCHANGED <<lastMod, diskVars, skillBounds, acked>>

(* The REST and MCP handler uploads for a registered agent only; the          *)
(* dashboard's handler passes on whatever the form says.                      *)
ServerUpload(h, s, c, a) == a \in Registered /\ Upload(h, s, c, a)
DashboardUpload(h, s, c, a) == Upload(h, s, c, a)

(* deprecate_skill and revoke_skill; summarizing an entry without versions    *)
(* panics, with the status already set.                                       *)
SetStatus(h, s, status) ==
    LET entry == [mem[h][s] EXCEPT !.status = status]
    IN
    /\ Begin(h)
    /\ mem[h][s] # NoEntry
    /\ IF entry.versions = <<>>
       THEN LeaveChanged(h, s, entry)
       ELSE Change(h, s, entry) /\ UNCHANGED <<refused, blanked>>
    /\ UNCHANGED <<lastMod, diskVars, born, skillBounds, acked>>

Deprecate(h, s) == SetStatus(h, s, "deprecated")
Revoke(h, s) == SetStatus(h, s, "revoked")

(* delete_skill: without a summary to return it would have to make one, which *)
(* panics for an entry without versions, before anything is removed.          *)
Delete(h, s) ==
    /\ Begin(h)
    /\ mem[h][s] # NoEntry
    /\ IF mem[h][s].versions = <<>>
       THEN UNCHANGED <<mem, latest, at, op>>
       ELSE Change(h, s, NoEntry)
    /\ UNCHANGED <<lastMod, diskVars, born, skillBounds, ghosts>>

(* All three return NotFound for a skill that is not there. *)
NotFound(h, s) ==
    /\ Begin(h)
    /\ mem[h][s] = NoEntry
    /\ UNCHANGED <<mem, latest, lastMod, at, op, diskVars, born, skillBounds, ghosts>>

-----------------------------------------------------------------------------
(* SkillRegistry::persist: write the temporary file, rename it, read its time *)
(* back.                                                                      *)

PersistWriteUnlinking(h) ==
    /\ at[h] = "write" /\ writes < MaxWrites
    /\ writes' = writes + 1
    /\ tmp' = [mtime |-> writes + 1, skills |-> mem[h]]
    /\ file' = NoFile
    /\ Goto(h, "rename", op[h])
    /\ UNCHANGED <<mem, latest, lastMod, ready, born, skillBounds, ghosts>>

PersistWrite(h) ==
    /\ at[h] = "write" /\ writes < MaxWrites
    /\ writes' = writes + 1
    /\ tmp' = [mtime |-> writes + 1, skills |-> mem[h]]
    /\ Goto(h, "rename", op[h])
    /\ UNCHANGED <<mem, latest, lastMod, ready, file, born, skillBounds, ghosts>>

PersistRename(h) ==
    /\ at[h] = "rename" /\ tmp # NoFile
    /\ file' = tmp /\ tmp' = NoFile
    /\ Goto(h, "stamp", op[h])
    /\ UNCHANGED <<mem, latest, lastMod, ready, writes, born, skillBounds, ghosts>>

(* The last step answers the caller. *)
PersistStamp(h) ==
    LET s == op[h] IN
    /\ at[h] = "stamp"
    /\ lastMod' = [lastMod EXCEPT ![h] = MTime(file)]
    /\ acked' = [acked EXCEPT ![s] = mem[h][s]]
    /\ refused' = refused \ {s}
    /\ Goto(h, "idle", Nothing)
    /\ UNCHANGED <<mem, latest, ready, diskVars, born, skillBounds, blanked>>

(* The write or the rename fails (the rename also when another holder has     *)
(* taken the temporary file): the caller gets an error, the copy stays        *)
(* changed.                                                                   *)
PersistFail(h) ==
    /\ at[h] \in {"write", "rename"}
    /\ \/ at[h] = "rename" /\ tmp = NoFile /\ UNCHANGED skillFaults
       \/ skillFaults < MaxSkillFaults /\ skillFaults' = skillFaults + 1
    /\ refused' = refused \cup {op[h]}
    /\ Goto(h, "idle", Nothing)
    /\ UNCHANGED <<mem, latest, lastMod, ready, diskVars, born, skillCrashes, acked, blanked>>

(* The process dies and is started again. *)
SkillCrash(h) ==
    /\ at[h] # "down" /\ skillCrashes < MaxSkillCrashes
    /\ skillCrashes' = skillCrashes + 1
    /\ refused' = IF at[h] \in {"write", "rename", "stamp"} THEN refused \cup {op[h]}
                                                            ELSE refused
    /\ mem' = [mem EXCEPT ![h] = Empty] /\ latest' = [latest EXCEPT ![h] = Empty]
    /\ lastMod' = [lastMod EXCEPT ![h] = 0] /\ ready' = [ready EXCEPT ![h] = 0]
    /\ Goto(h, "boot", Nothing)
    /\ UNCHANGED <<diskVars, born, skillFaults, acked, blanked>>

-----------------------------------------------------------------------------
SkillsNext ==
    \E h \in Holders :
        \/ RefreshStat(h) \/ OpenRead(h) \/ OpenStamp(h)
        \/ \E s \in Skills :
               \/ \E c \in Contents, a \in Authors :
                      ServerUpload(h, s, c, a) \/ DashboardUpload(h, s, c, a)
               \/ Deprecate(h, s) \/ Revoke(h, s) \/ Delete(h, s) \/ NotFound(h, s)
        \/ PersistWrite(h) \/ PersistRename(h) \/ PersistStamp(h) \/ PersistFail(h)
        \/ SkillCrash(h)

SkillsSpec == SkillsInit /\ [][SkillsNext]_skillVars

-----------------------------------------------------------------------------
(* Properties.                                                                *)

(* The file can be opened: every entry has a version, and the text of every   *)
(* version can be put together from the patches and has its recorded hash.    *)
(* And what list and search answer from (the summaries and the indexes made   *)
(* of them) is what the entries say, whatever failed on the way.  Only an     *)
(* upload refused for its uploader can spoil either, by the entry without     *)
(* versions it leaves to the next change.                                     *)
RegistryIsSound ==
    \/ blanked
    \/ /\ file = NoFile \/ Opens(file.skills)
       /\ \A h \in Holders : latest[h] = Summaries(mem[h])

Busy == {op[h] : h \in {x \in Holders : at[x] \in {"write", "rename", "stamp"}}}

(* What was acknowledged is in the file, as long as no later change of the    *)
(* same skill failed half way: a crash, or a failed write of another skill,   *)
(* takes nothing back.                                                        *)
AckedIsStored ==
    \A s \in Skills \ (refused \cup Busy) :
        (IF file = NoFile THEN NoEntry ELSE file.skills[s]) = acked[s]

(* A stored version is immutable: the file only ever adds versions to a       *)
(* skill, unless the skill was deleted and created again.                     *)
HistoryPreserved ==
    [][file # NoFile /\ file' # NoFile =>
         \A s \in Skills :
             LET old == file.skills[s] new == file'.skills[s]
             IN  old # NoEntry /\ new # NoEntry /\ old.born = new.born
                     => IsPrefix(old.versions, new.versions)]_skillVars

=============================================================================
