------------------------------ MODULE SettingsStore ------------------------------
(***************************************************************************)
(* The settings file: SettingsRepository, which collects saves and writes  *)
(* them one after the other, and AtomicFileCommitter, which replaces the   *)
(* file by way of .part and .bak and repairs it when the program starts.   *)
(*                                                                         *)
(* A content of the file is the number of the save that made it.  Every    *)
(* operation on a file is a step that may fail, and the program may crash  *)
(* between any two.  Rename and delete are atomic and, like a flushed      *)
(* write, durable once they have returned; a file that is being written is *)
(* damaged until the write is flushed.  Damage from outside comes while    *)
(* the program does not run.                                               *)
(***************************************************************************)
EXTENDS Integers, Sequences

CONSTANTS
    MaxSaves,   \* bound on the saves
    MaxFaults,  \* bound on operations that fail and files that are damaged
    MaxCrashes  \* bound on the crashes

StoreAssumption == {MaxSaves, MaxFaults, MaxCrashes} \subseteq Nat

VARIABLES
    disk,     \* settings.json, its .bak, .part and .part.invalid
    pc,       \* where the program is
    writing,  \* the commit in progress
    pending,  \* _pendingContent
    chain,    \* _saveChain: the contents that wait for the commit in progress
    flush,    \* the flush in progress: from when, and for which write it waits
    settings, \* the settings in memory: the last save or what was loaded
    saves,    \* saves so far
    promised, \* history: the newest content that somebody was told is stored
    refused,  \* history: the newest content whose save reported an error
    faults, crashes \* so far (bound the model)

storeVars == <<disk, pc, writing, pending, chain, flush, settings, saves, promised,
               refused, faults, crashes>>

Absent == 0
Damaged == -1
Content == 1 .. MaxSaves

NotWriting == [at |-> "idle", content |-> Absent, moved |-> FALSE]
NoFlush == [upTo |-> 0, until |-> 0, again |-> FALSE]

Larger(a, b) == IF a > b THEN a ELSE b

TypeOK ==
    /\ disk \in [{"target", "backup", "part", "invalid"} -> Content \cup {Absent, Damaged}]
    /\ pc \in {"down", "recover", "read", "restore", "aside", "back", "open", "fill",
               "clean", "up", "flushing", "flushed"}
    /\ writing \in [at : {"idle", "clear", "open", "fill", "look", "drop", "away", "in",
                          "undo", "discard"},
                    content : Content \cup {Absent}, moved : BOOLEAN]
    /\ pending \in Content \cup {Absent} /\ chain \in Seq(Content)
    /\ flush \in [upTo : 0 .. MaxSaves, until : 0 .. MaxSaves, again : BOOLEAN]
    /\ {settings, saves, promised, refused} \subseteq 0 .. MaxSaves
    /\ faults \in 0 .. MaxFaults /\ crashes \in 0 .. MaxCrashes

Init ==
    /\ disk = [f \in {"target", "backup", "part", "invalid"} |-> Absent]
    /\ pc = "down" /\ writing = NotWriting /\ pending = Absent /\ chain = <<>>
    /\ flush = NoFlush /\ settings = Absent /\ saves = 0 /\ promised = 0 /\ refused = 0
    /\ faults = 0 /\ crashes = 0

-------------------------------------------------------------------------------
(* Operations on files; "Faulty:" marks a wrong variant that is not used *)

Delete(f) == disk' = [disk EXCEPT ![f] = Absent]
Put(f, c) == disk' = [disk EXCEPT ![f] = c]
Rename(from, to) == disk' = [disk EXCEPT ![to] = disk[from], ![from] = Absent]

Fails == faults < MaxFaults /\ faults' = faults + 1 /\ UNCHANGED disk
Works == UNCHANGED faults

-------------------------------------------------------------------------------
(* The start of the program: load *)

LoadLeaves == UNCHANGED <<writing, pending, chain, flush, saves, refused, crashes>>

LoadGoesOn(where) == pc' = where /\ UNCHANGED <<settings, promised>>

\* An error is reported and the defaults are used: nothing is promised any more.
LoadFails == pc' = "up" /\ settings' = Absent /\ promised' = 0

Boot ==
    /\ pc = "down" /\ LoadGoesOn("recover")
    /\ UNCHANGED <<disk, faults>> /\ LoadLeaves

\* recoverMissingTarget; its failure ends the start of the program.
Recover ==
    /\ pc = "recover"
    /\ IF disk["target"] # Absent \/ disk["backup"] = Absent
       THEN LoadGoesOn("read") /\ UNCHANGED <<disk, faults>>
       ELSE \/ Rename("backup", "target") /\ Works /\ LoadGoesOn("read")
            \/ Fails /\ LoadGoesOn("down")
    /\ LoadLeaves

\* _readValidated of the file, and of the backup if the file is damaged.
ReadFile ==
    /\ pc = "read"
    /\ IF disk["target"] # Damaged
       THEN pc' = "up" /\ settings' = disk["target"] /\ UNCHANGED promised
       ELSE IF disk["backup"] \in Content
       THEN pc' = "restore" /\ settings' = disk["backup"] /\ UNCHANGED promised
       ELSE LoadFails
    /\ UNCHANGED <<disk, faults>> /\ LoadLeaves

\* restoreBackup.  (The content of the backup is in settings.)
Restore ==
    /\ \/ pc = "restore" /\ Delete("invalid") /\ LoadGoesOn("aside")
       \/ pc = "aside" /\ Rename("target", "invalid") /\ LoadGoesOn("back")
       \/ pc = "back" /\ Rename("backup", "target") /\ LoadGoesOn("open")
       \/ pc = "open" /\ Put("backup", Damaged) /\ LoadGoesOn("fill")
       \/ pc = "fill" /\ Put("backup", settings) /\ LoadGoesOn("clean")
       \/ pc = "clean" /\ Delete("invalid") /\ LoadGoesOn("up")
    /\ Works /\ LoadLeaves

\* Any of it fails; the damaged file is put back if there is no other.
RestoreFails ==
    /\ pc \in {"restore", "aside", "back", "open", "fill", "clean"}
    /\ faults < MaxFaults
    /\ IF pc = "back" /\ disk["invalid"] # Absent
       THEN \/ Rename("invalid", "target") /\ faults' = faults + 1
            \/ faults + 1 < MaxFaults /\ faults' = faults + 2 /\ UNCHANGED disk
       ELSE Fails
    /\ LoadFails /\ LoadLeaves

-------------------------------------------------------------------------------
(* Saves *)

Running == pc \in {"up", "flushing", "flushed"}

\* save: the content replaces one that is still pending.
Save ==
    /\ Running /\ saves < MaxSaves
    /\ saves' = saves + 1 /\ pending' = saves' /\ settings' = saves'
    /\ UNCHANGED <<disk, pc, writing, chain, flush, promised, refused, faults, crashes>>

\* The chain with the pending content at its end.
Chained == IF pending = Absent THEN chain ELSE Append(chain, pending)

\* The timer: _enqueueSave.
EnqueueSave ==
    /\ Running /\ pending # Absent
    /\ chain' = Chained /\ pending' = Absent
    /\ UNCHANGED <<disk, pc, writing, flush, settings, saves, promised, refused, faults,
                   crashes>>

WriteLeaves == UNCHANGED <<pc, pending, flush, settings, saves, crashes>>

WriteGoesOn(where) ==
    /\ writing' = [writing EXCEPT !.at = where, !.moved = @ \/ writing.at = "away"]
    /\ UNCHANGED <<chain, promised, refused>>

\* writeString of the next content.
BeginWrite ==
    /\ Running /\ writing.at = "idle" /\ chain # <<>>
    /\ writing' = [NotWriting EXCEPT !.at = "clear", !.content = Head(chain)]
    /\ chain' = Tail(chain)
    /\ UNCHANGED <<disk, promised, refused, faults>> /\ WriteLeaves

\* The callers of save learn that their content, or a newer one, is stored.
Stored ==
    /\ writing' = NotWriting /\ promised' = Larger(promised, writing.content)
    /\ UNCHANGED <<chain, refused>>

\* They learn that it is not.
Refuse ==
    /\ writing' = NotWriting /\ refused' = Larger(refused, writing.content)
    /\ UNCHANGED <<chain, promised>>

\* Faulty: the backup goes first, whether or not there is a file to back up.
LookDropsBackup == WriteGoesOn("drop") /\ UNCHANGED disk

\* commitPart replaces the backup only if there is a file.
Look == WriteGoesOn(IF disk["target"] = Absent THEN "in" ELSE "drop") /\ UNCHANGED disk

\* writeBytes and commitPart, which keeps the backup.
Write ==
    /\ \/ writing.at = "clear" /\ Delete("part") /\ WriteGoesOn("open")
       \/ writing.at = "open" /\ Put("part", Damaged) /\ WriteGoesOn("fill")
       \/ writing.at = "fill" /\ Put("part", writing.content) /\ WriteGoesOn("look")
       \/ writing.at = "look" /\ Look
       \/ writing.at = "drop" /\ Delete("backup") /\ WriteGoesOn("away")
       \/ writing.at = "away" /\ Rename("target", "backup") /\ WriteGoesOn("in")
       \/ writing.at = "in" /\ Rename("part", "target") /\ Stored
       \/ writing.at = "undo" /\ Rename("backup", "target") /\ WriteGoesOn("discard")
       \/ writing.at = "discard" /\ Delete("part") /\ Refuse
    /\ Works /\ WriteLeaves

\* Before the commit an error leaves .part; in it the file is put back.
WriteFails ==
    /\ \/ writing.at \in {"clear", "open", "fill", "undo", "discard"} /\ Refuse
       \/ /\ writing.at \in {"look", "drop", "away", "in"}
          /\ writing' = [writing EXCEPT !.at = IF writing.moved THEN "undo" ELSE "discard"]
          /\ UNCHANGED <<chain, promised, refused>>
    /\ Fails /\ WriteLeaves

-------------------------------------------------------------------------------
(* The end of the program *)

LastOf(s) == IF s # <<>> THEN s[Len(s)] ELSE writing.content

\* flush enqueues what is pending and waits for the chain as it is now.
Flush ==
    /\ pc = "up" /\ pc' = "flushing"
    /\ chain' = Chained /\ pending' = Absent
    /\ flush' = [upTo |-> settings, until |-> LastOf(Chained), again |-> FALSE]
    /\ UNCHANGED <<disk, writing, settings, saves, promised, refused, faults, crashes>>

\* The write that flush waits for is over.
Flushed == flush.until # writing.content /\ \A i \in DOMAIN chain : chain[i] # flush.until

\* A save that came meanwhile is waited for, once.
FlushAgain ==
    /\ pc = "flushing" /\ (flush.until = 0 \/ Flushed)
    /\ pending # Absent /\ ~flush.again
    /\ chain' = Chained /\ pending' = Absent
    /\ flush' = [flush EXCEPT !.until = LastOf(Chained), !.again = TRUE]
    /\ UNCHANGED <<disk, pc, writing, settings, saves, promised, refused, faults, crashes>>

\* Whoever flushed takes what was saved before for stored, unless its own
\* save reported an error.
FlushDone ==
    /\ pc = "flushing" /\ (flush.until = 0 \/ Flushed)
    /\ pending = Absent \/ flush.again
    /\ pc' = "flushed" /\ flush' = NoFlush
    /\ promised' = IF refused < flush.upTo THEN Larger(promised, flush.upTo) ELSE promised
    /\ UNCHANGED <<disk, writing, pending, chain, settings, saves, refused, faults, crashes>>

GoDown ==
    /\ pc' = "down" /\ writing' = NotWriting /\ pending' = Absent /\ chain' = <<>>
    /\ flush' = NoFlush /\ refused' = 0 /\ UNCHANGED <<disk, settings, saves, promised, faults>>

Leave == pc = "flushed" /\ GoDown /\ UNCHANGED crashes

Crash == pc # "down" /\ crashes < MaxCrashes /\ crashes' = crashes + 1 /\ GoDown

\* The file is damaged from outside: what the backup holds is still promised.
Damage ==
    /\ pc = "down" /\ disk["target"] \in Content
    /\ faults < MaxFaults /\ faults' = faults + 1
    /\ Put("target", Damaged)
    /\ promised' = IF disk["backup"] \notin Content THEN 0
                   ELSE IF disk["backup"] < promised THEN disk["backup"] ELSE promised
    /\ UNCHANGED <<pc, writing, pending, chain, flush, settings, saves, refused, crashes>>

Next ==
    \/ Boot \/ Recover \/ ReadFile \/ Restore \/ RestoreFails
    \/ Save \/ EnqueueSave \/ BeginWrite \/ Write \/ WriteFails
    \/ Flush \/ FlushAgain \/ FlushDone \/ Leave \/ Crash \/ Damage

Spec == Init /\ [][Next]_storeVars

-------------------------------------------------------------------------------
(* Properties *)

\* What a start of the program would find.
OnDisk == IF disk["target"] \in Content THEN disk["target"] ELSE disk["backup"]

\* Settings of which a save or a flush has said that they are stored, or newer
\* ones, are never lost: not by crashes, not by operations that fail, in any order
\* (commitPart, recoverMissingTarget, _enqueueSave, flush).  Of a damaged file
\* the generation before survives, also crashes in the middle of its repair
\* (restoreBackup), until a start of the program reports an error.
SettingsSurvive ==
    promised > 0 => OnDisk >= promised /\ (Running => settings >= promised)
=================================================================================
