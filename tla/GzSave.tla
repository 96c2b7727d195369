------------------------------- MODULE GzSave -------------------------------
(***************************************************************************)
(* Saving a script: GzResourceSaver::_save() and save_text_safely() of     *)
(* gz_resource_format.cpp, step by step, in several editor processes that  *)
(* save to one path.  Each writes a temporary file of its own, syncs it,   *)
(* reads it back, renames it over the path and syncs the directory.  Any   *)
(* step can fail, a process can die between two of them, and a power       *)
(* failure loses what was not synced.                                      *)
(***************************************************************************)
EXTENDS Integers, FiniteSets

CONSTANTS
    Savers,         \* editor processes
    Texts,          \* texts a script can have
    FirstText,      \* the file's text at the start
    Broken,         \* contents that are no text anyone saved
    NoFile,
    MaxSaves        \* bound on saves

ASSUME SaveConstants ==
    /\ FirstText \in Texts /\ MaxSaves \in Nat
    /\ Broken \notin Texts /\ NoFile \notin Texts /\ NoFile # Broken

SaveSteps == {"idle", "write", "sync", "verify", "replace", "parent"}

\* a file's contents, and whether they are on the disk
FileStates == [text : Texts \cup {Broken}, synced : BOOLEAN]
None == [text |-> NoFile, synced |-> FALSE]

VARIABLES
    target,         \* the file at the path, as every process reads it
    onDisk,         \* the files the path can name after a power failure
    temporary,      \* [Savers -> temporary file]
    step,           \* [Savers -> step of save_text_safely()]
    source,         \* [Savers -> the text it saves]
    begun,          \* saves that were begun
    saved           \* saves that returned OK

saveVars == <<target, onDisk, temporary, step, source, begun, saved>>
disk == <<target, onDisk>>

SaveInit ==
    /\ target = [text |-> FirstText, synced |-> TRUE]
    /\ onDisk = {target}
    /\ temporary = [s \in Savers |-> None]
    /\ step = [s \in Savers |-> "idle"]
    /\ source = [s \in Savers |-> FirstText]
    /\ begun = 0
    /\ saved = 0

-----------------------------------------------------------------------------

At(s, now, then) == step[s] = now /\ step' = [step EXCEPT ![s] = then]
Temporary(s, file) == temporary' = [temporary EXCEPT ![s] = file]

\* _save() of a script; its text does not change while the main thread saves
SaveBegins(s, t) ==
    /\ begun < MaxSaves
    /\ begun' = begun + 1
    /\ At(s, "idle", "write")
    /\ source' = [source EXCEPT ![s] = t]
    /\ UNCHANGED <<disk, temporary, saved>>

\* store_string() and flush(): what arrives may not be what was stored
WriteTemporary(s) ==
    /\ At(s, "write", "sync")
    /\ \E t \in {source[s], Broken} : Temporary(s, [text |-> t, synced |-> FALSE])
    /\ UNCHANGED <<disk, source, begun, saved>>

\* gz_sync_file()
SyncTemporary(s) ==
    /\ At(s, "sync", "verify")
    /\ Temporary(s, [temporary[s] EXCEPT !.synced = TRUE])
    /\ UNCHANGED <<disk, source, begun, saved>>

VerifyTemporary(s) ==
    /\ temporary[s].text = source[s]
    /\ At(s, "verify", "replace")
    /\ UNCHANGED <<disk, temporary, source, begun, saved>>

\* gz_atomic_replace(): the new directory entry is not on the disk yet
ReplaceTarget(s) ==
    /\ At(s, "replace", "parent")
    /\ target' = temporary[s]
    /\ onDisk' = onDisk \cup {temporary[s]}
    /\ Temporary(s, None)
    /\ UNCHANGED <<source, begun, saved>>

\* mutant: OK is returned before the directory is on the disk
SyncParentSkipped(s) ==
    /\ At(s, "parent", "idle")
    /\ saved' = saved + 1
    /\ UNCHANGED <<disk, temporary, source, begun>>

\* gz_sync_parent_directory(); save_text_safely() returns OK and _save() goes
\* on to queue_saved(), the change of the path and its own OK
SyncParent(s) ==
    /\ At(s, "parent", "idle")
    /\ onDisk' = {target}
    /\ saved' = saved + 1
    /\ UNCHANGED <<target, temporary, source, begun>>

\* mutant: an error leaves the temporary file where it is
SaveFailsLeaving(s) ==
    /\ step[s] \in {"write", "sync", "verify", "replace"}
    /\ step' = [step EXCEPT ![s] = "idle"]
    /\ UNCHANGED <<disk, temporary, source, begun, saved>>

\* an error of any step removes the temporary file and is returned
SaveFails(s) ==
    /\ step[s] \in {"write", "sync", "verify", "replace"}
    /\ step' = [step EXCEPT ![s] = "idle"]
    /\ Temporary(s, None)
    /\ UNCHANGED <<disk, source, begun, saved>>

\* the directory cannot be synced: an error, although the path is replaced
ParentFails(s) ==
    /\ At(s, "parent", "idle")
    /\ UNCHANGED <<disk, temporary, source, begun, saved>>

-----------------------------------------------------------------------------

\* a process dies; its temporary file stays behind under a name that no other
\* process takes
SaverDies(s) ==
    /\ step[s] # "idle"
    /\ step' = [step EXCEPT ![s] = "idle"]
    /\ Temporary(s, None)
    /\ UNCHANGED <<disk, source, begun, saved>>

\* the power fails: the path names one of the files it can name on the disk,
\* and a file that was not synced may have any contents
SavePowerFailure ==
    /\ \E file \in onDisk :
          \E t \in IF file.synced THEN {file.text} ELSE {file.text, Broken} :
             target' = [text |-> t, synced |-> TRUE]
    /\ onDisk' = {target'}
    /\ step' = [s \in Savers |-> "idle"]
    /\ temporary' = [s \in Savers |-> None]
    /\ UNCHANGED <<source, begun, saved>>

SaveNext ==
    \/ \E s \in Savers :
          \/ \E t \in Texts : SaveBegins(s, t)
          \/ WriteTemporary(s) \/ SyncTemporary(s) \/ VerifyTemporary(s)
          \/ ReplaceTarget(s) \/ SyncParent(s)
          \/ SaveFails(s) \/ ParentFails(s) \/ SaverDies(s)
    \/ SavePowerFailure

SaveSpec == SaveInit /\ [][SaveNext]_saveVars

-----------------------------------------------------------------------------
(* Properties                                                              *)

\* The variables have their types, and only a save that has written its file
\* and not yet replaced the path has one: whatever fails, nothing is left.
SaveTypeOK ==
    /\ target \in FileStates
    /\ onDisk \subseteq FileStates
    /\ temporary \in [Savers -> FileStates \cup {None}]
    /\ step \in [Savers -> SaveSteps]
    /\ source \in [Savers -> Texts]
    /\ begun \in 0..MaxSaves /\ saved \in 0..begun
    /\ \A s \in Savers : step[s] \in {"idle", "write", "parent"} => temporary[s] = None

File == INSTANCE DurableFile WITH
    content <- target.text,
    survivors <- {file.text : file \in onDisk},
    saves <- saved

\* Saving implements a durable file: nobody ever reads a part of a text or no
\* text ("saving temporarily removed the destination path"), and after OK no
\* power failure brings back an older text, whatever the other editors do.
ImplementsDurableFile == File!Spec

=============================================================================
