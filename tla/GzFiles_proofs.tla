---------------------------- MODULE GzFiles_proofs ----------------------------
(***************************************************************************)
(* Proofs about the components that read and write a project's files: how  *)
(* a script is saved (GzSave), which implements a durable file, and how    *)
(* the files that go into the cache key are found (GzImportScanner and     *)
(* GzDependencyWalk); and about MCGzModuleCache, whose behaviours are      *)
(* behaviours of these and of the cache.                                   *)
(***************************************************************************)
EXTENDS MCGzModuleCache, GzModuleCache_proofs, FiniteSetTheorems, SequenceTheorems

-----------------------------------------------------------------------------
(* Saving: types                                                           *)

Saving == {s \in Savers : step[s] # "idle"}

\* What the path names, now and after a power failure, is a whole text that
\* is on the disk.
DiskInv ==
    /\ target \in FileStates /\ target.text \in Texts /\ target.synced
    /\ onDisk \subseteq FileStates
    /\ \A file \in onDisk : file.text \in Texts /\ file.synced

\* A temporary file is synced before it is read back, and is the text that is
\* saved before it gets the path's name.
SaverInv(s) ==
    /\ step[s] \in {"sync", "verify", "replace"} => temporary[s] \in FileStates
    /\ step[s] \in {"verify", "replace"} => temporary[s].synced
    /\ step[s] = "replace" => temporary[s].text = source[s]
    /\ step[s] \in {"idle", "write", "parent"} => temporary[s] = None

SaversInv ==
    /\ temporary \in [Savers -> FileStates \cup {None}]
    /\ step \in [Savers -> SaveSteps]
    /\ source \in [Savers -> Texts]
    /\ \A s \in Savers : SaverInv(s)

\* A save that has begun is acknowledged once at most.
CountInv ==
    /\ begun \in 0..MaxSaves /\ saved \in Nat
    /\ IsFiniteSet(Saving)
    /\ saved + Cardinality(Saving) <= begun

SaveInv == DiskInv /\ SaversInv /\ CountInv

LEMMA SaveInvTypes == SaveInv => SaveTypeOK
<1> SUFFICES ASSUME SaveInv PROVE SaveTypeOK
  OBVIOUS
<1>1. saved \in 0..begun
  <2>1. Cardinality(Saving) \in Nat
    BY FS_CardinalityType DEF SaveInv, CountInv
  <2> QED BY <2>1, SaveConstants DEF SaveInv, CountInv
<1> QED BY <1>1 DEF SaveInv, DiskInv, SaversInv, SaverInv, CountInv, SaveTypeOK

LEMMA SaveInitInv == SaveInit => SaveInv
<1> SUFFICES ASSUME SaveInit PROVE SaveInv
  OBVIOUS
<1>1. DiskInv
  BY SaveConstants DEF SaveInit, DiskInv, FileStates
<1>2. SaversInv
  BY SaveConstants DEF SaveInit, SaversInv, SaverInv, SaveSteps
<1>3. Saving = {}
  BY DEF SaveInit, Saving
<1>4. CountInv
  BY <1>3, FS_EmptySet, SaveConstants DEF SaveInit, CountInv
<1> QED BY <1>1, <1>2, <1>4 DEF SaveInv

\* No step leaves anything but whole, synced texts at the path.
LEMMA DiskStep ==
    ASSUME SaveInv, [SaveNext]_saveVars
    PROVE  DiskInv'
<1> USE DEF SaveInv, DiskInv
<1>1. ASSUME NEW s \in Savers, ReplaceTarget(s) PROVE DiskInv'
  <2>1. step[s] = "replace"
    BY <1>1 DEF ReplaceTarget, At
  <2>2. temporary[s] \in FileStates /\ temporary[s].synced /\ temporary[s].text \in Texts
    BY <2>1 DEF SaversInv, SaverInv
  <2> QED BY <1>1, <2>2 DEF ReplaceTarget
<1>2. ASSUME NEW s \in Savers, SyncParent(s) PROVE DiskInv'
  BY <1>2 DEF SyncParent
<1>3. CASE SavePowerFailure
  <2>1. PICK file \in onDisk : target' = [text |-> file.text, synced |-> TRUE]
    BY <1>3 DEF SavePowerFailure
  <2> QED BY <1>3, <2>1 DEF SavePowerFailure, FileStates
<1>4. CASE UNCHANGED disk
  BY <1>4 DEF disk
<1> QED
  BY <1>1, <1>2, <1>3, <1>4
  DEF SaveNext, saveVars, SaveBegins, WriteTemporary, SyncTemporary, VerifyTemporary,
      SaveFails, ParentFails, SaverDies, disk

\* What a step does to the file and the step of the saver that takes it.
SaverStep(s) ==
    \/ step[s] = "idle" /\ step'[s] = "write" /\ temporary'[s] = temporary[s]
    \/ step[s] = "write" /\ step'[s] = "sync" /\ temporary'[s] \in FileStates
    \/ /\ step[s] = "sync" /\ step'[s] = "verify"
       /\ temporary'[s] = [temporary[s] EXCEPT !.synced = TRUE]
    \/ /\ step[s] = "verify" /\ step'[s] = "replace"
       /\ temporary'[s] = temporary[s] /\ temporary[s].text = source[s]
    \/ step[s] = "replace" /\ step'[s] = "parent" /\ temporary'[s] = None
    \/ step[s] = "parent" /\ step'[s] = "idle" /\ temporary'[s] = temporary[s]
    \/ step[s] # "idle" /\ step'[s] = "idle" /\ temporary'[s] = None

\* A saver works on its own file; only the start of a save sets its text.
OthersStay(s) ==
    /\ temporary' = [temporary EXCEPT ![s] = temporary'[s]]
    /\ step' = [step EXCEPT ![s] = step'[s]]
    /\ step[s] # "idle" => source' = source
    /\ \E t \in Texts : source' \in {source, [source EXCEPT ![s] = t]}

\* Every step of SaveNext but a power failure is a step of one saver.
LEMMA OneSaver ==
    ASSUME SaversInv, [SaveNext]_saveVars, ~SavePowerFailure
    PROVE  \/ \E s \in Savers : SaverStep(s) /\ OthersStay(s)
           \/ UNCHANGED <<temporary, step, source>>
<1> USE DEF SaversInv
<1>1. ASSUME NEW s \in Savers, NEW t \in Texts, SaveBegins(s, t)
      PROVE  SaverStep(s) /\ OthersStay(s)
  BY <1>1 DEF SaveBegins, At, SaverStep, OthersStay
<1>2. ASSUME NEW s \in Savers, WriteTemporary(s) PROVE SaverStep(s) /\ OthersStay(s)
  <2>1. PICK t \in {source[s], Broken} : Temporary(s, [text |-> t, synced |-> FALSE])
    BY <1>2 DEF WriteTemporary
  <2>2. temporary'[s] \in FileStates
    BY <2>1 DEF Temporary, FileStates
  <2> QED BY <1>2, <2>1, <2>2, SaveConstants DEF WriteTemporary, Temporary, At, SaverStep, OthersStay
<1>3. ASSUME NEW s \in Savers, SyncTemporary(s) PROVE SaverStep(s) /\ OthersStay(s)
  BY <1>3, SaveConstants DEF SyncTemporary, Temporary, At, SaverStep, OthersStay
<1>4. ASSUME NEW s \in Savers, VerifyTemporary(s) PROVE SaverStep(s) /\ OthersStay(s)
  BY <1>4, SaveConstants DEF VerifyTemporary, At, SaverStep, OthersStay
<1>5. ASSUME NEW s \in Savers, ReplaceTarget(s) PROVE SaverStep(s) /\ OthersStay(s)
  BY <1>5, SaveConstants DEF ReplaceTarget, Temporary, At, SaverStep, OthersStay
<1>6. ASSUME NEW s \in Savers, SyncParent(s) \/ ParentFails(s)
      PROVE  SaverStep(s) /\ OthersStay(s)
  BY <1>6, SaveConstants DEF SyncParent, ParentFails, At, SaverStep, OthersStay
<1>7. ASSUME NEW s \in Savers, SaveFails(s) \/ SaverDies(s)
      PROVE  SaverStep(s) /\ OthersStay(s)
  BY <1>7, SaveConstants DEF SaveFails, SaverDies, Temporary, At, SaverStep, OthersStay
<1>8. CASE UNCHANGED saveVars
  BY <1>8 DEF saveVars
<1> QED BY <1>1, <1>2, <1>3, <1>4, <1>5, <1>6, <1>7, <1>8 DEF SaveNext

\* What each saver knows of its file stays true.
LEMMA SaversStep ==
    ASSUME SaveInv, [SaveNext]_saveVars
    PROVE  SaversInv'
<1> USE DEF SaveInv, SaversInv
<1>1. CASE SavePowerFailure
  BY <1>1 DEF SavePowerFailure, SaverInv, SaveSteps
<1>2. CASE UNCHANGED <<temporary, step, source>>
  BY <1>2 DEF SaverInv
<1>3. ASSUME NEW s \in Savers, SaverStep(s), OthersStay(s) PROVE SaversInv'
  <2>1. SaverInv(s) /\ temporary[s] \in FileStates \cup {None}
    OBVIOUS
  <2>2. /\ step'[s] \in SaveSteps
        /\ temporary'[s] \in FileStates \cup {None}
    BY <1>3, <2>1 DEF SaverStep, SaverInv, SaveSteps, FileStates
  <2>3. SaverInv(s)'
    <3>1. CASE step[s] = "sync" /\ step'[s] = "verify"
      BY <1>3, <2>1, <3>1 DEF SaverStep, SaverInv, FileStates
    <3>2. CASE step[s] = "verify" /\ step'[s] = "replace"
      <4>1. source' = source
        BY <1>3, <3>2 DEF OthersStay
      <4> QED BY <1>3, <2>1, <3>2, <4>1 DEF SaverStep, SaverInv
    <3>3. CASE step'[s] \notin {"verify", "replace"}
      BY <1>3, <2>1, <3>3 DEF SaverStep, SaverInv
    <3> QED BY <1>3, <3>1, <3>2, <3>3 DEF SaverStep
  <2>4. ASSUME NEW r \in Savers, r # s PROVE SaverInv(r)'
    <3>1. /\ step'[r] = step[r] /\ temporary'[r] = temporary[r]
          /\ source'[r] = source[r]
      BY <1>3, <2>4 DEF OthersStay
    <3> QED BY <3>1 DEF SaverInv
  <2>5. source' \in [Savers -> Texts]
    BY <1>3 DEF OthersStay
  <2>6. /\ temporary' \in [Savers -> FileStates \cup {None}]
        /\ step' \in [Savers -> SaveSteps]
    BY <1>3, <2>2 DEF OthersStay
  <2> QED BY <2>3, <2>4, <2>5, <2>6
<1> QED BY <1>1, <1>2, <1>3, OneSaver

\* A save that fails, dies or is acknowledged stops being one that is going on.
LEMMA SavingShrinks ==
    ASSUME CountInv, NEW T \in SUBSET Saving
    PROVE  /\ IsFiniteSet(T) /\ Cardinality(T) \in Nat
           /\ Cardinality(T) <= Cardinality(Saving)
           /\ \A s \in Saving : s \notin T => Cardinality(T) + 1 <= Cardinality(Saving)
<1>1. IsFiniteSet(T) /\ Cardinality(T) <= Cardinality(Saving) /\ Cardinality(T) \in Nat
  BY FS_Subset, FS_CardinalityType DEF CountInv
<1>2. ASSUME NEW s \in Saving, s \notin T
      PROVE  Cardinality(T) + 1 <= Cardinality(Saving)
  <2>1. IsFiniteSet(Saving \ {s}) /\ Cardinality(Saving \ {s}) = Cardinality(Saving) - 1
    BY FS_RemoveElement DEF CountInv
  <2>2. T \subseteq Saving \ {s}
    BY <1>2
  <2>3. Cardinality(T) <= Cardinality(Saving \ {s})
    BY <2>1, <2>2, FS_Subset
  <2>4. Cardinality(Saving) \in Nat
    BY FS_CardinalityType DEF CountInv
  <2> QED BY <1>1, <2>1, <2>3, <2>4
<1> QED BY <1>1, <1>2

\* No more saves are acknowledged than were begun.
LEMMA CountStep ==
    ASSUME SaveInv, [SaveNext]_saveVars
    PROVE  CountInv'
<1> USE DEF SaveInv
<1>1. Cardinality(Saving) \in Nat
  BY FS_CardinalityType DEF CountInv
<1>2. ASSUME NEW s \in Savers, NEW t \in Texts, SaveBegins(s, t) PROVE CountInv'
  <2>1. Saving' = Saving \cup {s} /\ s \notin Saving
    BY <1>2 DEF SaveBegins, At, Saving, SaversInv
  <2>2. IsFiniteSet(Saving') /\ Cardinality(Saving') = Cardinality(Saving) + 1
    BY <2>1, FS_AddElement DEF CountInv
  <2> QED BY <1>1, <1>2, <2>2, SaveConstants DEF SaveBegins, CountInv
<1>3. ASSUME NEW s \in Savers, SyncParent(s) PROVE CountInv'
  <2>1. Saving' \subseteq Saving /\ s \in Saving /\ s \notin Saving'
    BY <1>3 DEF SyncParent, At, Saving, SaversInv
  <2>2. /\ IsFiniteSet(Saving') /\ Cardinality(Saving') \in Nat
        /\ Cardinality(Saving') + 1 <= Cardinality(Saving)
    BY <2>1, SavingShrinks
  <2> QED BY <1>1, <1>3, <2>2, SaveConstants DEF SyncParent, CountInv
<1>4. ASSUME Saving' \subseteq Saving, UNCHANGED <<begun, saved>> PROVE CountInv'
  <2>1. IsFiniteSet(Saving') /\ Cardinality(Saving') <= Cardinality(Saving)
        /\ Cardinality(Saving') \in Nat
    BY <1>4, SavingShrinks
  <2> QED BY <1>1, <1>4, <2>1 DEF CountInv
<1>5. ASSUME NEW s \in Savers,
             WriteTemporary(s) \/ SyncTemporary(s) \/ VerifyTemporary(s) \/ ReplaceTarget(s)
               \/ SaveFails(s) \/ ParentFails(s) \/ SaverDies(s)
      PROVE  Saving' \subseteq Saving /\ UNCHANGED <<begun, saved>>
  BY <1>5 DEF WriteTemporary, SyncTemporary, VerifyTemporary, ReplaceTarget, SaveFails,
              ParentFails, SaverDies, At, Saving, SaversInv
<1>6. CASE SavePowerFailure
  <2>1. Saving' \subseteq Saving
    BY <1>6 DEF SavePowerFailure, Saving
  <2> QED BY <1>4, <1>6, <2>1 DEF SavePowerFailure
<1>7. CASE UNCHANGED saveVars
  <2>1. Saving' \subseteq Saving
    BY <1>7 DEF saveVars, Saving
  <2> QED BY <1>4, <1>7, <2>1 DEF saveVars
<1> QED BY <1>2, <1>3, <1>4, <1>5, <1>6, <1>7 DEF SaveNext

LEMMA SaveInvHolds == SaveSpec => []SaveInv
<1>1. SaveInv /\ [SaveNext]_saveVars => SaveInv'
  BY DiskStep, SaversStep, CountStep DEF SaveInv
<1> QED BY <1>1, SaveInitInv, PTL DEF SaveSpec

\* The variables keep their types, and whatever fails, a saver that is not
\* between the writing of its file and the replacement has left none behind.
THEOREM SaveTypesTheorem == SaveSpec => []SaveTypeOK
BY SaveInvHolds, SaveInvTypes, PTL

-----------------------------------------------------------------------------
(* Saving implements a durable file                                        *)

LEMMA FileStarts == SaveInit => File!Init
<1> SUFFICES ASSUME SaveInit PROVE File!Init
  OBVIOUS
<1>1. {file.text : file \in onDisk} = {target.text}
  BY DEF SaveInit
<1> QED BY <1>1, SaveConstants DEF SaveInit, File!Init

\* A step that leaves the disk alone is not seen from outside.
LEMMA FileUnseen ==
    ASSUME UNCHANGED <<target, onDisk, saved>>
    PROVE  UNCHANGED File!fileVars
BY DEF File!fileVars

\* Every step is a step of the durable file or is not seen: a rename replaces
\* the text, the directory's sync acknowledges the save, and a power failure
\* leaves one of the texts that the path could name on the disk.
LEMMA FileSteps ==
    ASSUME SaveInv, [SaveNext]_saveVars
    PROVE  [File!Next]_(File!fileVars)
<1> USE DEF SaveInv, DiskInv
<1>1. ASSUME NEW s \in Savers, ReplaceTarget(s) PROVE File!Next
  <2>1. PICK t \in Texts : t = temporary[s].text
    BY <1>1 DEF ReplaceTarget, At, SaversInv, SaverInv
  <2>2. {file.text : file \in onDisk'} = {file.text : file \in onDisk} \cup {t}
    BY <1>1, <2>1 DEF ReplaceTarget
  <2>3. File!Replace(t)
    BY <1>1, <2>1, <2>2 DEF ReplaceTarget, File!Replace
  <2> QED BY <2>3 DEF File!Next
<1>2. ASSUME NEW s \in Savers, SyncParent(s) PROVE File!Acknowledge
  <2>1. {file.text : file \in onDisk'} = {target.text}
    BY <1>2 DEF SyncParent
  <2> QED BY <1>2, <2>1 DEF SyncParent, File!Acknowledge
<1>3. CASE SavePowerFailure
  <2>1. PICK file \in onDisk : target' = [text |-> file.text, synced |-> TRUE]
    BY <1>3 DEF SavePowerFailure
  <2>2. {f.text : f \in onDisk'} = {target'.text} /\ target'.text = file.text
    BY <1>3, <2>1 DEF SavePowerFailure
  <2> QED BY <1>3, <2>1, <2>2 DEF SavePowerFailure, File!PowerFailure, File!Next
<1>4. ASSUME NEW s \in Savers,
             \/ \E t \in Texts : SaveBegins(s, t)
             \/ WriteTemporary(s) \/ SyncTemporary(s) \/ VerifyTemporary(s)
             \/ SaveFails(s) \/ ParentFails(s) \/ SaverDies(s)
      PROVE  UNCHANGED File!fileVars
  <2>1. UNCHANGED <<target, onDisk, saved>>
    BY <1>4 DEF SaveBegins, WriteTemporary, SyncTemporary, VerifyTemporary, SaveFails,
                ParentFails, SaverDies, disk
  <2> QED BY <2>1, FileUnseen
<1>5. CASE UNCHANGED saveVars
  BY <1>5, FileUnseen DEF saveVars
<1>6. ASSUME NEW s \in Savers, SyncParent(s) PROVE File!Next
  BY <1>2, <1>6 DEF File!Next
<1> QED BY <1>1, <1>3, <1>4, <1>5, <1>6 DEF SaveNext

\* Saving implements the durable file, for any number of editors, texts and
\* saves: readers see whole texts only, and after OK no power failure brings
\* an older text back.
THEOREM DurableFileTheorem == SaveSpec => ImplementsDurableFile
<1>1. SaveInv /\ [SaveNext]_saveVars => [File!Next]_(File!fileVars)
  BY FileSteps
<1> QED BY <1>1, FileStarts, SaveInvHolds, PTL
        DEF SaveSpec, ImplementsDurableFile, File!Spec

-----------------------------------------------------------------------------
(* The import scanner                                                      *)

\* Each automaton moves inside its modes; an error of the compiler is the end
\* of the text.
LEMMA ScanType ==
    ASSUME NEW m \in ScanModes, NEW c \in Chars
    PROVE  Scan(m, c) \in ScanModes
BY DEF Scan, ScanCode, Quoted, ScanModes, Chars, Blanks

LEMMA LexType ==
    ASSUME NEW m \in LexModes, m # "error", NEW c \in Chars
    PROVE  Lex(m, c) \in LexModes
BY DEF Lex, LexCode, LexQuoted, LexEscape, LexModes, ScanModes, Chars, Blanks

\* The scanner and the compiler's tokenizer keep their modes, whether or not
\* the text has multiline strings.
THEOREM ScannerTypesTheorem == ScannerSpec => []ScannerTypeOK
<1> DEFINE Inv == ScannerTypeOK /\ lex # "error"
<1>1. ScannerInit => Inv
  BY DEF ScannerInit, ScannerTypeOK, ScanModes, LexModes
<1>2. Inv /\ [ScannerNext]_scannerVars => Inv'
  <2> SUFFICES ASSUME Inv, [ScannerNext]_scannerVars PROVE Inv'
    OBVIOUS
  <2>1. ASSUME NEW c \in Chars, ReadChar(c) PROVE Inv'
    BY <2>1, ScanType, LexType DEF ReadChar, ScannerTypeOK
  <2>2. CASE UNCHANGED scannerVars
    BY <2>2 DEF scannerVars, ScannerTypeOK
  <2> QED BY <2>1, <2>2 DEF ScannerNext
<1> QED BY <1>1, <1>2, PTL DEF ScannerSpec

\* The modes that only the compiler has are reached by what makes the scanner
\* fail: an escape in a name or a comment inside of a call.
InStep(m, l) == m = "failed" \/ (m = l /\ l \in ScanModes)

\* Without multiline strings the scanner is in the compiler's mode until it
\* fails, and once it has failed it stays so.
LEMMA StaysInStep ==
    ASSUME ~MayUseMultiline, NEW m, NEW l \in LexModes, InStep(m, l),
           NEW c \in Chars, Lex(l, c) # "error"
    PROVE  InStep(Scan(m, c), Lex(l, c))
<1>1. CASE m = "failed"
  BY <1>1 DEF InStep, Scan
<1>2. CASE m = l /\ l \in ScanModes /\ l # "failed"
  BY <1>2 DEF InStep, Scan, ScanCode, Quoted, Lex, LexCode, LexQuoted, LexEscape,
              ScanModes, Chars, Blanks
<1> QED BY <1>1, <1>2 DEF InStep

\* An import the scanner did not see, because it had failed before or was
\* looking elsewhere, leaves it failed.
ScannerInv ==
    /\ lex \in LexModes \ {"error"}
    /\ InStep(scan, lex)
    /\ missed => scan = "failed"

\* In a text without multiline strings, of any length, every import the
\* compiler follows is found, or the key covers the whole directory.
THEOREM ImportsTheorem ==
    ASSUME ~MayUseMultiline
    PROVE  ScannerSpec => []ImportsFound
<1>1. ScannerInit => ScannerInv
  BY DEF ScannerInit, ScannerInv, InStep, ScanModes, LexModes
<1>2. ScannerInv /\ [ScannerNext]_scannerVars => ScannerInv'
  <2> SUFFICES ASSUME ScannerInv, [ScannerNext]_scannerVars PROVE ScannerInv'
    OBVIOUS
  <2> USE DEF ScannerInv
  <2>1. ASSUME NEW c \in Chars, ReadChar(c) PROVE ScannerInv'
    <3>1. Lex(lex, c) \in LexModes
      BY LexType
    <3>2. InStep(scan', lex')
      BY <2>1, StaysInStep DEF ReadChar
    <3>3. missed' => scan' = "failed"
      <4>1. CASE scan = "failed"
        BY <2>1, <4>1 DEF ReadChar, Scan
      <4>2. CASE scan # "failed"
        BY <2>1, <4>2 DEF ReadChar, InStep
      <4> QED BY <4>1, <4>2
    <3> QED BY <2>1, <3>1, <3>2, <3>3 DEF ReadChar
  <2>2. CASE UNCHANGED scannerVars
    BY <2>2 DEF scannerVars
  <2> QED BY <2>1, <2>2 DEF ScannerNext
<1>3. ScannerInv => ImportsFound
  BY DEF ScannerInv, ImportsFound, ScanFails
<1> QED BY <1>1, <1>2, <1>3, PTL DEF ScannerSpec

-----------------------------------------------------------------------------
(* The walk over imports                                                   *)

\* The nodes on the stack are those below the top and the top.
LEMMA PoppedStack ==
    ASSUME pending \in Seq(Nodes), pending # <<>>
    PROVE  /\ Top \in Nodes /\ Rest \in Seq(Nodes)
           /\ Range(pending) = Range(Rest) \cup {Top}
<1>1. Len(pending) \in Nat \ {0} /\ Top \in Nodes
  BY DEF Top
<1>2. /\ Rest \in Seq(Nodes) /\ Len(Rest) = Len(pending) - 1
      /\ \A n \in 1..Len(Rest) : Rest[n] = pending[n]
  <2>1. \A n \in 1..(Len(pending) - 1) : pending[n] \in Nodes
    BY <1>1
  <2>2. /\ Rest \in Seq(Nodes)
        /\ Len(Rest) = IF 1 <= Len(pending) - 1 THEN Len(pending) - 1 - 1 + 1 ELSE 0
        /\ \A n \in 1..(Len(pending) - 1 - 1 + 1) : Rest[n] = pending[1 + n - 1]
    BY <1>1, <2>1, SubSeqProperties DEF Rest
  <2>3. Len(Rest) = Len(pending) - 1
    <3>1. \A k \in Nat \ {0} : (IF 1 <= k - 1 THEN k - 1 - 1 + 1 ELSE 0) = k - 1
      OBVIOUS
    <3> QED BY <1>1, <2>2, <3>1
  <2>4. ASSUME NEW n \in 1..Len(Rest) PROVE Rest[n] = pending[n]
    <3>1. n \in 1..(Len(pending) - 1 - 1 + 1) /\ 1 + n - 1 = n
      BY <1>1, <2>3
    <3> QED BY <2>2, <3>1
  <2> QED BY <2>2, <2>3, <2>4
<1>3. Range(Rest) = {pending[n] : n \in 1..(Len(pending) - 1)}
  BY <1>2 DEF Range
<1>4. Range(pending) = {pending[n] : n \in 1..Len(pending)}
  BY DEF Range
<1>5. 1..Len(pending) = (1..(Len(pending) - 1)) \cup {Len(pending)}
  BY <1>1
<1> QED BY <1>1, <1>2, <1>3, <1>4, <1>5 DEF Top

\* A file's references in some order hold what the file refers to.
LEMMA ReadingHolds ==
    ASSUME NEW S \in SUBSET Nodes, NEW order \in Readings(S), IsFiniteSet(S)
    PROVE  order \in Seq(Nodes) /\ Range(order) = S
<1>1. Cardinality(S) \in Nat
  BY FS_CardinalityType
<1>2. /\ order \in [1..Cardinality(S) -> S]
      /\ \A x \in S : \E n \in 1..Cardinality(S) : order[n] = x
  BY DEF Readings, Bijection, Injection, Surjection
<1> QED BY <1>1, <1>2 DEF Range

\* Pushing a file's references adds them to the nodes on the stack.
LEMMA PushedStack ==
    ASSUME NEW s \in Seq(Nodes), NEW t \in Seq(Nodes)
    PROVE  s \o t \in Seq(Nodes) /\ Range(s \o t) = Range(s) \cup Range(t)
<1>1. s \o t \in Seq(Nodes) /\ Len(s \o t) = Len(s) + Len(t)
  OBVIOUS
<1>2. \A n \in 1..Len(s) : (s \o t)[n] = s[n]
  OBVIOUS
<1>3. \A n \in 1..Len(t) : (s \o t)[Len(s) + n] = t[n]
  OBVIOUS
<1>4. \A n \in 1..Len(s \o t) :
         n \in 1..Len(s) \/ (n - Len(s) \in 1..Len(t) /\ (s \o t)[n] = t[n - Len(s)])
  OBVIOUS
<1>5. Range(s \o t) \subseteq Range(s) \cup Range(t)
  BY <1>1, <1>2, <1>4 DEF Range
<1>6. Range(s) \subseteq Range(s \o t)
  BY <1>1, <1>2 DEF Range
<1>7. Range(t) \subseteq Range(s \o t)
  <2> SUFFICES ASSUME NEW n \in 1..Len(t) PROVE t[n] \in Range(s \o t)
    BY DEF Range
  <2>1. Len(s) + n \in 1..Len(s \o t)
    BY <1>1
  <2> QED BY <1>1, <1>3, <2>1 DEF Range
<1> QED BY <1>1, <1>5, <1>6, <1>7

Discovered == visited \cup Range(pending)

\* Nothing the walk has come across is lost: it was visited, or is on the
\* stack.  All of it can be reached from the source, and the first file that
\* is visited, whose hash is left out, is the source.
WalkInv ==
    /\ WalkTypeOK
    /\ outcome = "exact" => pending = <<>>
    /\ outcome # "tree" =>
          /\ Start \in Discovered
          /\ \A n \in visited : n.import => Followed(n.file) \subseteq Discovered
    /\ \A S \in SUBSET Nodes : Closed(S) => Discovered \subseteq S
    /\ visited = {} => Range(pending) \subseteq {Start}
    /\ {n.file : n \in visited} \ {Root} \subseteq hashed

\* What is pushed for a file are nodes.
LEMMA FollowedNodes ==
    ASSUME references \in [ZigFiles -> SUBSET References], NEW f \in Files
    PROVE  Followed(f) \in SUBSET Nodes
<1>1. \A q \in References : Node(q) \in Nodes
  BY DEF References, Node, Nodes
<1> QED BY <1>1 DEF Followed

\* A closed set holds the source and what is pushed for its imports.
LEMMA ClosedFollowed ==
    ASSUME NEW S \in SUBSET Nodes
    PROVE  Closed(S) <=> /\ Start \in S
                         /\ \A n \in S : n.import => Followed(n.file) \subseteq S
BY DEF Closed, Followed, Skipped

LEMMA WalkInitInv == WalkInit => WalkInv
<1> SUFFICES ASSUME WalkInit PROVE WalkInv
  OBVIOUS
<1>1. Start \in Nodes
  BY WalkConstants DEF Start, Nodes
<1>2. pending \in Seq(Nodes) /\ Range(pending) = {Start}
  BY <1>1 DEF WalkInit, Range
<1>3. WalkTypeOK
  BY <1>2 DEF WalkInit, WalkTypeOK
<1> QED BY <1>2, <1>3 DEF WalkInit, WalkInv, Discovered, Closed

\* There are finitely many nodes, so that a file's references have an order.
LEMMA NodesFinite == IsFiniteSet(Nodes)
<1>1. IsFiniteSet(BOOLEAN)
  <2>1. IsFiniteSet({TRUE}) /\ IsFiniteSet({FALSE})
    BY FS_Singleton
  <2>2. BOOLEAN = {TRUE} \cup {FALSE}
    OBVIOUS
  <2> QED BY <2>1, <2>2, FS_Union
<1>2. IsFiniteSet(Files \X BOOLEAN)
  BY <1>1, WalkConstants, FS_Product
<1> DEFINE node == [p \in Files \X BOOLEAN |-> [file |-> p[1], import |-> p[2]]]
<1>3. node \in [Files \X BOOLEAN -> Nodes]
  BY DEF Nodes
<1>4. ASSUME NEW n \in Nodes PROVE \E p \in Files \X BOOLEAN : node[p] = n
  <2>1. <<n.file, n.import>> \in Files \X BOOLEAN
    BY DEF Nodes
  <2>2. node[<<n.file, n.import>>] = n
    BY <2>1 DEF Nodes
  <2> QED BY <2>1, <2>2
<1>5. node \in Surjection(Files \X BOOLEAN, Nodes)
  BY <1>3, <1>4 DEF Surjection
<1> QED BY <1>2, <1>5, FS_Surjection

\* A node that was visited before leaves the stack.
LEMMA SkipStep == WalkInv /\ SkipVisited => WalkInv'
<1> SUFFICES ASSUME WalkInv, SkipVisited PROVE WalkInv'
  OBVIOUS
<1> USE DEF WalkInv, WalkTypeOK
<1>1. Rest \in Seq(Nodes) /\ Range(pending) = Range(Rest) \cup {Top} /\ Top \in visited
  BY PoppedStack DEF SkipVisited
<1>2. /\ pending' = Rest /\ outcome = "walking"
      /\ UNCHANGED <<references, visited, hashed, outcome>>
  BY DEF SkipVisited
<1>3. Discovered' = Discovered
  BY <1>1, <1>2 DEF Discovered
<1>4. \A n \in Nodes : Followed(n.file)' = Followed(n.file)
  BY <1>2 DEF Followed
<1> QED BY <1>1, <1>2, <1>3, <1>4 DEF Closed

\* What the visit of the top node does, whichever references it pushes.
LEMMA VisitStep ==
    ASSUME WalkInv, outcome = "walking", pending # <<>>, Top \notin visited,
           visited' = visited \cup {Top}, hashed' = Hash(Top),
           UNCHANGED <<references, outcome>>,
           NEW pushed \in SUBSET Nodes,
           pending' \in Seq(Nodes), Range(pending') = Range(Rest) \cup pushed,
           pushed = IF Top.import THEN Followed(Top.file) ELSE {}
    PROVE  WalkInv'
<1> USE DEF WalkInv, WalkTypeOK
<1>1. Top \in Nodes /\ Range(pending) = Range(Rest) \cup {Top}
  BY PoppedStack
<1>2. Top.file \in Files
  BY <1>1 DEF Nodes
<1>3. Discovered' = Discovered \cup pushed
  BY <1>1 DEF Discovered
<1>4. WalkTypeOK'
  BY <1>1, <1>2 DEF Hash
<1>5. Start \in Discovered'
  BY <1>3
<1>6. \A n \in visited' : n.import => Followed(n.file)' \subseteq Discovered'
  BY <1>3 DEF Followed
<1>7. ASSUME NEW S \in SUBSET Nodes, Closed(S) PROVE Discovered' \subseteq S
  <2>1. Discovered \subseteq S
    BY <1>7
  <2>2. Top \in S
    BY <1>1, <2>1 DEF Discovered
  <2>3. pushed \subseteq S
    BY <1>7, <2>2, ClosedFollowed
  <2> QED BY <1>3, <2>1, <2>3
<1>8. {n.file : n \in visited'} \ {Root} \subseteq hashed'
  <2>1. CASE visited = {}
    <3>1. Top.file = Root
      BY <1>1, <2>1 DEF Start
    <3> QED BY <2>1, <3>1
  <2>2. CASE visited # {}
    BY <2>2 DEF Hash
  <2> QED BY <2>1, <2>2
<1>9. \A S \in SUBSET Nodes : Closed(S)' => Discovered' \subseteq S
  BY <1>7 DEF Closed
<1> QED BY <1>4, <1>5, <1>6, <1>8, <1>9

LEMMA EmbeddedStep == WalkInv /\ VisitEmbedded => WalkInv'
<1> SUFFICES ASSUME WalkInv, VisitEmbedded PROVE WalkInv'
  OBVIOUS
<1>1. Rest \in Seq(Nodes)
  BY PoppedStack DEF WalkInv, WalkTypeOK, VisitEmbedded
<1>2. \E pushed \in SUBSET Nodes :
         pushed = {} /\ pushed = IF Top.import THEN Followed(Top.file) ELSE {}
  BY DEF VisitEmbedded
<1> QED BY <1>1, <1>2, VisitStep DEF VisitEmbedded

LEMMA ImportedStep == WalkInv /\ VisitImported => WalkInv'
<1> SUFFICES ASSUME WalkInv, VisitImported PROVE WalkInv'
  OBVIOUS
<1>1. Top \in Nodes /\ Rest \in Seq(Nodes)
  BY PoppedStack DEF WalkInv, WalkTypeOK, VisitImported
<1>2. Followed(Top.file) \in SUBSET Nodes
  BY <1>1, FollowedNodes DEF WalkInv, WalkTypeOK, Nodes
<1>3. IsFiniteSet(Followed(Top.file))
  BY <1>2, NodesFinite, FS_Subset
<1>4. PICK order \in Readings(Followed(Top.file)) : pending' = Rest \o order
  BY DEF VisitImported
<1>5. order \in Seq(Nodes) /\ Range(order) = Followed(Top.file)
  BY <1>2, <1>3, ReadingHolds
<1>6. pending' \in Seq(Nodes) /\ Range(pending') = Range(Rest) \cup Followed(Top.file)
  BY <1>1, <1>4, <1>5, PushedStack
<1> QED BY <1>2, <1>6, VisitStep DEF VisitImported

LEMMA WalkStops == WalkInv /\ (WalkFails \/ WalkEnds) => WalkInv'
<1> SUFFICES ASSUME WalkInv, WalkFails \/ WalkEnds PROVE WalkInv'
  OBVIOUS
<1> USE DEF WalkInv, WalkTypeOK
<1>1. CASE WalkFails
  <2>1. Range(pending') = {} /\ pending' \in Seq(Nodes)
    BY <1>1 DEF WalkFails, Range
  <2> QED BY <1>1, <2>1 DEF WalkFails, Discovered
<1>2. CASE WalkEnds
  BY <1>2 DEF WalkEnds, Discovered, Closed, Followed
<1> QED BY <1>1, <1>2

LEMMA WalkInvHolds == WalkSpec => []WalkInv
<1>1. WalkInv /\ [WalkNext]_walkVars => WalkInv'
  <2>1. WalkInv /\ UNCHANGED walkVars => WalkInv'
    BY DEF walkVars, WalkInv, WalkTypeOK, Discovered, Closed, Followed
  <2> QED BY <2>1, SkipStep, EmbeddedStep, ImportedStep, WalkStops DEF WalkNext
<1> QED BY <1>1, WalkInitInv, PTL DEF WalkSpec

\* The variables of the walk keep their types.
THEOREM WalkTypesTheorem == WalkSpec => []WalkTypeOK
<1>1. WalkInv => WalkTypeOK
  BY DEF WalkInv
<1> QED BY <1>1, WalkInvHolds, PTL

\* For any files, however they import and embed each other, the key covers
\* exactly what is reachable from the source; imports by the bare name of a
\* file that is not Zig do not count.
THEOREM ReachableTheorem == WalkSpec => []KeyCoversReachable
<1>1. WalkInv => KeyCoversReachable
  <2> SUFFICES ASSUME WalkInv PROVE KeyCoversReachable
    OBVIOUS
  <2>1. outcome = "exact" => Discovered = visited
    BY DEF WalkInv, Discovered, Range
  <2>2. visited \subseteq Discovered
    BY DEF Discovered
  <2>3. visited \in SUBSET Nodes
    BY DEF WalkInv, WalkTypeOK
  <2>4. outcome = "exact" => Closed(visited)
    BY <2>1, <2>3, ClosedFollowed DEF WalkInv
  <2> QED BY <2>2, <2>4 DEF WalkInv, KeyCoversReachable
<1> QED BY <1>1, WalkInvHolds, PTL

-----------------------------------------------------------------------------
(* The four parts of the files                                             *)

\* A behaviour that cache_safety checks is one of the cache, one of the scanner,
\* one of the walk and one of the savers: every theorem about them holds of it.
THEOREM PartsTheorem == FilesSpec => Spec /\ ScannerSpec /\ WalkSpec /\ SaveSpec
<1>1. FilesInit => Init /\ ScannerInit /\ WalkInit /\ SaveInit
  BY DEF FilesInit
<1>2. [FilesNext]_<<part, vars, scannerVars, walkVars, saveVars>> =>
         /\ [Next]_vars /\ [ScannerNext]_scannerVars
         /\ [WalkNext]_walkVars /\ [SaveNext]_saveVars
  BY DEF FilesNext
<1> QED BY <1>1, <1>2, PTL DEF FilesSpec, Spec, ScannerSpec, WalkSpec, SaveSpec

\* The variables of all parts keep their types.
THEOREM AllTypesTheorem == FilesSpec => []TypesOK
BY PartsTheorem, TypeCorrect, ScannerTypesTheorem, WalkTypesTheorem, SaveTypesTheorem,
   PTL DEF TypesOK
=============================================================================
