------------------------ MODULE GzModuleCache_proofs ------------------------
(***************************************************************************)
(* Proofs about GzModuleCache for any number of processes, keys and        *)
(* crashes.  The locking and typing facts hold without conditions; that    *)
(* stamps are sound needs inputs that do not return to an earlier value.   *)
(***************************************************************************)
EXTENDS GzModuleCache, TLAPS

\* What the hash in a new stamp is taken from: a file that has just been
\* loaded still has its contents.
StampInv == \A p \in Procs : pc[p] = "stamp" => output[plan[p]] # Garbage

\* The inductive strengthening of StampSound: a module file holds what its
\* key stands for or nothing of use, and a compiler result that differs from
\* its plan is noticed by the second prepare(), because the inputs of the
\* plan are in the past for good.
SoundInv ==
    /\ \A k \in Inputs : output[k] \in {k, Absent, Garbage}
    /\ \A p \in Procs : pc[p] = "verify" => built[p] = plan[p] \/ inputs # plan[p]
    /\ \A p \in Procs : pc[p] = "publish" => built[p] = plan[p]

\* The types of all variables are preserved by every step of every process,
\* crash and power failure.
THEOREM TypeCorrect == Spec => [](TypeOK /\ StampInv)
<1>1. Init => TypeOK /\ StampInv
  BY ConstantsAssumption DEF Init, TypeOK, StampInv, Steps, NoModule
<1>2. TypeOK /\ StampInv /\ [Next]_vars => (TypeOK /\ StampInv)'
  <2> SUFFICES ASSUME TypeOK, StampInv, [Next]_vars
               PROVE  TypeOK' /\ StampInv'
    OBVIOUS
  <2> USE ConstantsAssumption DEF TypeOK, StampInv, Steps
  <2>1. ASSUME NEW p \in Procs, Prepare(p) PROVE TypeOK' /\ StampInv'
    BY <2>1 DEF Prepare, Go, project, files
  <2>2. ASSUME NEW p \in Procs, Lock(p) PROVE TypeOK' /\ StampInv'
    BY <2>2 DEF Lock, Go, project, files
  <2>3. ASSUME NEW p \in Procs, LockTimeout(p) PROVE TypeOK' /\ StampInv'
    BY <2>3 DEF LockTimeout, Go, project, files
  <2>4. ASSUME NEW p \in Procs, Check(p) PROVE TypeOK' /\ StampInv'
    BY <2>4 DEF Check, Go, project, files
  <2>5. ASSUME NEW p \in Procs, Compile(p) PROVE TypeOK' /\ StampInv'
    BY <2>5 DEF Compile, Go, project, files
  <2>6. ASSUME NEW p \in Procs, CompileFails(p) PROVE TypeOK' /\ StampInv'
    BY <2>6 DEF CompileFails, Go, Unlock, project, files
  <2>7. ASSUME NEW p \in Procs, Verify(p) PROVE TypeOK' /\ StampInv'
    BY <2>7 DEF Verify, Go, project, files
  <2>8. ASSUME NEW p \in Procs, VerifyFails(p) PROVE TypeOK' /\ StampInv'
    BY <2>8 DEF VerifyFails, Go, Unlock, project, files
  <2>9. ASSUME NEW p \in Procs, PublishFile(p) PROVE TypeOK' /\ StampInv'
    <3>1. output' \in [Inputs -> Inputs \cup {Absent, Garbage}]
      BY <2>9 DEF PublishFile
    <3>2. \A k \in Inputs : output[k] # Garbage => output'[k] # Garbage
      BY <2>9 DEF PublishFile
    <3> QED BY <2>9, <3>1, <3>2 DEF PublishFile, Go, project
  <2>10. ASSUME NEW p \in Procs, Load(p) PROVE TypeOK' /\ StampInv'
    BY <2>10 DEF Load, Go, project, files
  <2>11. ASSUME NEW p \in Procs, LoadFails(p) PROVE TypeOK' /\ StampInv'
    BY <2>11 DEF LoadFails, Go, Unlock, project
  <2>12. ASSUME NEW p \in Procs, WriteStamp(p) PROVE TypeOK' /\ StampInv'
    BY <2>12 DEF WriteStamp, Go, Unlock, project
  <2>13. ASSUME NEW p \in Procs, StampFails(p) PROVE TypeOK' /\ StampInv'
    BY <2>13 DEF StampFails, Go, Unlock, project, files
  <2>14. ASSUME NEW p \in Procs, Crash(p) PROVE TypeOK' /\ StampInv'
    BY <2>14 DEF Crash, Go, NoModule, project, files
  <2>15. ASSUME NEW i \in Inputs, ChangeInputs(i) PROVE TypeOK' /\ StampInv'
    BY <2>15 DEF ChangeInputs, files
  <2>16. CASE PowerFailure
    BY <2>16 DEF PowerFailure, NoModule, project
  <2>17. CASE UNCHANGED vars
    BY <2>17 DEF vars, project, files
  <2> QED
    BY <2>1, <2>2, <2>3, <2>4, <2>5, <2>6, <2>7, <2>8, <2>9, <2>10, <2>11, <2>12,
       <2>13, <2>14, <2>15, <2>16, <2>17 DEF Next, Process
<1> QED BY <1>1, <1>2, PTL DEF Spec

\* A lock file belongs to exactly the process that is at work under it, for
\* any number of processes: every path through compile() and finish(), crashes
\* included, gives back the lock it took.
THEOREM LocksExclusive == Spec => []LockExclusive
<1>1. Init => LockExclusive
  BY ConstantsAssumption DEF Init, LockExclusive, Locked
<1>2. TypeOK /\ LockExclusive /\ [Next]_vars => LockExclusive'
  <2> SUFFICES ASSUME TypeOK, LockExclusive, [Next]_vars
               PROVE  LockExclusive'
    OBVIOUS
  <2>0. plan \in [Procs -> Inputs]
    BY DEF TypeOK
  <2> USE <2>0, ConstantsAssumption DEF TypeOK, LockExclusive, Locked
  <2>1. ASSUME NEW p \in Procs, Prepare(p) PROVE LockExclusive'
    BY <2>1 DEF Prepare, Go, project, files
  <2>2. ASSUME NEW p \in Procs, Lock(p) PROVE LockExclusive'
    BY <2>2 DEF Lock, Go, project, files
  <2>3. ASSUME NEW p \in Procs, LockTimeout(p) PROVE LockExclusive'
    BY <2>3 DEF LockTimeout, Go, project, files
  <2>4. ASSUME NEW p \in Procs, Check(p) PROVE LockExclusive'
    BY <2>4 DEF Check, Go, project, files
  <2>5. ASSUME NEW p \in Procs, Compile(p) PROVE LockExclusive'
    BY <2>5 DEF Compile, Go, project, files
  <2>6. ASSUME NEW p \in Procs, CompileFails(p) PROVE LockExclusive'
    BY <2>6 DEF CompileFails, Go, Unlock, project, files
  <2>7. ASSUME NEW p \in Procs, Verify(p) PROVE LockExclusive'
    BY <2>7 DEF Verify, Go, project, files
  <2>8. ASSUME NEW p \in Procs, VerifyFails(p) PROVE LockExclusive'
    BY <2>8 DEF VerifyFails, Go, Unlock, project, files
  <2>9. ASSUME NEW p \in Procs, PublishFile(p) PROVE LockExclusive'
    BY <2>9 DEF PublishFile, Go, project
  <2>10. ASSUME NEW p \in Procs, Load(p) PROVE LockExclusive'
    BY <2>10 DEF Load, Go, project, files
  <2>11. ASSUME NEW p \in Procs, LoadFails(p) PROVE LockExclusive'
    BY <2>11 DEF LoadFails, Go, Unlock, project
  <2>12. ASSUME NEW p \in Procs, WriteStamp(p) PROVE LockExclusive'
    BY <2>12 DEF WriteStamp, Go, Unlock, project
  <2>13. ASSUME NEW p \in Procs, StampFails(p) PROVE LockExclusive'
    BY <2>13 DEF StampFails, Go, Unlock, project, files
  <2>14. ASSUME NEW p \in Procs, Crash(p) PROVE LockExclusive'
    BY <2>14 DEF Crash, Go, project, files
  <2>15. ASSUME NEW i \in Inputs, ChangeInputs(i) PROVE LockExclusive'
    BY <2>15 DEF ChangeInputs, files
  <2>16. CASE PowerFailure
    BY <2>16 DEF PowerFailure, project
  <2>17. CASE UNCHANGED vars
    BY <2>17 DEF vars, project, files
  <2> QED
    BY <2>1, <2>2, <2>3, <2>4, <2>5, <2>6, <2>7, <2>8, <2>9, <2>10, <2>11, <2>12,
       <2>13, <2>14, <2>15, <2>16, <2>17 DEF Next, Process
<1>3. Spec => []TypeOK
  BY TypeCorrect, PTL
<1> QED BY <1>1, <1>2, <1>3, PTL DEF Spec

\* As long as inputs do not return to an earlier value, no module file holds
\* anything but what its key stands for, and no process loads anything else.
LEMMA SoundStep ==
    ASSUME ~MayRevert, TypeOK, SoundInv, LoadedMatchesKey, [Next]_vars
    PROVE  SoundInv' /\ LoadedMatchesKey'
<1>0. plan \in [Procs -> Inputs]
  BY DEF TypeOK
<1> USE <1>0, ConstantsAssumption DEF TypeOK, SoundInv, LoadedMatchesKey, NoModule
<1>1. ASSUME NEW p \in Procs, Prepare(p) PROVE SoundInv' /\ LoadedMatchesKey'
    BY <1>1 DEF Prepare, Go, project, files
<1>2. ASSUME NEW p \in Procs, Lock(p) PROVE SoundInv' /\ LoadedMatchesKey'
    BY <1>2 DEF Lock, Go, project, files
<1>3. ASSUME NEW p \in Procs, LockTimeout(p) PROVE SoundInv' /\ LoadedMatchesKey'
    BY <1>3 DEF LockTimeout, Go, project, files
<1>4. ASSUME NEW p \in Procs, Check(p) PROVE SoundInv' /\ LoadedMatchesKey'
    BY <1>4 DEF Check, Go, project, files
<1>5. ASSUME NEW p \in Procs, Compile(p) PROVE SoundInv' /\ LoadedMatchesKey'
    BY <1>5 DEF Compile, Go, project, files
<1>6. ASSUME NEW p \in Procs, CompileFails(p) PROVE SoundInv' /\ LoadedMatchesKey'
    BY <1>6 DEF CompileFails, Go, Unlock, project, files
<1>7. ASSUME NEW p \in Procs, Verify(p) PROVE SoundInv' /\ LoadedMatchesKey'
    BY <1>7 DEF Verify, Go, project, files
<1>8. ASSUME NEW p \in Procs, VerifyFails(p) PROVE SoundInv' /\ LoadedMatchesKey'
    BY <1>8 DEF VerifyFails, Go, Unlock, project, files
<1>9. ASSUME NEW p \in Procs, PublishFile(p) PROVE SoundInv' /\ LoadedMatchesKey'
    BY <1>9 DEF PublishFile, Go, project
<1>10. ASSUME NEW p \in Procs, Load(p) PROVE SoundInv' /\ LoadedMatchesKey'
    BY <1>10 DEF Load, Go, project, files
<1>11. ASSUME NEW p \in Procs, LoadFails(p) PROVE SoundInv' /\ LoadedMatchesKey'
    BY <1>11 DEF LoadFails, Go, Unlock, project
<1>12. ASSUME NEW p \in Procs, WriteStamp(p) PROVE SoundInv' /\ LoadedMatchesKey'
    BY <1>12 DEF WriteStamp, Go, Unlock, project
<1>13. ASSUME NEW p \in Procs, StampFails(p) PROVE SoundInv' /\ LoadedMatchesKey'
    BY <1>13 DEF StampFails, Go, Unlock, project, files
<1>14. ASSUME NEW p \in Procs, Crash(p) PROVE SoundInv' /\ LoadedMatchesKey'
    BY <1>14 DEF Crash, Go, project, files
<1>15. ASSUME NEW i \in Inputs, ChangeInputs(i) PROVE SoundInv' /\ LoadedMatchesKey'
    BY <1>15 DEF ChangeInputs, files
<1>16. CASE PowerFailure
    BY <1>16 DEF PowerFailure, project
<1>17. CASE UNCHANGED vars
    BY <1>17 DEF vars, project, files
<1> QED
    BY <1>1, <1>2, <1>3, <1>4, <1>5, <1>6, <1>7, <1>8, <1>9, <1>10, <1>11, <1>12,
     <1>13, <1>14, <1>15, <1>16, <1>17 DEF Next, Process

\* While inputs never return to an earlier value, a module file whose stamp
\* matches was compiled from the inputs its key stands for.
THEOREM StampsSound == ASSUME ~MayRevert PROVE Spec => [](StampSound /\ LoadedMatchesKey)
<1>1. Init => SoundInv /\ LoadedMatchesKey
  BY ConstantsAssumption DEF Init, SoundInv, LoadedMatchesKey, NoModule
<1>2. TypeOK /\ SoundInv /\ LoadedMatchesKey /\ [Next]_vars => (SoundInv /\ LoadedMatchesKey)'
  BY SoundStep
<1>3. TypeOK /\ SoundInv => StampSound
  BY ConstantsAssumption DEF TypeOK, SoundInv, StampSound, StampMatches
<1>4. Spec => []TypeOK
  BY TypeCorrect, PTL
<1> QED BY <1>1, <1>2, <1>3, <1>4, PTL DEF Spec

\* A step that changes at most one entry, from absent to its own key or to
\* absent, is a step of the abstract cache.
LEMMA EntryStep ==
    ASSUME NEW k \in Inputs, Entry'[k] \in {k, Absent, Entry[k]}, Entry[k] \in {k, Absent},
           \A j \in Inputs \ {k} : Entry'[j] = Entry[j]
    PROVE  Cache!Next
<1>1. Entry' = [j \in Inputs |-> Entry'[j]] /\ Entry = [j \in Inputs |-> Entry[j]]
  BY DEF Entry
<1>2. CASE Entry[k] = Absent /\ Entry'[k] = k
  <2>1. Entry' = [Entry EXCEPT ![k] = k]
    BY <1>1, <1>2
  <2> QED BY <2>1, <1>2 DEF Cache!Next, Cache!Fill
<1>3. CASE Entry'[k] = Entry[k]
  <2>1. Entry' = [j \in Inputs |-> IF j \in {} THEN Absent ELSE Entry[j]]
    BY <1>1, <1>3
  <2>2. Cache!Lose({})
    BY <2>1 DEF Cache!Lose
  <2> QED BY <2>2 DEF Cache!Next
<1>4. CASE Entry'[k] = Absent
  <2>1. Entry' = [j \in Inputs |-> IF j \in {k} THEN Absent ELSE Entry[j]]
    BY <1>1, <1>4
  <2> QED BY <2>1 DEF Cache!Next, Cache!Lose
<1> QED BY <1>2, <1>3, <1>4

\* Every step of a process, crash or power failure is a step of the abstract
\* cache under the mapping, or leaves it alone.
LEMMA CacheStep ==
    ASSUME TypeOK, TypeOK', SoundInv, SoundInv', [Next]_vars
    PROVE  Cache!Next \/ UNCHANGED Entry
<1> USE ConstantsAssumption
<1>0. plan \in [Procs -> Inputs]
  BY DEF TypeOK
<1>a. \A k \in Inputs : Entry[k] \in {k, Absent} /\ Entry'[k] \in {k, Absent}
  BY DEF Entry, StampMatches, TypeOK, SoundInv
<1>b. UNCHANGED files => UNCHANGED Entry
  BY DEF Entry, StampMatches, files
<1>1. ASSUME NEW p \in Procs, PublishFile(p) PROVE Cache!Next
  <2>1. \A j \in Inputs \ {plan[p]} : output'[j] = output[j] /\ stamp'[j] = stamp[j]
    BY <1>0, <1>1 DEF PublishFile, TypeOK
  <2>2. \A j \in Inputs \ {plan[p]} : Entry'[j] = Entry[j]
    BY <2>1 DEF Entry, StampMatches
  <2> QED BY <1>0, <1>a, <2>2, EntryStep
<1>2. ASSUME NEW p \in Procs, LoadFails(p) PROVE Cache!Next
  <2>1. \A j \in Inputs \ {plan[p]} : output'[j] = output[j] /\ stamp'[j] = stamp[j]
    BY <1>0, <1>2 DEF LoadFails, TypeOK
  <2>2. \A j \in Inputs \ {plan[p]} : Entry'[j] = Entry[j]
    BY <2>1 DEF Entry, StampMatches
  <2> QED BY <1>0, <1>a, <2>2, EntryStep
<1>3. ASSUME NEW p \in Procs, WriteStamp(p) PROVE Cache!Next
  <2>1. \A j \in Inputs \ {plan[p]} : output'[j] = output[j] /\ stamp'[j] = stamp[j]
    BY <1>0, <1>3 DEF WriteStamp, TypeOK
  <2>2. \A j \in Inputs \ {plan[p]} : Entry'[j] = Entry[j]
    BY <2>1 DEF Entry, StampMatches
  <2> QED BY <1>0, <1>a, <2>2, EntryStep
<1>4. CASE PowerFailure
  <2> DEFINE K == {k \in Inputs : Entry'[k] = Absent}
  <2>1. PICK lostOutputs \in SUBSET Inputs, lostStamps \in SUBSET Inputs :
          /\ output' = [k \in Inputs |-> IF k \in lostOutputs /\ output[k] # Absent
                                         THEN Garbage ELSE output[k]]
          /\ stamp' = [k \in Inputs |-> IF k \in lostStamps THEN Absent ELSE stamp[k]]
    BY <1>4 DEF PowerFailure
  <2>2. \A k \in Inputs : StampMatches(k)' => output'[k] = output[k] /\ stamp'[k] = stamp[k]
    BY <2>1 DEF StampMatches, TypeOK
  <2>3. \A k \in Inputs : Entry'[k] = Absent \/ Entry'[k] = Entry[k]
    BY <2>2 DEF Entry, StampMatches
  <2>4. Entry' = [k \in Inputs |-> Entry'[k]]
    BY DEF Entry
  <2>5. Entry' = [k \in Inputs |-> IF k \in K THEN Absent ELSE Entry[k]]
    BY <2>3, <2>4
  <2>6. K \in SUBSET Inputs
    OBVIOUS
  <2> HIDE DEF K
  <2> QED BY <2>5, <2>6 DEF Cache!Next, Cache!Lose
<1>5. CASE UNCHANGED vars
  BY <1>b, <1>5 DEF vars
<1>6. ASSUME NEW p \in Procs, Prepare(p) PROVE UNCHANGED Entry
  BY <1>6, <1>b DEF Prepare
<1>7. ASSUME NEW p \in Procs, Lock(p) PROVE UNCHANGED Entry
  BY <1>7, <1>b DEF Lock
<1>8. ASSUME NEW p \in Procs, LockTimeout(p) PROVE UNCHANGED Entry
  BY <1>8, <1>b DEF LockTimeout
<1>9. ASSUME NEW p \in Procs, Check(p) PROVE UNCHANGED Entry
  BY <1>9, <1>b DEF Check
<1>10. ASSUME NEW p \in Procs, Compile(p) PROVE UNCHANGED Entry
  BY <1>10, <1>b DEF Compile
<1>11. ASSUME NEW p \in Procs, CompileFails(p) PROVE UNCHANGED Entry
  BY <1>11, <1>b DEF CompileFails
<1>12. ASSUME NEW p \in Procs, Verify(p) PROVE UNCHANGED Entry
  BY <1>12, <1>b DEF Verify
<1>13. ASSUME NEW p \in Procs, VerifyFails(p) PROVE UNCHANGED Entry
  BY <1>13, <1>b DEF VerifyFails
<1>14. ASSUME NEW p \in Procs, Load(p) PROVE UNCHANGED Entry
  BY <1>14, <1>b DEF Load
<1>15. ASSUME NEW p \in Procs, StampFails(p) PROVE UNCHANGED Entry
  BY <1>15, <1>b DEF StampFails
<1>16. ASSUME NEW p \in Procs, Crash(p) PROVE UNCHANGED Entry
  BY <1>16, <1>b DEF Crash
<1>17. ASSUME NEW i \in Inputs, ChangeInputs(i) PROVE UNCHANGED Entry
  BY <1>17, <1>b DEF ChangeInputs
<1> QED
  BY <1>1, <1>2, <1>3, <1>4, <1>5, <1>6, <1>7, <1>8, <1>9,
     <1>10, <1>11, <1>12, <1>13, <1>14, <1>15, <1>16, <1>17 DEF Next, Process

\* The files the processes leave behind implement the content-addressed cache
\* of ContentCache, for any number of processes, keys, crashes and power
\* failures, as long as inputs do not return to an earlier value.
THEOREM CacheRefinement == ASSUME ~MayRevert PROVE Spec => ImplementsContentCache
<1>1. Init => Cache!Init
  BY DEF Init, Cache!Init, Entry, StampMatches
<1>2. Init => SoundInv /\ LoadedMatchesKey
  BY ConstantsAssumption DEF Init, SoundInv, LoadedMatchesKey, NoModule
<1>3. TypeOK /\ SoundInv /\ LoadedMatchesKey /\ [Next]_vars => (SoundInv /\ LoadedMatchesKey)'
  BY SoundStep
<1>4. TypeOK /\ TypeOK' /\ SoundInv /\ SoundInv' /\ [Next]_vars
        => [Cache!Next]_Entry
  BY CacheStep
<1>5. Spec => []TypeOK
  BY TypeCorrect, PTL
<1>6. Spec => []SoundInv
  BY <1>2, <1>3, <1>5, PTL DEF Spec
<1>7. Spec => Cache!Init /\ [][Cache!Next]_Entry
  BY <1>1, <1>4, <1>5, <1>6, PTL DEF Spec
<1> QED BY <1>7 DEF ImplementsContentCache, Cache!Spec

=============================================================================
