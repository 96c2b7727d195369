---------------------------- MODULE GzModuleCache ----------------------------
(***************************************************************************)
(* The on-disk module cache of src/gz_build_manager.cpp as several editor  *)
(* processes share it: prepare(), the lock file of a key, the compiler,    *)
(* the second prepare() after it, and finish() step by step.  A process    *)
(* may die between any two steps, which gives its lock back; a power       *)
(* failure kills all of them and may leave files without their contents,   *)
(* because none of them is synced.                                         *)
(*                                                                         *)
(* The project's inputs are one value; a cache key (sha256 of the inputs)  *)
(* is that value.  A module file holds the inputs it was compiled from; a  *)
(* stamp file holds the sha256 of a module file, that is, its contents.    *)
(***************************************************************************)
EXTENDS Integers, FiniteSets

CONSTANTS
    Procs,          \* editor processes
    Inputs,         \* values the project's inputs can take
    FirstInputs,
    Absent,         \* no file, no lock owner, no module
    Garbage,        \* a file that lost its contents
    MayRevert,      \* whether the inputs may return to an earlier value
    MaxCrashes      \* bound on crashes and power failures

ASSUME ConstantsAssumption ==
    /\ FirstInputs \in Inputs
    /\ Absent \notin Inputs /\ Garbage \notin Inputs /\ Absent # Garbage
    /\ Absent \notin Procs
    /\ MayRevert \in BOOLEAN
    /\ MaxCrashes \in Nat

VARIABLES
    inputs,         \* what the project's files hold now
    past,           \* every value they have had
    output,         \* [Inputs -> module file]
    stamp,          \* [Inputs -> stamp file]
    lock,           \* [Inputs -> owner of the lock file]
    pc,             \* [Procs -> step]
    plan,           \* [Procs -> key]: CompilePlan
    built,          \* [Procs -> compile_output]: the compiler's private result
    loaded,         \* [Procs -> module in memory, as key and contents]
    crashes

project == <<inputs, past>>
files   == <<output, stamp>>
vars    == <<project, files, lock, pc, plan, built, loaded, crashes>>

Steps == {"idle", "lock", "check", "compile", "verify", "publish", "load", "stamp"}
Locked == {"check", "compile", "verify", "publish", "load", "stamp"}

NoModule == [key |-> Absent, contents |-> Absent]

Init ==
    /\ inputs = FirstInputs
    /\ past = {FirstInputs}
    /\ output = [k \in Inputs |-> Absent]
    /\ stamp = [k \in Inputs |-> Absent]
    /\ lock = [k \in Inputs |-> Absent]
    /\ pc = [p \in Procs |-> "idle"]
    /\ plan = [p \in Procs |-> FirstInputs]
    /\ built = [p \in Procs |-> Absent]
    /\ loaded = [p \in Procs |-> NoModule]
    /\ crashes = 0

-----------------------------------------------------------------------------

\* cache_stamp_matches()
StampMatches(k) == output[k] # Absent /\ stamp[k] = output[k]

Go(p, step) == pc' = [pc EXCEPT ![p] = step]

Unlock(p) == lock' = [lock EXCEPT ![plan[p]] = Absent]

\* prepare(): fingerprint the inputs; the key names the files and the lock
Prepare(p) ==
    /\ pc[p] = "idle"
    /\ plan' = [plan EXCEPT ![p] = inputs]
    /\ Go(p, "lock")
    /\ UNCHANGED <<project, files, lock, built, loaded, crashes>>

\* GzFileLock::try_lock(), tried again until it succeeds
Lock(p) ==
    /\ pc[p] = "lock"
    /\ lock[plan[p]] = Absent
    /\ lock' = [lock EXCEPT ![plan[p]] = p]
    /\ Go(p, "check")
    /\ UNCHANGED <<project, files, plan, built, loaded, crashes>>

\* GzFileLock::lock() runs into its time limit, and the request fails
LockTimeout(p) ==
    /\ pc[p] = "lock"
    /\ lock[plan[p]] # Absent
    /\ Go(p, "idle")
    /\ UNCHANGED <<project, files, lock, plan, built, loaded, crashes>>

\* needs_compile is decided again under the lock
Check(p) ==
    /\ pc[p] = "check"
    /\ Go(p, IF StampMatches(plan[p]) THEN "load" ELSE "compile")
    /\ UNCHANGED <<project, files, lock, plan, built, loaded, crashes>>

\* the compiler reads the project's files at some moment of its run
Compile(p) ==
    /\ pc[p] = "compile"
    /\ built' = [built EXCEPT ![p] = inputs]
    /\ Go(p, "verify")
    /\ UNCHANGED <<project, files, lock, plan, loaded, crashes>>

\* mutant: the lock is kept after a compiler error
CompileFailsLocked(p) ==
    /\ pc[p] \in {"compile", "verify", "publish"}
    /\ built' = [built EXCEPT ![p] = Absent]
    /\ Go(p, "idle")
    /\ UNCHANGED <<project, files, lock, plan, loaded, crashes>>

\* the compiler, the second prepare() or the rename of the result fails: the
\* private files go, the cache is as it was
CompileFails(p) ==
    /\ pc[p] \in {"compile", "verify", "publish"}
    /\ built' = [built EXCEPT ![p] = Absent]
    /\ Unlock(p)
    /\ Go(p, "idle")
    /\ UNCHANGED <<project, files, plan, loaded, crashes>>

\* mutant: the key is not computed again after the compiler ran
VerifySkipped(p) ==
    /\ pc[p] = "verify"
    /\ Go(p, "publish")
    /\ UNCHANGED <<project, files, lock, plan, built, loaded, crashes>>

\* mutant: a changed key is noticed and the result published all the same
VerifyFailsPublishes(p) ==
    /\ pc[p] = "verify"
    /\ inputs # plan[p]
    /\ Go(p, "publish")
    /\ UNCHANGED <<project, files, lock, plan, built, loaded, crashes>>

\* prepare() again: the result counts only if the key is still the same
Verify(p) ==
    /\ pc[p] = "verify"
    /\ inputs = plan[p]
    /\ Go(p, "publish")
    /\ UNCHANGED <<project, files, lock, plan, built, loaded, crashes>>

VerifyFails(p) ==
    /\ pc[p] = "verify"
    /\ inputs # plan[p]
    /\ built' = [built EXCEPT ![p] = Absent]
    /\ Unlock(p)
    /\ Go(p, "idle")
    /\ UNCHANGED <<project, files, plan, loaded, crashes>>

\* finish(): rename the result over the module file, unless a peer published
PublishFile(p) ==
    /\ pc[p] = "publish"
    /\ output' = IF StampMatches(plan[p]) THEN output
                                          ELSE [output EXCEPT ![plan[p]] = built[p]]
    /\ built' = [built EXCEPT ![p] = Absent]
    /\ Go(p, "load")
    /\ UNCHANGED <<project, stamp, lock, plan, loaded, crashes>>

\* GzCompiledModule::load() of the module file
Load(p) ==
    /\ pc[p] = "load"
    /\ output[plan[p]] \in Inputs
    /\ loaded' = [loaded EXCEPT ![p] = [key |-> plan[p], contents |-> output[plan[p]]]]
    /\ Go(p, "stamp")
    /\ UNCHANGED <<project, files, lock, plan, built, crashes>>

\* the file does not load (it lost its contents, or a dependency of it is
\* missing): it is removed, if it can be, and the request starts over or fails
LoadFails(p) ==
    /\ pc[p] = "load"
    /\ \E rest \in {Absent, output[plan[p]]} : output' = [output EXCEPT ![plan[p]] = rest]
    /\ Unlock(p)
    /\ Go(p, "idle")
    /\ UNCHANGED <<project, stamp, plan, built, loaded, crashes>>

\* the stamp, with the hash of the file as it is now, replaces the old one
\* by a rename; the lock is dropped with the request
WriteStamp(p) ==
    /\ pc[p] = "stamp"
    /\ stamp' = [stamp EXCEPT ![plan[p]] = output[plan[p]]]
    /\ Unlock(p)
    /\ Go(p, "idle")
    /\ UNCHANGED <<project, output, plan, built, loaded, crashes>>

\* the stamp cannot be written: reported, and the module is used without it
StampFails(p) ==
    /\ pc[p] = "stamp"
    /\ Unlock(p)
    /\ Go(p, "idle")
    /\ UNCHANGED <<project, files, plan, built, loaded, crashes>>

-----------------------------------------------------------------------------
(* The environment                                                         *)

\* somebody saves a script, an imported file or a setting
ChangeInputs(i) ==
    /\ i # inputs
    /\ i \notin past \/ MayRevert
    /\ inputs' = i
    /\ past' = past \cup {i}
    /\ UNCHANGED <<files, lock, pc, plan, built, loaded, crashes>>

\* the process is killed: the operating system drops its lock
Crash(p) ==
    /\ crashes < MaxCrashes /\ pc[p] # "idle"
    /\ crashes' = crashes + 1
    /\ lock' = [k \in Inputs |-> IF lock[k] = p THEN Absent ELSE lock[k]]
    /\ Go(p, "idle")
    /\ built' = [built EXCEPT ![p] = Absent]
    /\ loaded' = [loaded EXCEPT ![p] = NoModule]
    /\ UNCHANGED <<project, files, plan>>

\* files that were written and never synced may come back without contents:
\* such a module file does not load, and such a stamp is as good as none
PowerFailure ==
    /\ crashes < MaxCrashes
    /\ crashes' = crashes + 1
    /\ \E lostOutputs, lostStamps \in SUBSET Inputs :
          /\ output' = [k \in Inputs |-> IF k \in lostOutputs /\ output[k] # Absent
                                         THEN Garbage ELSE output[k]]
          /\ stamp' = [k \in Inputs |-> IF k \in lostStamps THEN Absent ELSE stamp[k]]
    /\ lock' = [k \in Inputs |-> Absent]
    /\ pc' = [p \in Procs |-> "idle"]
    /\ built' = [p \in Procs |-> Absent]
    /\ loaded' = [p \in Procs |-> NoModule]
    /\ UNCHANGED <<project, plan>>

-----------------------------------------------------------------------------

Process(p) ==
    \/ Prepare(p) \/ Lock(p) \/ LockTimeout(p) \/ Check(p)
    \/ Compile(p) \/ CompileFails(p) \/ Verify(p) \/ VerifyFails(p)
    \/ PublishFile(p) \/ Load(p) \/ LoadFails(p)
    \/ WriteStamp(p) \/ StampFails(p)

Next ==
    \/ \E p \in Procs : Process(p) \/ Crash(p)
    \/ \E i \in Inputs : ChangeInputs(i)
    \/ PowerFailure

Spec == Init /\ [][Next]_vars

-----------------------------------------------------------------------------
(* Properties                                                              *)

\* The variables have their types.
TypeOK ==
    /\ inputs \in past /\ past \subseteq Inputs
    /\ output \in [Inputs -> Inputs \cup {Absent, Garbage}]
    /\ stamp \in [Inputs -> Inputs \cup {Absent}]
    /\ lock \in [Inputs -> Procs \cup {Absent}]
    /\ pc \in [Procs -> Steps]
    /\ plan \in [Procs -> past]
    /\ built \in [Procs -> Inputs \cup {Absent}]
    /\ loaded \in [Procs -> [key : Inputs \cup {Absent}, contents : Inputs \cup {Absent}]]
    /\ crashes \in Nat

\* The lock file of a key belongs to exactly the process that is between its
\* try_lock() and the end of its request: no step, error path or crash leaks
\* it, and no two processes work on the files of one key.
LockExclusive ==
    \A k \in Inputs, p \in Procs :
        lock[k] = p <=> (pc[p] \in Locked /\ plan[p] = k)

\* A module file whose stamp matches was compiled from the inputs its key
\* stands for, whatever crashed, timed out or was compiled at the same time.
StampSound == \A k \in Inputs : StampMatches(k) => output[k] = k

\* "content-addressed native modules": what a process runs under a key was
\* compiled from the inputs of that key.
LoadedMatchesKey == \A p \in Procs : loaded[p].contents = loaded[p].key

\* The abstract entry of a key: its module file, if the stamp matches
Entry == [k \in Inputs |-> IF StampMatches(k) THEN output[k] ELSE Absent]

Cache == INSTANCE ContentCache WITH entry <- Entry

\* The cache implements its abstract specification: every step of every
\* process, crash or power failure fills one entry correctly, loses entries, or
\* leaves the abstract cache alone.
ImplementsContentCache == Cache!Spec

=============================================================================
