--------------------------- MODULE GzBuildManager ---------------------------
(***************************************************************************)
(* The compile queue of src/gz_build_manager.cpp as the Godot main thread  *)
(* drives it: queue_compile, queue_saved, queue_all, pump, start_next,     *)
(* complete_active, the synchronous compile() behind GzScript::_reload,    *)
(* and shutdown.  Outside the main thread run the Zig compiler, other      *)
(* editor processes that share the module cache, and whoever edits files.  *)
(*                                                                         *)
(* A file's text is a member of Contents; everything else that enters the  *)
(* cache key (imported files, the SDK, the settings) is one value of       *)
(* Inputs.  sha256 is injective here: the key is the record it hashes.     *)
(***************************************************************************)
EXTENDS Integers, Sequences, FiniteSets, Functions

CONSTANTS
    Scripts,        \* loaded GzScript resources, one path each
    Contents,       \* texts a script file can have
    Inputs,         \* values of the other inputs of the cache key
    FirstContent,   \* text and inputs the project starts with
    FirstInputs,
    None,           \* null pointer: no module, no job, no prepared plan
    Moved,          \* a CompilePlan whose strings have been moved out
    Failures,       \* which of FailureKinds the environment may cause
    MayRevert,      \* whether files may return to what they were before
    Others,         \* which of OtherKinds other programs do
    MaxEvents       \* bound on edits, requests, faults and peer locks

FailureKinds ==
    {"prepare", "spawn", "compile", "timeout", "load", "remove", "lock", "stamp"}

OtherKinds == {"edit", "inputs", "lock"}

Keys == [script : Scripts, source : Contents, inputs : Inputs]

Attempts == 3       \* compile(): attempts before it gives up

Plans    == Keys \cup {None, Moved}
Requests == [script : Scripts, source : Contents, generation : Nat, prepared : Plans]
Jobs     == [request : Requests, plan : Keys, timedOut : BOOLEAN]
Syncs    == [script : Scripts, attempt : 0..Attempts, plan : Keys \cup {None}]

ASSUME ConstantsAssumption ==
    /\ IsFiniteSet(Scripts)
    /\ FirstContent \in Contents
    /\ FirstInputs \in Inputs
    /\ None \notin Keys /\ Moved \notin Keys /\ None # Moved
    /\ None \notin Jobs /\ None \notin Syncs
    /\ Failures \subseteq FailureKinds
    /\ Others \subseteq OtherKinds
    /\ MayRevert \in BOOLEAN
    /\ MaxEvents \in Nat

VARIABLES
    disk,           \* [Scripts -> Contents]: the file
    past,           \* [Scripts -> SUBSET Contents]: texts the file has had
    inputs,         \* the other inputs of the key
    pastInputs,     \* values they have had
    calm,           \* whether nothing fails, no other process compiles, and no
                    \* text or input returns; it never changes
    source,         \* GzScript::source
    generation,     \* GzScript::compile_generation
    module,         \* GzScript::module, by the key in its path
    valid,          \* GzScript::valid
    pending,        \* deque of CompileRequest
    active,         \* ActiveCompile
    process,        \* the compiler child: "none", "running", "ok", "failed"
    stamped,        \* keys whose module file and stamp agree
    peerLocks,      \* cache locks held by other processes
    ownLock,        \* lock of the job complete_active is finishing
    pc,             \* where the main thread is
    sync,           \* the _reload() in progress
    reloads,        \* scripts compile_all() has still to reload
    shutdown,       \* shutdown_started
    asked,          \* history: source each script was last asked to compile
    newest,         \* history: source of each script's newest generation
    events          \* environment events so far

files    == <<disk, past, inputs, pastInputs, calm>>
script   == <<source, generation, module, valid>>
queue    == <<pending, active, process>>
cache    == <<stamped, peerLocks>>
control  == <<ownLock, pc, sync, reloads, shutdown>>
history  == <<asked, newest>>
vars     == <<files, script, queue, cache, control, history, events>>

-----------------------------------------------------------------------------
(* Helpers                                                                 *)

Key(s, text) == [script |-> s, source |-> text, inputs |-> inputs]

\* prepare() refuses a source that is not what the file holds
Saved(s, text) == text = disk[s]

Tick == events < MaxEvents /\ events' = events + 1
May(kind) == kind \in Failures /\ ~calm
Fault(kind) == May(kind) /\ Tick

\* is_compiling()
Compiling == active # None \/ pending # <<>>

\* mutant: requests are still accepted after shutdown()
IdleAfterShutdown == pc = "idle" /\ sync = None /\ reloads = {}

\* the main thread is between two callbacks, and no compile() blocks it
Idle == pc = "idle" /\ sync = None /\ reloads = {} /\ ~shutdown

Queued(s) == \E i \in DOMAIN pending : pending[i].script = s

\* request.script->valid = request.script->module != nullptr
KeepPrevious(s) == valid' = [valid EXCEPT ![s] = module[s] # None]

\* publish_module(): the module is the script's own at once
Publish(s, key) ==
    /\ module' = [module EXCEPT ![s] = key]
    /\ valid' = [valid EXCEPT ![s] = TRUE]

-----------------------------------------------------------------------------
(* Requests: queue_compile() and its callers                               *)

Request(s, text, g) ==
    [script |-> s, source |-> text, generation |-> g, prepared |-> None]

\* queue_compile() returns early for a source being compiled or queued
Wanted(s, text) ==
    \/ /\ active # None
       /\ active.request.script = s /\ active.request.source = text
    \/ \E i \in DOMAIN pending :
          pending[i].script = s /\ pending[i].source = text

Orders(S) == Bijection(1..Cardinality(S), S)

\* mutant: a newer request does not replace the queued one
QueueAppends(S, text) ==
    LET wants == {s \in S : ~Wanted(s, text[s])}
    IN  /\ generation' = [s \in Scripts |->
                             IF s \in wants THEN generation[s] + 1 ELSE generation[s]]
        /\ \E order \in Orders(wants) :
              pending' = pending \o [i \in DOMAIN order |->
                            Request(order[i], text[order[i]], generation[order[i]] + 1)]
        /\ asked' = [s \in Scripts |-> IF s \in S THEN text[s] ELSE asked[s]]
        /\ newest' = [s \in Scripts |-> IF s \in wants THEN text[s] ELSE newest[s]]

\* queue_compile() for each script of S, whose source is text[s]: a queued
\* request of the same script is replaced where it stands, a new one goes last
Queue(S, text) ==
    LET wants == {s \in S : ~Wanted(s, text[s])}
        Newest(s) == Request(s, text[s], generation[s] + 1)
        kept == [i \in DOMAIN pending |->
                    IF pending[i].script \in wants THEN Newest(pending[i].script)
                                                   ELSE pending[i]]
    IN  /\ generation' = [s \in Scripts |->
                             IF s \in wants THEN generation[s] + 1 ELSE generation[s]]
        /\ \E order \in Orders({s \in wants : ~Queued(s)}) :
              pending' = kept \o [i \in DOMAIN order |-> Newest(order[i])]
        /\ asked' = [s \in Scripts |-> IF s \in S THEN text[s] ELSE asked[s]]
        /\ newest' = [s \in Scripts |-> IF s \in wants THEN text[s] ELSE newest[s]]

\* the editor has loaded the scripts: GzResourceLoader::_load queued each
Init ==
    /\ disk = [s \in Scripts |-> FirstContent]
    /\ past = [s \in Scripts |-> {FirstContent}]
    /\ inputs = FirstInputs
    /\ pastInputs = {FirstInputs}
    /\ calm \in BOOLEAN
    /\ source = [s \in Scripts |-> FirstContent]
    /\ generation = [s \in Scripts |-> 1]
    /\ module = [s \in Scripts |-> None]
    /\ valid = [s \in Scripts |-> FALSE]
    /\ \E order \in Orders(Scripts) :
          pending = [i \in DOMAIN order |-> Request(order[i], FirstContent, 1)]
    /\ active = None
    /\ process = "none"
    /\ stamped = {}
    /\ peerLocks = {}
    /\ ownLock = None
    /\ pc = "idle"
    /\ sync = None
    /\ reloads = {}
    /\ shutdown = FALSE
    /\ asked = [s \in Scripts |-> FirstContent]
    /\ newest = [s \in Scripts |-> FirstContent]
    /\ events = 0

Reverts == MayRevert /\ ~calm

MayWrite(s, text) == text \notin past[s] \/ text = disk[s] \/ Reverts

Write(s, text) ==
    /\ disk' = [disk EXCEPT ![s] = text]
    /\ past' = [past EXCEPT ![s] = @ \cup {text}]

\* _set_source_code(): the editor's buffer changes, the file does not
Edit(s, text) ==
    /\ Idle
    /\ source' = [source EXCEPT ![s] = text]
    /\ UNCHANGED <<files, generation, module, valid, queue, cache, control, history, events>>

\* GzResourceSaver::_save() of the script to its own path, then queue_saved()
Save(s) ==
    /\ Idle
    /\ MayWrite(s, source[s])
    /\ Write(s, source[s])
    /\ Queue({s}, source)
    /\ Tick
    /\ UNCHANGED <<inputs, pastInputs, calm, source, module, valid, active, process, cache, control>>

\* queue_all(): every script takes its file's text as its source
QueueAll ==
    /\ Idle
    /\ source' = disk
    /\ Queue(Scripts, disk)
    /\ Tick
    /\ UNCHANGED <<files, module, valid, active, process, cache, control>>

-----------------------------------------------------------------------------
(* start_next(): one action per way an iteration of its loop can end.      *)
(* pc tells the caller: pump() goes on to poll the job, complete_active()  *)
(* returns and with it drops the finished job's lock.                      *)

First == Head(pending)

\* the plan an iteration works with, and the request after it has taken it
PlanOf(r) == IF r.prepared = None THEN Key(r.script, r.source) ELSE r.prepared
Taken(r)  == IF r.prepared = None THEN r ELSE [r EXCEPT !.prepared = Moved]

InStart == pc \in {"pump", "complete"} /\ ~shutdown

Iterating == InStart /\ active = None /\ pending # <<>>

LockedOut(key) == key \in peerLocks \/ key = ownLock

Current(r) == r.generation = generation[r.script]

\* the iteration got the lock with a plan that still describes the inputs
Ready(r) ==
    /\ Current(r)
    /\ Saved(r.script, r.source)
    /\ PlanOf(r) = Key(r.script, r.source)
    /\ ~LockedOut(PlanOf(r))

StartReturn ==
    /\ pc' = IF pc = "pump" THEN "poll" ELSE "idle"
    /\ ownLock' = None

PushFront(r) == pending' = <<r>> \o Tail(pending)
Drop == pending' = Tail(pending)

unchangedByStart == <<files, source, generation, sync, reloads, shutdown, history>>

\* the loop ends: a job runs, or nothing is queued
StartDone ==
    /\ InStart
    /\ active # None \/ pending = <<>>
    /\ StartReturn
    /\ UNCHANGED <<unchangedByStart, module, valid, queue, cache, events>>

\* an outdated request, one whose source is not saved, or one whose plan has
\* no lock path any more: the request is gone and the script keeps what it had
StartDiscard ==
    /\ Iterating
    /\ LET r == First IN
          \/ /\ ~Current(r)
             /\ UNCHANGED <<valid, events>>
          \/ /\ Current(r) /\ r.prepared = None
             /\ \/ ~Saved(r.script, r.source) /\ UNCHANGED events
                \/ Fault("prepare")
             /\ KeepPrevious(r.script)
          \/ /\ Current(r) /\ r.prepared = Moved
             /\ KeepPrevious(r.script)
             /\ UNCHANGED events
          \/ /\ Current(r) /\ r.prepared \in Keys /\ ~LockedOut(r.prepared)
             /\ \/ ~Saved(r.script, r.source) /\ UNCHANGED events
                \/ Fault("prepare")
             /\ KeepPrevious(r.script)
          \/ /\ Ready(r) /\ PlanOf(r) \notin stamped
             /\ Fault("spawn")
             /\ KeepPrevious(r.script)
    /\ Drop
    /\ UNCHANGED <<unchangedByStart, module, active, process, cache, ownLock, pc>>

\* try_lock() is BUSY: the request goes back in front with its plan
StartBusy ==
    /\ Iterating
    /\ LET r == First IN
          /\ Current(r)
          /\ r.prepared = None => Saved(r.script, r.source)
          /\ LockedOut(PlanOf(r))
          /\ PushFront([r EXCEPT !.prepared = PlanOf(r)])
    /\ StartReturn
    /\ UNCHANGED <<unchangedByStart, module, valid, active, process, cache, events>>

\* the lock of an old plan, but the inputs have changed: plan again next time
StartReplan ==
    /\ Iterating
    /\ LET r == First IN
          /\ Current(r)
          /\ r.prepared \in Keys /\ ~LockedOut(r.prepared)
          /\ Saved(r.script, r.source)
          /\ Key(r.script, r.source) # r.prepared
          /\ PushFront([r EXCEPT !.prepared = Key(r.script, r.source)])
    /\ StartReturn
    /\ UNCHANGED <<unchangedByStart, module, valid, active, process, cache, events>>

\* the cache has the module: nothing to do when the script runs it already,
\* otherwise finish() loads it and it is published
StartCached ==
    /\ Iterating
    /\ LET r == First IN
          /\ Ready(r) /\ PlanOf(r) \in stamped
          /\ Publish(r.script, PlanOf(r))
    /\ Drop
    /\ UNCHANGED <<unchangedByStart, active, process, cache, ownLock, pc, events>>

\* the cached module does not load: finish() removes it and the request is
\* tried again; if it cannot be removed the request is dropped
StartCachedFails ==
    /\ Iterating
    /\ LET r == First IN
          /\ Ready(r) /\ PlanOf(r) \in stamped /\ module[r.script] # PlanOf(r)
          /\ Fault("load")
          /\ \/ /\ stamped' = stamped \ {PlanOf(r)}
                /\ PushFront(Taken(r))
                /\ UNCHANGED valid
             \/ /\ May("remove")
                /\ Drop
                /\ KeepPrevious(r.script)
                /\ UNCHANGED stamped
    /\ UNCHANGED <<unchangedByStart, module, active, process, peerLocks, ownLock, pc>>

\* the compiler starts; the job holds the lock of its plan
StartSpawn ==
    /\ Iterating
    /\ LET r == First IN
          /\ Ready(r) /\ PlanOf(r) \notin stamped
          /\ active' = [request |-> Taken(r), plan |-> PlanOf(r), timedOut |-> FALSE]
    /\ process' = "running"
    /\ Drop
    /\ UNCHANGED <<unchangedByStart, module, valid, cache, ownLock, pc, events>>

-----------------------------------------------------------------------------
(* pump() and complete_active()                                            *)

\* a frame, or a round of wait_for_all() inside compile()
Pump ==
    /\ pc = "idle" /\ ~shutdown
    /\ Compiling
    /\ pc' = "pump"
    /\ UNCHANGED <<files, script, queue, cache, ownLock, sync, reloads, shutdown, history, events>>

unchangedByPoll == <<files, source, generation, peerLocks, sync, reloads, shutdown, history>>

\* no job, or a compiler still within its time
PollReturn ==
    /\ pc = "poll"
    /\ active = None \/ (process = "running" /\ ~active.timedOut)
    /\ pc' = "idle"
    /\ UNCHANGED <<unchangedByPoll, module, valid, queue, stamped, ownLock, events>>

\* mutant: the timeout is reported, but the compiler is not killed
PollTimeoutForgets ==
    /\ pc = "poll"
    /\ active # None /\ process = "running"
    /\ May("timeout")
    /\ pc' = "idle"
    /\ UNCHANGED <<unchangedByPoll, module, valid, queue, stamped, ownLock, events>>

\* COMPILER_TIMEOUT_MSEC has passed: kill the process tree, now and at every
\* later poll that still finds it running
PollTimeout ==
    /\ pc = "poll"
    /\ active # None /\ process = "running"
    /\ May("timeout")
    /\ active' = [active EXCEPT !.timedOut = TRUE]
    /\ pc' = "idle"
    /\ UNCHANGED <<unchangedByPoll, module, valid, pending, process, stamped, ownLock, events>>

\* complete_active() takes the job over, keeps its lock and ends in start_next()
Completing ==
    /\ pc = "poll"
    /\ active # None /\ process \in {"ok", "failed"}
    /\ active' = None
    /\ process' = "none"
    /\ ownLock' = active.plan
    /\ pc' = "complete"
    /\ UNCHANGED unchangedByPoll

Succeeded == process = "ok" /\ ~active.timedOut

\* mutant: results of older generations count
SupersededIgnored(r) == FALSE

\* a newer request exists, so this result is not wanted
Superseded(r) == ~Current(r) \/ (Succeeded /\ Queued(r.script))

CompleteDiscard ==
    /\ Completing
    /\ Superseded(active.request)
    /\ UNCHANGED <<module, valid, pending, stamped, events>>

\* prepare() is run again: the file no longer holds the compiled source
CompleteUnsaved ==
    /\ Completing
    /\ Succeeded /\ ~Superseded(active.request)
    /\ \/ ~Saved(active.request.script, active.request.source) /\ UNCHANGED events
       \/ Fault("prepare")
    /\ KeepPrevious(active.request.script)
    /\ UNCHANGED <<module, pending, stamped>>

\* mutant: the outdated result is thrown away and the request with it
CompleteReplanDrops ==
    /\ Completing
    /\ LET r == active.request IN
          /\ Succeeded /\ ~Superseded(r) /\ Saved(r.script, r.source)
          /\ Key(r.script, r.source) # active.plan
    /\ UNCHANGED <<pending, module, valid, stamped, events>>

\* the inputs changed under the compiler: the request goes back in front
CompleteReplan ==
    /\ Completing
    /\ LET r == active.request IN
          /\ Succeeded /\ ~Superseded(r) /\ Saved(r.script, r.source)
          /\ Key(r.script, r.source) # active.plan
          /\ pending' = <<r>> \o pending
    /\ UNCHANGED <<module, valid, stamped, events>>

\* finish() after a compiler error or timeout, or of a module that fails to load
CompleteFailed ==
    /\ Completing
    /\ LET r == active.request IN
          /\ ~Superseded(r)
          /\ \/ ~Succeeded /\ UNCHANGED <<stamped, events>>
             \/ /\ Succeeded /\ Saved(r.script, r.source)
                /\ Key(r.script, r.source) = active.plan
                /\ Fault("load")
                /\ stamped' = stamped \ {active.plan}
          /\ KeepPrevious(r.script)
    /\ UNCHANGED <<module, pending>>

\* finish(): a new module file gets its stamp, unless the stamp cannot be
\* written; the module is published all the same
WriteStamp(plan) ==
    \/ stamped' = stamped \cup {plan} /\ UNCHANGED events
    \/ Fault("stamp") /\ UNCHANGED stamped

\* finish() publishes the file, loads it and writes the stamp
CompletePublish ==
    /\ Completing
    /\ LET r == active.request IN
          /\ Succeeded /\ ~Superseded(r) /\ Saved(r.script, r.source)
          /\ Key(r.script, r.source) = active.plan
          /\ Publish(r.script, active.plan)
    /\ WriteStamp(active.plan)
    /\ UNCHANGED pending

-----------------------------------------------------------------------------
(* _reload() and compile_all(): compile() blocks the main thread           *)

NewSync(s) == [script |-> s, attempt |-> 0, plan |-> None]

Reload(s) ==
    /\ Idle
    /\ sync' = NewSync(s)
    /\ Tick
    /\ UNCHANGED <<files, script, queue, cache, ownLock, pc, reloads, shutdown, history>>

CompileAll ==
    /\ Idle
    /\ reloads' = Scripts
    /\ Tick
    /\ UNCHANGED <<files, script, queue, cache, ownLock, pc, sync, shutdown, history>>

\* compile_all(): once the queue is empty, each script is reloaded from its file
ReloadNext(s) ==
    /\ pc = "idle" /\ sync = None /\ ~Compiling
    /\ s \in reloads
    /\ reloads' = reloads \ {s}
    /\ source' = [source EXCEPT ![s] = disk[s]]
    /\ sync' = NewSync(s)
    /\ UNCHANGED <<files, generation, module, valid, queue, cache, ownLock, pc, shutdown, history, events>>

unchangedBySync == <<files, source, generation, pending, active, peerLocks, ownLock, reloads, shutdown>>

\* an attempt starts: wait_for_all() has emptied the queue, prepare() succeeds
Attempt ==
    /\ pc = "idle" /\ sync # None /\ ~Compiling
    /\ sync.attempt < Attempts
    /\ Saved(sync.script, source[sync.script])
    /\ sync' = [sync EXCEPT !.plan = Key(sync.script, source[sync.script])]
    /\ asked' = [asked EXCEPT ![sync.script] = source[sync.script]]
    /\ newest' = [newest EXCEPT ![sync.script] = source[sync.script]]
    /\ pc' = "lock"
    /\ UNCHANGED <<unchangedBySync, module, valid, process, stamped, events>>

SyncEnds ==
    /\ sync' = None
    /\ pc' = "idle"
    /\ process' = "none"
    /\ UNCHANGED <<unchangedBySync, history>>

SyncRetries ==
    /\ sync' = [sync EXCEPT !.attempt = @ + 1, !.plan = None]
    /\ pc' = "idle"
    /\ process' = "none"
    /\ UNCHANGED <<unchangedBySync, history>>

\* every way compile() returns no module: no attempt is left, prepare() fails
\* before or after the compiler has run, or finish() cannot use the file, which
\* has no stamp yet if it is new.  The script keeps what it had.
SyncFails ==
    /\ sync # None
    /\ \/ /\ pc = "idle" /\ ~Compiling
          /\ \/ /\ \/ sync.attempt = Attempts
                   \/ ~Saved(sync.script, source[sync.script])
                /\ UNCHANGED events
             \/ Fault("prepare")
       \/ pc = "lock" /\ sync.plan \in peerLocks /\ Fault("lock")
       \/ pc = "lock" /\ sync.plan \notin peerLocks \cup stamped /\ Fault("spawn")
       \/ pc = "lock" /\ sync.plan \in stamped \ peerLocks
             /\ May("remove") /\ Fault("load")
       \/ pc = "run" /\ process = "failed" /\ UNCHANGED events
       \/ /\ pc = "run" /\ process = "ok"
          /\ \/ ~Saved(sync.script, source[sync.script]) /\ UNCHANGED events
             \/ Fault("prepare")
             \/ /\ Saved(sync.script, source[sync.script])
                /\ Key(sync.script, source[sync.script]) = sync.plan
                /\ Fault("load")
    /\ KeepPrevious(sync.script)
    /\ UNCHANGED <<module, stamped>>
    /\ SyncEnds

\* the lock is ours and the cache has the module
SyncCached ==
    /\ pc = "lock" /\ sync.plan \in stamped \ peerLocks
    /\ Publish(sync.script, sync.plan)
    /\ UNCHANGED <<stamped, events>>
    /\ SyncEnds

\* the cached module does not load and is removed: compile it next
SyncCachedFails ==
    /\ pc = "lock" /\ sync.plan \in stamped \ peerLocks
    /\ Fault("load")
    /\ stamped' = stamped \ {sync.plan}
    /\ UNCHANGED <<module, valid>>
    /\ SyncRetries

SyncSpawn ==
    /\ pc = "lock" /\ sync.plan \notin peerLocks \cup stamped
    /\ process' = "running"
    /\ pc' = "run"
    /\ UNCHANGED <<unchangedBySync, module, valid, stamped, sync, history, events>>

\* the inputs changed under the compiler
SyncReplan ==
    /\ pc = "run" /\ process = "ok"
    /\ Saved(sync.script, source[sync.script])
    /\ Key(sync.script, source[sync.script]) # sync.plan
    /\ UNCHANGED <<module, valid, stamped, events>>
    /\ SyncRetries

SyncPublish ==
    /\ pc = "run" /\ process = "ok"
    /\ Saved(sync.script, source[sync.script])
    /\ Key(sync.script, source[sync.script]) = sync.plan
    /\ Publish(sync.script, sync.plan)
    /\ WriteStamp(sync.plan)
    /\ SyncEnds

\* mutant: the killed job stays the active one
ShutdownKeepsJob ==
    /\ Idle
    /\ shutdown' = TRUE
    /\ pending' = <<>>
    /\ process' = "none"
    /\ UNCHANGED <<files, script, active, cache, ownLock, pc, sync, reloads, history, events>>

\* shutdown(): kill and reap the compiler, drop queued and active work
Shutdown ==
    /\ Idle
    /\ shutdown' = TRUE
    /\ pending' = <<>>
    /\ active' = None
    /\ process' = "none"
    /\ UNCHANGED <<files, script, cache, ownLock, pc, sync, reloads, history, events>>

-----------------------------------------------------------------------------
(* The environment                                                         *)

\* the compiler ends by itself, or because it was killed
ProcessExit ==
    /\ process = "running"
    /\ \/ process' = "ok"
       \/ /\ May("compile") \/ (active # None /\ active.timedOut)
          /\ process' = "failed"
    /\ UNCHANGED <<files, script, pending, active, cache, control, history, events>>

\* another program rewrites a script file
ExternalEdit(s, text) ==
    /\ "edit" \in Others /\ text # disk[s] /\ MayWrite(s, text)
    /\ Write(s, text)
    /\ Tick
    /\ UNCHANGED <<inputs, pastInputs, calm, script, queue, cache, control, history>>

\* an imported file, the SDK or a setting changes
ChangeInputs(i) ==
    /\ "inputs" \in Others /\ i # inputs
    /\ i \notin pastInputs \/ Reverts
    /\ inputs' = i
    /\ pastInputs' = pastInputs \cup {i}
    /\ Tick
    /\ UNCHANGED <<disk, past, calm, script, queue, cache, control, history>>

OwnLocks ==
    (IF active # None THEN {active.plan} ELSE {}) \cup {ownLock}
        \cup (IF pc = "run" THEN {sync.plan} ELSE {})

\* another process locks a key; it may publish that key's module before it unlocks
PeerLock(key) ==
    /\ "lock" \in Others /\ ~calm /\ peerLocks = {} /\ key \notin OwnLocks
    /\ peerLocks' = {key}
    /\ Tick
    /\ UNCHANGED <<files, script, queue, stamped, control, history>>

PeerUnlock(key) ==
    /\ key \in peerLocks
    /\ peerLocks' = peerLocks \ {key}
    /\ stamped' \in {stamped, stamped \cup {key}}
    /\ UNCHANGED <<files, script, queue, control, history, events>>

-----------------------------------------------------------------------------

StartNext == StartDone \/ StartDiscard \/ StartBusy \/ StartReplan
                \/ StartCached \/ StartCachedFails \/ StartSpawn
CompleteActive == CompleteDiscard \/ CompleteUnsaved \/ CompleteReplan
                \/ CompleteFailed \/ CompletePublish
Compile == Attempt \/ SyncFails \/ SyncCached \/ SyncCachedFails
                \/ SyncSpawn \/ SyncReplan \/ SyncPublish

MainThread ==
    \/ Pump \/ StartNext \/ PollReturn \/ PollTimeout \/ CompleteActive
    \/ Compile
    \/ \E s \in Scripts : ReloadNext(s)

Editor ==
    \/ \E s \in Scripts, text \in Contents : Edit(s, text)
    \/ \E s \in Scripts : Save(s) \/ Reload(s)
    \/ QueueAll \/ CompileAll \/ Shutdown

Environment ==
    \/ ProcessExit
    \/ \E s \in Scripts, text \in Contents : ExternalEdit(s, text)
    \/ \E i \in Inputs : ChangeInputs(i)
    \/ \E key \in Keys : PeerLock(key) \/ PeerUnlock(key)

Next == MainThread \/ Editor \/ Environment

\* GzLanguage::_frame() pumps every frame and the main thread goes on; the
\* clock reaches the compiler timeout; a killed or a well-behaved compiler
\* ends; other processes give their locks back
Fairness ==
    /\ WF_vars(MainThread)
    /\ SF_vars(PollTimeout)
    /\ WF_vars(ProcessExit /\ (May("timeout") =>
                                  pc = "run" \/ (active # None /\ active.timedOut)))
    /\ WF_vars(\E key \in Keys : PeerUnlock(key))

Spec == Init /\ [][Next]_vars /\ Fairness

-----------------------------------------------------------------------------
(* Properties                                                              *)

\* The variables have their types; the compiler runs exactly for a job or for
\* the attempt compile() is in, and a lock is only kept back while
\* complete_active() is on the stack.
TypeOK ==
    /\ disk \in [Scripts -> Contents]
    /\ past \in [Scripts -> SUBSET Contents]
    /\ inputs \in Inputs /\ pastInputs \subseteq Inputs /\ calm \in BOOLEAN
    /\ source \in [Scripts -> Contents]
    /\ generation \in [Scripts -> Nat]
    /\ module \in [Scripts -> Keys \cup {None}]
    /\ valid \in [Scripts -> BOOLEAN]
    /\ pending \in Seq(Requests)
    /\ active \in Jobs \cup {None}
    /\ process \in {"none", "running", "ok", "failed"}
    /\ stamped \subseteq Keys /\ peerLocks \subseteq Keys
    /\ ownLock \in Keys \cup {None}
    /\ pc \in {"idle", "pump", "complete", "poll", "lock", "run"}
    /\ sync \in Syncs \cup {None}
    /\ reloads \subseteq Scripts
    /\ shutdown \in BOOLEAN
    /\ asked \in [Scripts -> Contents] /\ newest \in [Scripts -> Contents]
    /\ events \in Nat
    /\ (process # "none") <=> (active # None \/ pc = "run")
    /\ pc \in {"lock", "run"} => sync # None /\ sync.plan \in Keys
    /\ ownLock # None => pc = "complete"

\* Of the requests of a script only the newest waits, and a job of the same
\* script is older than it (queue_compile, start_next and complete_active all
\* put requests into the deque).
QueueInv ==
    /\ \A i, j \in DOMAIN pending : pending[i].script = pending[j].script => i = j
    /\ \A i \in DOMAIN pending : pending[i].generation = generation[pending[i].script]
    /\ active # None =>
          LET r == active.request IN
          /\ r.generation \in 1..generation[r.script]
          /\ Queued(r.script) => r.generation < generation[r.script]

\* A script's module is only ever replaced by one compiled from the source of
\* its newest request: "the active first build must not publish after this
\* newer save" (complete_active's generation check).
NoStalePublish ==
    [][\A s \in Scripts :
          module'[s] # module[s] => module'[s].source = newest[s]]_vars

\* Once shutdown() has run nothing is published, started or queued any more:
\* no completion can publish into a dead language.
NothingAfterShutdown ==
    [][shutdown => UNCHANGED <<module, queue>>]_vars

\* While the compile queue is idle, a script whose newest request is for the
\* text on disk runs a module of that text.
NewestRequestCompiles ==
    Idle /\ ~Compiling =>
        \A s \in Scripts :
            asked[s] = disk[s] => module[s] # None /\ module[s].source = disk[s]

\* "It automatically compiles `.zig` files [...] on save": in calm weather an
\* idle queue means that every script runs a module of its newest request.
NewestWhenCalm == calm => NewestRequestCompiles

\* The queue always empties and compile() always returns: no cycle of busy
\* locks, changed inputs and retried loads keeps the main thread at work.
QueueDrains == []<>(~Compiling /\ pc = "idle" /\ sync = None)

=============================================================================
