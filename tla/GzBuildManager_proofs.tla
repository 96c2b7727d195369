----------------------- MODULE GzBuildManager_proofs -----------------------
(***************************************************************************)
(* Proofs about GzBuildManager for any finite set of scripts, any contents *)
(* and inputs, every fault and any number of events.                       *)
(***************************************************************************)
EXTENDS GzBuildManager, FiniteSetTheorems, TLAPS

-----------------------------------------------------------------------------
(* After shutdown()                                                        *)

\* shutdown() runs while the main thread is between two callbacks, so that it
\* leaves no job, no request and no compile() behind to go on.
ShutdownInv ==
    shutdown => /\ pc = "idle" /\ sync = None /\ reloads = {}
                /\ pending = <<>> /\ active = None /\ process = "none"

\* After shutdown() the main thread has nothing left to do.
LEMMA MainThreadStops ==
    ASSUME ShutdownInv, shutdown PROVE ~MainThread
<1> USE DEF ShutdownInv
<1>1. ~Pump
  BY DEF Pump
<1>2. ~StartNext
  BY DEF StartNext, StartDone, StartDiscard, StartBusy, StartReplan, StartCached,
         StartCachedFails, StartSpawn, Iterating, InStart
<1>3. ~PollReturn /\ ~PollTimeout
  BY DEF PollReturn, PollTimeout
<1>4. ~CompleteActive
  BY DEF CompleteActive, CompleteDiscard, CompleteUnsaved, CompleteReplan, CompleteFailed,
         CompletePublish, WriteStamp, Completing
<1>5. ~Compile
  BY DEF Compile, Attempt, SyncFails, SyncCached, SyncCachedFails, SyncSpawn, SyncReplan,
         SyncPublish, WriteStamp
<1>6. ASSUME NEW s \in Scripts PROVE ~ReloadNext(s)
  BY DEF ReloadNext
<1> QED BY <1>1, <1>2, <1>3, <1>4, <1>5, <1>6 DEF MainThread

\* What the environment does changes neither the queue nor a module.
LEMMA EnvironmentAfterShutdown ==
    ASSUME ShutdownInv, shutdown, Environment \/ Editor \/ UNCHANGED vars
    PROVE  UNCHANGED <<module, queue, control>>
<1>1. CASE Editor
  BY <1>1 DEF Editor, Edit, Save, Reload, QueueAll, CompileAll, Shutdown, Idle
<1>2. CASE Environment
  <2>1. ~ProcessExit
    BY DEF ProcessExit, ShutdownInv
  <2>2. ASSUME NEW s \in Scripts, NEW text \in Contents, ExternalEdit(s, text)
        PROVE  UNCHANGED <<script, queue, control>>
    BY <2>2 DEF ExternalEdit
  <2>3. ASSUME NEW i \in Inputs, ChangeInputs(i) PROVE UNCHANGED <<script, queue, control>>
    BY <2>3 DEF ChangeInputs
  <2>4. ASSUME NEW key \in Keys, PeerLock(key) \/ PeerUnlock(key)
        PROVE  UNCHANGED <<script, queue, control>>
    BY <2>4 DEF PeerLock, PeerUnlock
  <2> QED BY <1>2, <2>1, <2>2, <2>3, <2>4 DEF Environment, script
<1>3. CASE UNCHANGED vars
  BY <1>3 DEF vars, script
<1> QED BY <1>1, <1>2, <1>3

\* Only shutdown() sets the flag.
LEMMA ShutdownFlag ==
    ASSUME [Next]_vars, ~shutdown, shutdown' PROVE Shutdown
<1> USE DEF control
<1>1. ~(MainThread \/ Environment \/ UNCHANGED vars)
  <2>1. ~(Pump \/ PollReturn \/ PollTimeout)
    BY DEF Pump, PollReturn, PollTimeout, unchangedByPoll
  <2>2. ~StartNext
    BY DEF StartNext, StartDone, StartDiscard, StartBusy, StartReplan, StartCached,
           StartCachedFails, StartSpawn, unchangedByStart
  <2>3. ~CompleteActive
    BY DEF CompleteActive, CompleteDiscard, CompleteUnsaved, CompleteReplan, CompleteFailed,
           CompletePublish, WriteStamp, Completing, unchangedByPoll
  <2>4. ~Compile
    BY DEF Compile, Attempt, SyncFails, SyncCached, SyncCachedFails, SyncSpawn, SyncReplan,
           SyncPublish, WriteStamp, SyncEnds, SyncRetries, unchangedBySync
  <2>5. ASSUME NEW s \in Scripts PROVE ~ReloadNext(s)
    BY DEF ReloadNext
  <2>6. ~Environment
    BY DEF Environment, ProcessExit, ExternalEdit, ChangeInputs, PeerLock, PeerUnlock
  <2>7. ~UNCHANGED vars
    BY DEF vars
  <2> QED BY <2>1, <2>2, <2>3, <2>4, <2>5, <2>6, <2>7 DEF MainThread
<1>2. Editor
  BY <1>1 DEF Next
<1> QED BY <1>2 DEF Editor, Edit, Save, Reload, QueueAll, CompileAll

LEMMA ShutdownStep == ShutdownInv /\ [Next]_vars => ShutdownInv'
<1> SUFFICES ASSUME ShutdownInv, [Next]_vars, shutdown' PROVE ShutdownInv'
  BY DEF ShutdownInv
<1>1. CASE shutdown
  <2>1. UNCHANGED <<module, queue, control>>
    BY <1>1, MainThreadStops, EnvironmentAfterShutdown DEF Next
  <2> QED BY <2>1 DEF ShutdownInv, queue, control
<1>2. CASE ~shutdown
  BY <1>2, ShutdownFlag DEF Shutdown, Idle, ShutdownInv
<1> QED BY <1>1, <1>2

\* After shutdown() nothing is published, queued, started or completed.
THEOREM ShutdownTheorem == Spec => NothingAfterShutdown
<1>1. Init => ShutdownInv
  BY DEF Init, ShutdownInv
<1>2. ShutdownInv /\ [Next]_vars => [shutdown => UNCHANGED <<module, queue>>]_vars
  BY MainThreadStops, EnvironmentAfterShutdown DEF Next
<1> QED BY <1>1, <1>2, ShutdownStep, PTL DEF Spec, NothingAfterShutdown

-----------------------------------------------------------------------------
(* Types                                                                   *)

FilesType ==
    /\ disk \in [Scripts -> Contents]
    /\ past \in [Scripts -> SUBSET Contents]
    /\ inputs \in Inputs /\ pastInputs \subseteq Inputs /\ calm \in BOOLEAN

ScriptType ==
    /\ source \in [Scripts -> Contents]
    /\ generation \in [Scripts -> Nat]
    /\ module \in [Scripts -> Keys \cup {None}]
    /\ valid \in [Scripts -> BOOLEAN]

QueueType ==
    /\ pending \in Seq(Requests)
    /\ active \in Jobs \cup {None}
    /\ process \in {"none", "running", "ok", "failed"}

CacheType == stamped \subseteq Keys /\ peerLocks \subseteq Keys

ControlType ==
    /\ ownLock \in Keys \cup {None}
    /\ pc \in {"idle", "pump", "complete", "poll", "lock", "run"}
    /\ sync \in Syncs \cup {None}
    /\ reloads \subseteq Scripts
    /\ shutdown \in BOOLEAN

HistoryType ==
    /\ asked \in [Scripts -> Contents] /\ newest \in [Scripts -> Contents]
    /\ events \in Nat

\* While compile() waits for its lock or its compiler the queue is empty and
\* stays empty, so that the one compiler child is its own.
CompilerInv ==
    /\ (process # "none") <=> (active # None \/ pc = "run")
    /\ pc \in {"lock", "run"} =>
           /\ sync # None /\ sync.plan \in Keys /\ sync.attempt < Attempts
           /\ active = None /\ pending = <<>>
    /\ ownLock # None => pc = "complete"

TypeInv == FilesType /\ ScriptType /\ QueueType /\ CacheType /\ ControlType
              /\ HistoryType /\ CompilerInv

\* The parts of the deque.
LEMMA FirstRequest ==
    ASSUME pending \in Seq(Requests), pending # <<>>
    PROVE  /\ First \in Requests /\ Tail(pending) \in Seq(Requests)
           /\ \A r \in Requests : <<r>> \o Tail(pending) \in Seq(Requests)
BY DEF First

\* What a request is compiled into.
LEMMA KeyType ==
    ASSUME FilesType, NEW r \in Requests
    PROVE  /\ Key(r.script, r.source) \in Keys
           /\ PlanOf(r) \in Plans
           /\ Taken(r) \in Requests
           /\ [r EXCEPT !.prepared = PlanOf(r)] \in Requests
           /\ [r EXCEPT !.prepared = Key(r.script, r.source)] \in Requests
<1> USE DEF Requests, Keys, FilesType
<1>1. Key(r.script, r.source) \in Keys
  BY DEF Key
<1>2. PlanOf(r) \in Plans /\ Key(r.script, r.source) \in Plans /\ Moved \in Plans
  BY <1>1 DEF PlanOf, Plans
<1>3. /\ [r EXCEPT !.prepared = PlanOf(r)] \in Requests
      /\ [r EXCEPT !.prepared = Key(r.script, r.source)] \in Requests
      /\ [r EXCEPT !.prepared = Moved] \in Requests
  BY <1>2
<1>4. Taken(r) \in Requests
  BY <1>3 DEF Taken
<1> QED BY <1>1, <1>2, <1>3, <1>4

\* What happens to a script's own fields.
LEMMA ScriptKept ==
    ASSUME ScriptType, NEW s \in Scripts, UNCHANGED <<source, generation>>,
           \/ UNCHANGED <<module, valid>>
           \/ KeepPrevious(s) /\ UNCHANGED module
           \/ \E key \in Keys : Publish(s, key)
    PROVE  ScriptType'
<1>1. CASE UNCHANGED <<module, valid>>
  BY <1>1 DEF ScriptType
<1>2. CASE KeepPrevious(s) /\ UNCHANGED module
  <2>1. (module[s] # None) \in BOOLEAN
    OBVIOUS
  <2> HIDE DEF ScriptType
  <2>2. valid' \in [Scripts -> BOOLEAN]
    BY <1>2, <2>1, Zenon DEF KeepPrevious, ScriptType
  <2> QED BY <1>2, <2>2 DEF ScriptType
<1>3. ASSUME NEW key \in Keys, Publish(s, key) PROVE ScriptType'
  BY <1>3 DEF Publish, ScriptType
<1> QED BY <1>1, <1>2, <1>3

\* An order of some scripts lists each once.
LEMMA OrderOf ==
    ASSUME NEW S \in SUBSET Scripts, NEW order \in Orders(S)
    PROVE  /\ Cardinality(S) \in Nat
           /\ order \in [1..Cardinality(S) -> S]
           /\ \A i, j \in 1..Cardinality(S) : order[i] = order[j] => i = j
           /\ \A s \in S : \E i \in 1..Cardinality(S) : order[i] = s
<1>1. Cardinality(S) \in Nat
  BY ConstantsAssumption, FS_Subset, FS_CardinalityType
<1> QED BY <1>1 DEF Orders, Bijection, Injection, Surjection, IsInjective

\* Queueing adds requests of newer generations.
LEMMA QueueTypes ==
    ASSUME TypeInv, NEW S \in SUBSET Scripts, NEW text \in [Scripts -> Contents],
           Queue(S, text)
    PROVE  /\ generation' \in [Scripts -> Nat]
           /\ pending' \in Seq(Requests)
           /\ asked' \in [Scripts -> Contents] /\ newest' \in [Scripts -> Contents]
<1> USE DEF TypeInv, ScriptType, QueueType, HistoryType
<1> DEFINE wants == {s \in S : ~Wanted(s, text[s])}
           Newest(s) == Request(s, text[s], generation[s] + 1)
           kept == [i \in DOMAIN pending |->
                       IF pending[i].script \in wants THEN Newest(pending[i].script)
                                                      ELSE pending[i]]
           fresh == {s \in wants : ~Queued(s)}
           m == Cardinality(fresh)
<1>1. generation' \in [Scripts -> Nat]
  BY DEF Queue
<1>2. asked' \in [Scripts -> Contents] /\ newest' \in [Scripts -> Contents]
  BY DEF Queue
<1>3. \A s \in Scripts : Newest(s) \in Requests
  BY DEF Request, Requests, Plans
<1>4. kept \in Seq(Requests)
  <2>1. /\ DOMAIN pending = 1..Len(pending) /\ Len(pending) \in Nat
        /\ \A i \in 1..Len(pending) : pending[i] \in Requests
    OBVIOUS
  <2>2. \A i \in 1..Len(pending) : pending[i].script \in Scripts
    BY <2>1 DEF Requests
  <2>3. \A i \in 1..Len(pending) :
           (IF pending[i].script \in wants THEN Newest(pending[i].script) ELSE pending[i]) \in Requests
    BY <1>3, <2>1, <2>2
  <2> HIDE DEF Newest, wants
  <2> QED BY <2>1, <2>3
<1>5. PICK order \in Orders(fresh) : pending' = kept \o [i \in DOMAIN order |-> Newest(order[i])]
  BY DEF Queue
<1>6. m \in Nat /\ order \in [1..m -> fresh]
  BY OrderOf
<1>8. [i \in DOMAIN order |-> Newest(order[i])] \in Seq(Requests)
  <2> HIDE DEF m, Newest
  <2> QED BY <1>3, <1>6
<1>9. pending' \in Seq(Requests)
  <2> HIDE DEF kept, Newest
  <2> QED BY <1>4, <1>5, <1>8
<1> QED BY <1>1, <1>2, <1>9

LEMMA TypeInit == Init => TypeInv
<1> SUFFICES ASSUME Init PROVE TypeInv
  OBVIOUS
<1>1. PICK order \in Orders(Scripts) :
          pending = [i \in DOMAIN order |-> Request(order[i], FirstContent, 1)]
  BY DEF Init
<1>2. Cardinality(Scripts) \in Nat /\ order \in [1..Cardinality(Scripts) -> Scripts]
  BY OrderOf
<1>3. \A x \in Scripts : Request(x, FirstContent, 1) \in Requests
  BY ConstantsAssumption DEF Request, Requests, Plans
<1>4. pending \in Seq(Requests)
  BY <1>1, <1>2, <1>3
<1>5. FilesType /\ ScriptType /\ CacheType /\ ControlType /\ HistoryType
  BY ConstantsAssumption DEF Init, FilesType, ScriptType, CacheType, ControlType, HistoryType
<1> QED BY <1>4, <1>5 DEF Init, QueueType, CompilerInv, TypeInv

\* One iteration of start_next(), or its end.
LEMMA StartTypes == ASSUME TypeInv, StartNext PROVE TypeInv'
<1> USE DEF TypeInv
<1>1. InStart /\ UNCHANGED unchangedByStart
  BY DEF StartNext, StartDone, StartDiscard, StartBusy, StartReplan, StartCached,
         StartCachedFails, StartSpawn, Iterating
<1>2. FilesType'
  BY <1>1 DEF unchangedByStart, files, FilesType
<1>3. CASE StartDone
  <2>1. ScriptType' /\ QueueType' /\ CacheType' /\ HistoryType'
    BY <1>3 DEF StartDone, unchangedByStart, queue, cache, history,
                ScriptType, QueueType, CacheType, HistoryType
  <2>2. ControlType' /\ CompilerInv'
    BY <1>1, <1>3 DEF StartDone, StartReturn, unchangedByStart, queue, InStart,
                ControlType, CompilerInv
  <2> QED BY <1>2, <2>1, <2>2
<1>4. ASSUME Iterating, StartDiscard \/ StartBusy \/ StartReplan \/ StartCached
                          \/ StartCachedFails \/ StartSpawn
      PROVE  TypeInv'
  <2>1. /\ First \in Requests /\ Tail(pending) \in Seq(Requests)
        /\ \A r \in Requests : <<r>> \o Tail(pending) \in Seq(Requests)
    BY <1>4, FirstRequest DEF Iterating, QueueType
  <2>2. First.script \in Scripts
    BY <2>1 DEF Requests
  <2>3. /\ Key(First.script, First.source) \in Keys
        /\ PlanOf(First) \in Plans
        /\ Taken(First) \in Requests
        /\ [First EXCEPT !.prepared = PlanOf(First)] \in Requests
        /\ [First EXCEPT !.prepared = Key(First.script, First.source)] \in Requests
    BY <2>1, KeyType
  <2>4. Ready(First) => PlanOf(First) \in Keys
    BY <2>3 DEF Ready
  <2>5. ScriptType'
    <3>1. UNCHANGED <<source, generation>>
      BY <1>1 DEF unchangedByStart
    <3>2. \/ UNCHANGED <<module, valid>>
          \/ KeepPrevious(First.script) /\ UNCHANGED module
          \/ \E key \in Keys : Publish(First.script, key)
      BY <1>4, <2>4 DEF StartDiscard, StartBusy, StartReplan, StartCached, StartCachedFails,
         StartSpawn
    <3> QED BY <2>2, <3>1, <3>2, ScriptKept
  <2>6. pending' \in Seq(Requests)
    BY <1>4, <2>1, <2>3 DEF StartDiscard, StartBusy, StartReplan, StartCached,
       StartCachedFails, StartSpawn, PushFront, Drop
  <2>7. HistoryType'
    <3>1. events' = events \/ events' = events + 1
      BY <1>4 DEF StartDiscard, StartBusy, StartReplan, StartCached,
         StartCachedFails, StartSpawn, Fault, Tick
    <3> QED BY <1>1, <3>1 DEF unchangedByStart, history, HistoryType
  <2>8. CASE ~StartSpawn
    <3>1. UNCHANGED <<active, process, peerLocks>>
      BY <1>4, <2>8 DEF StartDiscard, StartBusy, StartReplan, StartCached,
         StartCachedFails, cache
    <3>2. stamped' \subseteq stamped
      BY <1>4, <2>8 DEF StartDiscard, StartBusy, StartReplan, StartCached,
         StartCachedFails, cache
    <3>3. StartReturn \/ UNCHANGED <<pc, ownLock>>
      BY <1>4, <2>8 DEF StartDiscard, StartBusy, StartReplan, StartCached, StartCachedFails
    <3>4. ControlType' /\ CompilerInv'
      BY <1>1, <3>1, <3>3 DEF StartReturn, unchangedByStart, InStart, ControlType, CompilerInv
    <3> QED BY <1>2, <2>5, <2>6, <2>7, <3>1, <3>2, <3>4 DEF QueueType, CacheType
  <2>9. CASE StartSpawn
    <3>1. active' = [request |-> Taken(First), plan |-> PlanOf(First), timedOut |-> FALSE]
      BY <2>9 DEF StartSpawn
    <3>2. PlanOf(First) \in Keys
      BY <2>4, <2>9 DEF StartSpawn
    <3>3. active' \in Jobs /\ active' # None
      <4>1. active' \in Jobs
        BY <3>1, <3>2, <2>3 DEF Jobs
      <4> QED BY <4>1, ConstantsAssumption
    <3>4. process' = "running" /\ UNCHANGED <<cache, ownLock, pc>>
      BY <2>9 DEF StartSpawn
    <3>5. ControlType' /\ CompilerInv'
      BY <1>1, <3>3, <3>4 DEF unchangedByStart, InStart, ControlType, CompilerInv
    <3> QED BY <1>2, <2>5, <2>6, <2>7, <3>3, <3>4, <3>5 DEF QueueType, CacheType, cache
  <2> QED BY <2>8, <2>9
<1> QED
  BY <1>3, <1>4 DEF StartNext, StartDiscard, StartBusy, StartReplan, StartCached,
     StartCachedFails, StartSpawn

\* complete_active() up to its start_next().
LEMMA CompleteTypes == ASSUME TypeInv, CompleteActive PROVE TypeInv'
<1> USE DEF TypeInv
<1>1. Completing
  BY DEF CompleteActive, CompleteDiscard, CompleteUnsaved, CompleteReplan, CompleteFailed,
         CompletePublish, WriteStamp
<1>2. /\ active \in Jobs /\ active' = None /\ process' = "none"
      /\ ownLock' = active.plan /\ pc' = "complete" /\ UNCHANGED unchangedByPoll
  BY <1>1 DEF Completing, QueueType
<1>3. active.plan \in Keys /\ active.request \in Requests
  BY <1>2 DEF Jobs
<1>4. active.request.script \in Scripts
  BY <1>3 DEF Requests
<1>5. FilesType'
  BY <1>2 DEF unchangedByPoll, files, FilesType
<1>6. ScriptType'
  <2>1. UNCHANGED <<source, generation>>
    BY <1>2 DEF unchangedByPoll
  <2>2. \/ UNCHANGED <<module, valid>>
        \/ KeepPrevious(active.request.script) /\ UNCHANGED module
        \/ \E key \in Keys : Publish(active.request.script, key)
    BY <1>3 DEF CompleteActive, CompleteDiscard, CompleteUnsaved, CompleteReplan,
         CompleteFailed, CompletePublish, WriteStamp
  <2> QED BY <1>4, <2>1, <2>2, ScriptKept
<1>7. pending' \in Seq(Requests)
  <2>1. pending' = pending \/ pending' = <<active.request>> \o pending
    BY DEF CompleteActive, CompleteDiscard, CompleteUnsaved, CompleteReplan,
         CompleteFailed, CompletePublish, WriteStamp
  <2>2. \A r \in Requests : <<r>> \o pending \in Seq(Requests)
    BY DEF QueueType
  <2> QED BY <1>3, <2>1, <2>2 DEF QueueType
<1>8. CacheType'
  <2>1. \/ stamped' = stamped \/ stamped' = stamped \ {active.plan}
        \/ stamped' = stamped \cup {active.plan}
    BY DEF CompleteActive, CompleteDiscard, CompleteUnsaved, CompleteReplan,
         CompleteFailed, CompletePublish, WriteStamp
  <2> QED BY <1>2, <1>3, <2>1 DEF CacheType, unchangedByPoll
<1>9. HistoryType'
  <2>1. events' = events \/ events' = events + 1
    BY DEF CompleteActive, CompleteDiscard, CompleteUnsaved, CompleteReplan,
         CompleteFailed, CompletePublish, WriteStamp, Fault, Tick
  <2> QED BY <1>2, <2>1 DEF HistoryType, unchangedByPoll, history
<1>10. ControlType' /\ CompilerInv' /\ QueueType'
  BY <1>2, <1>3, <1>7, ConstantsAssumption DEF ControlType, CompilerInv, QueueType, unchangedByPoll
<1> QED BY <1>5, <1>6, <1>8, <1>9, <1>10

\* pump() around its two halves.
LEMMA PumpTypes ==
    ASSUME TypeInv, Pump \/ PollReturn \/ PollTimeout PROVE TypeInv'
<1> USE DEF TypeInv
<1>1. FilesType' /\ ScriptType' /\ CacheType' /\ HistoryType'
  BY DEF Pump, PollReturn, PollTimeout, unchangedByPoll, files, script, cache, history,
         FilesType, ScriptType, CacheType, HistoryType
<1>2. CASE Pump \/ PollReturn
  BY <1>1, <1>2 DEF Pump, PollReturn, unchangedByPoll, queue, QueueType, ControlType, CompilerInv
<1>3. CASE PollTimeout
  <2>1. /\ pc = "poll" /\ active \in Jobs /\ active' = [active EXCEPT !.timedOut = TRUE]
        /\ pc' = "idle" /\ UNCHANGED <<pending, process, ownLock, sync, reloads, shutdown>>
    BY <1>3 DEF PollTimeout, unchangedByPoll, QueueType
  <2>2. active' \in Jobs
    BY <2>1 DEF Jobs
  <2>3. active' # None
    BY <2>2, ConstantsAssumption
  <2>4. active # None
    BY <2>1, ConstantsAssumption
  <2> QED BY <1>1, <2>1, <2>2, <2>3, <2>4 DEF QueueType, ControlType, CompilerInv
<1> QED BY <1>2, <1>3

\* compile() and its attempts.
LEMMA CompileTypes == ASSUME TypeInv, Compile PROVE TypeInv'
<1> USE DEF TypeInv
<1>1. /\ sync \in Syncs /\ active = None /\ pending = <<>>
      /\ UNCHANGED unchangedBySync
      /\ pc \in {"idle", "lock", "run"}
      /\ pc # "idle" => sync.plan \in Keys /\ sync.attempt < Attempts
      /\ ownLock = None
  <2>1. UNCHANGED unchangedBySync
    BY DEF Compile, Attempt, SyncFails, SyncCached, SyncCachedFails, SyncSpawn, SyncReplan,
           SyncPublish, WriteStamp, SyncEnds, SyncRetries
  <2>2. pc \in {"lock", "run"} \/ (pc = "idle" /\ sync # None /\ ~Compiling)
    BY DEF Compile, Attempt, SyncFails, SyncCached, SyncCachedFails, SyncSpawn, SyncReplan,
           SyncPublish, WriteStamp
  <2> QED BY <2>1, <2>2 DEF Compiling, CompilerInv, ControlType
<1>2. sync.script \in Scripts /\ sync.attempt \in 0..Attempts
  BY <1>1 DEF Syncs
<1>3. FilesType'
  BY <1>1 DEF unchangedBySync, files, FilesType
<1>4. ScriptType'
  <2>1. UNCHANGED <<source, generation>>
    BY <1>1 DEF unchangedBySync
  <2>2. \/ UNCHANGED <<module, valid>>
        \/ KeepPrevious(sync.script) /\ UNCHANGED module
        \/ \E key \in Keys : Publish(sync.script, key)
    BY <1>1 DEF Compile, Attempt, SyncFails, SyncCached, SyncCachedFails, SyncSpawn,
           SyncReplan, SyncPublish, WriteStamp
  <2> QED BY <1>2, <2>1, <2>2, ScriptKept
<1>5. CacheType'
  <2>1. stamped' \subseteq stamped \/ (pc # "idle" /\ stamped' = stamped \cup {sync.plan})
    BY DEF Compile, Attempt, SyncFails, SyncCached, SyncCachedFails, SyncSpawn, SyncReplan,
           SyncPublish, WriteStamp
  <2> QED BY <1>1, <2>1 DEF CacheType, unchangedBySync
<1>6. HistoryType'
  <2>1. events' = events \/ events' = events + 1
    BY DEF Compile, Attempt, SyncFails, SyncCached, SyncCachedFails, SyncSpawn, SyncReplan,
           SyncPublish, WriteStamp, Fault, Tick
  <2>2. source[sync.script] \in Contents
    BY <1>2 DEF ScriptType
  <2>3. \/ UNCHANGED history
        \/ /\ asked' = [asked EXCEPT ![sync.script] = source[sync.script]]
           /\ newest' = [newest EXCEPT ![sync.script] = source[sync.script]]
    BY DEF Compile, Attempt, SyncFails, SyncCached, SyncCachedFails, SyncSpawn, SyncReplan,
           SyncPublish, WriteStamp, SyncEnds, SyncRetries
  <2> QED BY <1>2, <2>1, <2>2, <2>3 DEF HistoryType, history
<1>7. CASE Attempt
  <2>1. Key(sync.script, source[sync.script]) \in Keys
    BY <1>2 DEF Key, Keys, FilesType, ScriptType
  <2>2. /\ sync' = [sync EXCEPT !.plan = Key(sync.script, source[sync.script])]
        /\ pc = "idle" /\ pc' = "lock" /\ process' = process /\ sync.attempt < Attempts
    BY <1>7 DEF Attempt
  <2>3. sync' \in Syncs /\ sync'.plan \in Keys /\ sync'.attempt < Attempts
    BY <1>1, <2>1, <2>2 DEF Syncs
  <2>4. sync' # None
    BY <2>3, ConstantsAssumption
  <2>5. ControlType'
    BY <1>1, <2>2, <2>3 DEF ControlType, unchangedBySync
  <2>6. QueueType'
    BY <1>1, <2>2 DEF QueueType, unchangedBySync
  <2>7. CompilerInv'
    BY <1>1, <2>2, <2>3, <2>4 DEF CompilerInv, unchangedBySync
  <2> QED BY <1>3, <1>4, <1>5, <1>6, <2>5, <2>6, <2>7
<1>8. CASE SyncSpawn
  <2>1. QueueType' /\ ControlType'
    BY <1>1, <1>8 DEF SyncSpawn, QueueType, ControlType, unchangedBySync
  <2>2. CompilerInv'
    BY <1>1, <1>8 DEF SyncSpawn, CompilerInv, unchangedBySync
  <2> QED BY <1>3, <1>4, <1>5, <1>6, <2>1, <2>2
<1>9. CASE SyncEnds \/ (pc # "idle" /\ SyncRetries)
  <2>1. sync' \in Syncs \cup {None}
    <3>1. CASE SyncEnds
      BY <3>1 DEF SyncEnds
    <3>2. CASE pc # "idle" /\ SyncRetries
      <4>1. sync.attempt + 1 \in 0..Attempts
        BY <1>1, <1>2, <3>2 DEF Attempts
      <4> QED BY <1>1, <3>2, <4>1 DEF SyncRetries, Syncs
    <3> QED BY <1>9, <3>1, <3>2
  <2>2. pc' = "idle" /\ process' = "none"
    BY <1>9 DEF SyncEnds, SyncRetries
  <2>3. QueueType' /\ ControlType' /\ CompilerInv'
    BY <1>1, <2>1, <2>2 DEF QueueType, ControlType, CompilerInv, unchangedBySync
  <2> QED BY <1>3, <1>4, <1>5, <1>6, <2>3
<1> QED
  BY <1>7, <1>8, <1>9 DEF Compile, SyncFails, SyncCached, SyncCachedFails, SyncReplan, SyncPublish, WriteStamp

\* What the editor calls.
LEMMA EditorTypes == ASSUME TypeInv, Editor PROVE TypeInv'
<1> USE DEF TypeInv
<1>1. ASSUME NEW s \in Scripts, NEW text \in Contents, Edit(s, text) PROVE TypeInv'
  <2>1. FilesType' /\ ScriptType' /\ CacheType' /\ HistoryType'
    BY <1>1 DEF Edit, files, cache, history, FilesType, ScriptType, CacheType, HistoryType
  <2>2. QueueType' /\ ControlType' /\ CompilerInv'
    BY <1>1 DEF Edit, queue, control, QueueType, ControlType, CompilerInv
  <2> QED BY <2>1, <2>2
<1>2. ASSUME NEW s \in Scripts, Save(s) PROVE TypeInv'
  <2>1. Queue({s}, source) /\ events' = events + 1
    BY <1>2 DEF Save, Tick
  <2>2. /\ generation' \in [Scripts -> Nat] /\ pending' \in Seq(Requests)
        /\ asked' \in [Scripts -> Contents] /\ newest' \in [Scripts -> Contents]
    BY <2>1, QueueTypes DEF ScriptType
  <2>3. FilesType' /\ ScriptType' /\ CacheType' /\ HistoryType'
    <3>1. source[s] \in Contents
      BY DEF ScriptType
    <3>2. FilesType'
      BY <1>2, <3>1 DEF Save, Write, FilesType
    <3>3. ScriptType' /\ CacheType' /\ HistoryType'
      BY <1>2, <2>1, <2>2 DEF Save, cache, ScriptType, CacheType, HistoryType
    <3> QED BY <3>2, <3>3
  <2>4. QueueType' /\ ControlType' /\ CompilerInv'
    BY <1>2, <2>2 DEF Save, Idle, control, QueueType, ControlType, CompilerInv
  <2> QED BY <2>3, <2>4
<1>3. CASE QueueAll
  <2>1. Queue(Scripts, disk) /\ events' = events + 1
    BY <1>3 DEF QueueAll, Tick
  <2>2. /\ generation' \in [Scripts -> Nat] /\ pending' \in Seq(Requests)
        /\ asked' \in [Scripts -> Contents] /\ newest' \in [Scripts -> Contents]
    BY <2>1, QueueTypes DEF FilesType
  <2>3. FilesType' /\ ScriptType' /\ CacheType' /\ HistoryType'
    BY <1>3, <2>1, <2>2 DEF QueueAll, files, cache, FilesType, ScriptType, CacheType, HistoryType
  <2>4. QueueType' /\ ControlType' /\ CompilerInv'
    BY <1>3, <2>2 DEF QueueAll, Idle, control, QueueType, ControlType, CompilerInv
  <2> QED BY <2>3, <2>4
<1>4. ASSUME NEW s \in Scripts, Reload(s) PROVE TypeInv'
  <2>1. NewSync(s) \in Syncs
    BY DEF NewSync, Syncs, Attempts
  <2>2. FilesType' /\ ScriptType' /\ CacheType' /\ HistoryType'
    BY <1>4 DEF Reload, Tick, files, script, cache, history,
                FilesType, ScriptType, CacheType, HistoryType
  <2>3. QueueType' /\ ControlType' /\ CompilerInv'
    BY <1>4, <2>1 DEF Reload, Idle, queue, QueueType, ControlType, CompilerInv
  <2> QED BY <2>2, <2>3
<1>5. CASE CompileAll
  <2>1. FilesType' /\ ScriptType' /\ CacheType' /\ HistoryType'
    BY <1>5 DEF CompileAll, Tick, files, script, cache, history,
                FilesType, ScriptType, CacheType, HistoryType
  <2>2. QueueType' /\ ControlType' /\ CompilerInv'
    BY <1>5 DEF CompileAll, Idle, queue, QueueType, ControlType, CompilerInv
  <2> QED BY <2>1, <2>2
<1>6. CASE Shutdown
  <2>1. FilesType' /\ ScriptType' /\ CacheType' /\ HistoryType'
    BY <1>6 DEF Shutdown, files, script, cache, history,
                FilesType, ScriptType, CacheType, HistoryType
  <2>2. QueueType' /\ ControlType' /\ CompilerInv'
    BY <1>6 DEF Shutdown, Idle, QueueType, ControlType, CompilerInv
  <2> QED BY <2>1, <2>2
<1> QED BY <1>1, <1>2, <1>3, <1>4, <1>5, <1>6 DEF Editor

\* compile_all() goes on to the next script.
LEMMA ReloadTypes == ASSUME TypeInv, NEW s \in Scripts, ReloadNext(s) PROVE TypeInv'
<1> USE DEF TypeInv
<1>1. NewSync(s) \in Syncs
  BY DEF NewSync, Syncs, Attempts
<1>2. FilesType' /\ ScriptType' /\ CacheType' /\ HistoryType'
  BY DEF ReloadNext, files, cache, history, FilesType, ScriptType, CacheType, HistoryType
<1>3. QueueType' /\ ControlType' /\ CompilerInv'
  BY <1>1 DEF ReloadNext, queue, QueueType, ControlType, CompilerInv
<1> QED BY <1>2, <1>3

\* The compiler, other programs and other processes.
LEMMA EnvironmentTypes == ASSUME TypeInv, Environment PROVE TypeInv'
<1> USE DEF TypeInv
<1>1. CASE ProcessExit
  <2>1. FilesType' /\ ScriptType' /\ CacheType' /\ HistoryType'
    BY <1>1 DEF ProcessExit, files, script, cache, history,
                FilesType, ScriptType, CacheType, HistoryType
  <2>2. QueueType' /\ ControlType' /\ CompilerInv'
    BY <1>1 DEF ProcessExit, control, QueueType, ControlType, CompilerInv
  <2> QED BY <2>1, <2>2
<1>2. CASE ~ProcessExit
  <2>1. UNCHANGED <<script, queue, control, history>>
    BY <1>2 DEF Environment, ExternalEdit, ChangeInputs, PeerLock, PeerUnlock
  <2>2. ScriptType' /\ QueueType' /\ ControlType' /\ CompilerInv'
    BY <2>1 DEF script, queue, control, ScriptType, QueueType, ControlType, CompilerInv
  <2>3. HistoryType'
    <3>1. events' = events \/ events' = events + 1
      BY <1>2 DEF Environment, ExternalEdit, ChangeInputs, PeerLock, PeerUnlock, Tick
    <3> QED BY <2>1, <3>1 DEF history, HistoryType
  <2>4. FilesType'
    BY <1>2 DEF Environment, ExternalEdit, ChangeInputs, PeerLock, PeerUnlock, Write, files,
                FilesType
  <2>5. CacheType'
    BY <1>2 DEF Environment, ExternalEdit, ChangeInputs, PeerLock, PeerUnlock, cache, CacheType
  <2> QED BY <2>2, <2>3, <2>4, <2>5
<1> QED BY <1>1, <1>2

LEMMA TypeStep == TypeInv /\ [Next]_vars => TypeInv'
<1> SUFFICES ASSUME TypeInv, [Next]_vars PROVE TypeInv'
  OBVIOUS
<1>1. CASE MainThread
  BY <1>1, StartTypes, CompleteTypes, PumpTypes, CompileTypes, ReloadTypes DEF MainThread
<1>2. CASE UNCHANGED vars
  <2>1. UNCHANGED <<files, script, cache, history, events>> /\ UNCHANGED <<queue, control>>
    BY <1>2 DEF vars
  <2>2. FilesType' /\ ScriptType' /\ CacheType' /\ HistoryType'
    BY <2>1 DEF TypeInv, files, script, cache, history,
                FilesType, ScriptType, CacheType, HistoryType
  <2>3. QueueType' /\ ControlType' /\ CompilerInv'
    BY <2>1 DEF TypeInv, queue, control, QueueType, ControlType, CompilerInv
  <2> QED BY <2>2, <2>3 DEF TypeInv
<1> QED BY <1>1, <1>2, EditorTypes, EnvironmentTypes DEF Next

\* The variables keep their types, and a compiler runs exactly for a job or for
\* the attempt compile() is in, whatever fails, times out or changes outside.
THEOREM TypeCorrect == Spec => []TypeOK
<1>1. TypeInv => TypeOK
  BY DEF TypeInv, TypeOK, FilesType, ScriptType, QueueType, CacheType, ControlType,
         HistoryType, CompilerInv
<1> QED BY <1>1, TypeInit, TypeStep, PTL DEF Spec

-----------------------------------------------------------------------------
(* Generations                                                             *)

\* Each script has at most one request in the deque, and it is the newest.
WaitingInv ==
    /\ \A i, j \in DOMAIN pending : pending[i].script = pending[j].script => i = j
    /\ \A i \in DOMAIN pending :
          /\ pending[i].generation = generation[pending[i].script]
          /\ pending[i].source = newest[pending[i].script]

\* The job's request is older than one that waits, and of the newest source if
\* it is still current.
JobInv ==
    active # None =>
        LET r == active.request IN
        /\ r.generation \in 1..generation[r.script]
        /\ Queued(r.script) => r.generation < generation[r.script]
        /\ Current(r) => r.source = newest[r.script]

\* compile() works on the newest source from the start of its attempt on.
SyncInv == pc \in {"lock", "run"} => sync.plan.source = newest[sync.script]

GenerationInv ==
    /\ \A s \in Scripts : generation[s] >= 1
    /\ WaitingInv /\ JobInv /\ SyncInv

\* Taking the first request out leaves none of its script.
LEMMA Dropped ==
    ASSUME pending \in Seq(Requests), pending # <<>>, WaitingInv,
           pending' = Tail(pending), UNCHANGED <<generation, newest>>
    PROVE  /\ WaitingInv'
           /\ \A i \in DOMAIN pending' : pending'[i].script # First.script
           /\ \A s : Queued(s)' => Queued(s)
<1>1. /\ DOMAIN pending = 1..Len(pending) /\ Len(pending) \in Nat \ {0}
      /\ DOMAIN pending' = 1..(Len(pending) - 1)
      /\ \A i \in DOMAIN pending' : pending'[i] = pending[i + 1] /\ i + 1 \in DOMAIN pending
      /\ First = pending[1]
  BY DEF First
<1>2. WaitingInv'
  BY <1>1 DEF WaitingInv
<1>3. \A i \in DOMAIN pending' : pending'[i].script # First.script
  <2> SUFFICES ASSUME NEW i \in DOMAIN pending', pending'[i].script = First.script PROVE FALSE
    OBVIOUS
  <2>1. i + 1 = 1
    BY <1>1 DEF WaitingInv
  <2> QED BY <2>1, <1>1
<1> QED BY <1>1, <1>2, <1>3 DEF Queued

\* A request that goes back in front is still the only one of its script.
LEMMA PutBack ==
    ASSUME pending \in Seq(Requests), pending # <<>>, WaitingInv,
           NEW r \in Requests, pending' = <<r>> \o Tail(pending),
           r.script = First.script, r.source = First.source, r.generation = First.generation,
           UNCHANGED <<generation, newest>>
    PROVE  WaitingInv' /\ \A s : Queued(s)' => Queued(s)
<1>1. /\ DOMAIN pending = 1..Len(pending) /\ Len(pending) \in Nat \ {0}
      /\ DOMAIN pending' = 1..Len(pending) /\ pending'[1] = r /\ pending[1] = First
      /\ \A i \in DOMAIN pending' : i # 1 => pending'[i] = pending[i]
  BY DEF First
<1>2. \A i \in DOMAIN pending' :
          /\ i \in DOMAIN pending
          /\ pending'[i].script = pending[i].script
          /\ pending'[i].source = pending[i].source
          /\ pending'[i].generation = pending[i].generation
  BY <1>1
<1>3. WaitingInv'
  BY <1>1, <1>2 DEF WaitingInv
<1> QED BY <1>2, <1>3 DEF Queued

\* The request of a finished job goes in front if no newer one waits.
LEMMA PutInFront ==
    ASSUME pending \in Seq(Requests), WaitingInv,
           NEW r \in Requests, pending' = <<r>> \o pending, ~Queued(r.script),
           Current(r), r.source = newest[r.script],
           UNCHANGED <<generation, newest>>
    PROVE  WaitingInv'
<1>1. /\ DOMAIN pending = 1..Len(pending) /\ Len(pending) \in Nat
      /\ DOMAIN pending' = 1..(Len(pending) + 1) /\ pending'[1] = r
      /\ \A i \in DOMAIN pending' : i # 1 => pending'[i] = pending[i - 1] /\ i - 1 \in DOMAIN pending
  BY DEF First
<1>2. \A i \in DOMAIN pending' : i # 1 => pending'[i].script # r.script
  BY <1>1 DEF Queued
<1>3. \A i, j \in DOMAIN pending' : pending'[i].script = pending'[j].script => i = j
  <2> SUFFICES ASSUME NEW i \in DOMAIN pending', NEW j \in DOMAIN pending',
                      pending'[i].script = pending'[j].script, i # 1, j # 1
               PROVE  i = j
    BY <1>1, <1>2
  <2>1. i - 1 = j - 1
    BY <1>1 DEF WaitingInv
  <2> QED BY <2>1, <1>1
<1>4. \A i \in DOMAIN pending' :
          /\ pending'[i].generation = generation[pending'[i].script]
          /\ pending'[i].source = newest[pending'[i].script]
  BY <1>1 DEF WaitingInv, Current
<1> QED BY <1>3, <1>4 DEF WaitingInv

\* What queue_compile() leaves in the deque: the scripts of S that want a new
\* request have it where the old one stood, or behind the others in some order.
Wants(S, text)      == {s \in S : ~Wanted(s, text[s])}
Fresh(S, text)      == {s \in Wants(S, text) : ~Queued(s)}
NewRequest(s, text) == Request(s, text[s], generation[s] + 1)

Replaces(S, text, m, order) ==
    LET n == Len(pending) IN
    /\ \A i, j \in 1..m : order[i] = order[j] => i = j
    /\ \A s \in Fresh(S, text) : \E i \in 1..m : order[i] = s
    /\ DOMAIN pending' = 1..(n + m)
    /\ \A i \in 1..n : pending'[i] = IF pending[i].script \in Wants(S, text)
                         THEN NewRequest(pending[i].script, text) ELSE pending[i]
    /\ \A i \in 1..m : pending'[n + i] = NewRequest(order[i], text)

LEMMA QueueShape ==
    ASSUME TypeInv, NEW S \in SUBSET Scripts, NEW text \in [Scripts -> Contents],
           Queue(S, text)
    PROVE  \E m \in Nat : \E order \in [1..m -> Fresh(S, text)] : Replaces(S, text, m, order)
<1> DEFINE wants == Wants(S, text)
           Newest(s) == NewRequest(s, text)
           fresh == Fresh(S, text)
           n == Len(pending)
           m == Cardinality(fresh)
           kept == [i \in DOMAIN pending |->
                       IF pending[i].script \in wants THEN Newest(pending[i].script)
                                                      ELSE pending[i]]
<1>1. PICK order \in Orders(fresh) : pending' = kept \o [i \in DOMAIN order |-> Newest(order[i])]
  BY DEF Queue, Wants, Fresh, NewRequest
<1>2. /\ m \in Nat /\ order \in [1..m -> fresh]
      /\ \A i, j \in 1..m : order[i] = order[j] => i = j
      /\ \A s \in fresh : \E i \in 1..m : order[i] = s
  BY OrderOf DEF Fresh, Wants
<1>3. DOMAIN pending = 1..n /\ n \in Nat
  BY DEF TypeInv, QueueType
<1> HIDE DEF wants, fresh, m, n, Newest
<1>4. /\ DOMAIN pending' = 1..(n + m)
      /\ \A i \in 1..n : pending'[i] = IF pending[i].script \in wants
                                       THEN Newest(pending[i].script) ELSE pending[i]
      /\ \A i \in 1..m : pending'[n + i] = Newest(order[i])
  <2> DEFINE new == [i \in DOMAIN order |-> Newest(order[i])]
  <2>1. /\ DOMAIN order = 1..m /\ DOMAIN kept = 1..n
        /\ \A i \in 1..n : kept[i] = IF pending[i].script \in wants
                                     THEN Newest(pending[i].script) ELSE pending[i]
        /\ \A i \in 1..m : new[i] = Newest(order[i])
        /\ DOMAIN new = 1..m
    BY <1>2, <1>3
  <2>2. kept \in Seq(Range(kept)) /\ new \in Seq(Range(new))
    BY <2>1, <1>2, <1>3 DEF Range
  <2>3. Len(kept) = n /\ Len(new) = m
    BY <2>1, <2>2, <1>2, <1>3
  <2> HIDE DEF kept, new
  <2> DEFINE R == Range(kept) \cup Range(new)
  <2>4. kept \in Seq(R) /\ new \in Seq(R)
    BY <2>2
  <2> HIDE DEF R
  <2>5. kept \o new \in Seq(R) /\ Len(kept \o new) = n + m
    BY <2>4, <2>3
  <2>6. /\ DOMAIN (kept \o new) = 1..(n + m)
        /\ \A i \in 1..n : (kept \o new)[i] = kept[i]
        /\ \A i \in 1..m : (kept \o new)[n + i] = new[i]
    BY <2>4, <2>5, <2>3, <1>2, <1>3
  <2>7. pending' = kept \o new
    BY <1>1 DEF kept, new
  <2> QED BY <2>1, <2>6, <2>7
<1>5. Replaces(S, text, m, order)
  BY <1>2, <1>4 DEF Replaces, wants, fresh, n, Newest
<1> QED BY <1>2, <1>5 DEF fresh

\* queue_compile() keeps one request of each script, and makes it the newest.
LEMMA QueueKeeps ==
    ASSUME TypeInv, GenerationInv, NEW S \in SUBSET Scripts, NEW text \in [Scripts -> Contents],
           Queue(S, text), UNCHANGED active
    PROVE  /\ \A s \in Scripts : generation'[s] >= 1
           /\ WaitingInv' /\ JobInv'
<1> DEFINE wants == Wants(S, text)
           Newest(s) == NewRequest(s, text)
           fresh == Fresh(S, text)
           n == Len(pending)
<1>1. PICK m \in Nat : \E order \in [1..m -> fresh] : Replaces(S, text, m, order)
  BY QueueShape
<1>6. PICK order \in [1..m -> fresh] : Replaces(S, text, m, order)
  BY <1>1
<1>2. /\ \A i, j \in 1..m : order[i] = order[j] => i = j
      /\ DOMAIN pending' = 1..(n + m)
      /\ \A i \in 1..n : pending'[i] = IF pending[i].script \in wants
                           THEN Newest(pending[i].script) ELSE pending[i]
      /\ \A i \in 1..m : pending'[n + i] = Newest(order[i])
      /\ order \in [1..m -> fresh]
  BY <1>6 DEF Replaces
<1>3. /\ DOMAIN pending = 1..n /\ n \in Nat
      /\ \A i \in 1..n : pending[i] \in Requests /\ pending[i].script \in Scripts
  <2>1. pending \in Seq(Requests)
    BY DEF TypeInv, QueueType
  <2>2. \A r \in Requests : r.script \in Scripts
    BY DEF Requests
  <2> QED BY <2>1, <2>2
<1>4. /\ \A s \in wants : generation'[s] = generation[s] + 1 /\ newest'[s] = text[s]
      /\ \A s \in Scripts \ wants : generation'[s] = generation[s] /\ newest'[s] = newest[s]
      /\ wants \subseteq Scripts /\ fresh \subseteq wants
      /\ \A s \in fresh, i \in 1..n : pending[i].script # s
  BY <1>3 DEF Queue, Queued, Wants, Fresh
<1>5. \A s : /\ Newest(s).script = s /\ Newest(s).source = text[s]
             /\ Newest(s).generation = generation[s] + 1
  BY DEF NewRequest, Request
<1> HIDE DEF wants, fresh, n, Newest
<1>7. \A i \in 1..n : pending'[i].script = pending[i].script
  BY <1>5, <1>2
<1>8. \A i \in 1..m : pending'[n + i].script = order[i]
  BY <1>5, <1>2
<1>9. \A i \in 1..(n + m) : i \in 1..n \/ \E k \in 1..m : i = n + k
  <2> SUFFICES ASSUME NEW i \in 1..(n + m), i \notin 1..n PROVE i - n \in 1..m /\ i = n + (i - n)
    OBVIOUS
  <2> QED BY <1>2, <1>3
<1>10. \A i \in 1..(n + m) :
          /\ pending'[i].generation = generation'[pending'[i].script]
          /\ pending'[i].source = newest'[pending'[i].script]
  <2>1. ASSUME NEW i \in 1..n
        PROVE  /\ pending'[i].generation = generation'[pending'[i].script]
               /\ pending'[i].source = newest'[pending'[i].script]
    BY <1>3, <1>4, <1>5, <1>2 DEF GenerationInv, WaitingInv
  <2>2. ASSUME NEW k \in 1..m
        PROVE  /\ pending'[n + k].generation = generation'[pending'[n + k].script]
               /\ pending'[n + k].source = newest'[pending'[n + k].script]
    BY <1>2, <1>4, <1>5, <1>2
  <2> QED BY <1>9, <2>1, <2>2
<1>11. ASSUME NEW i \in 1..(n + m), NEW j \in 1..(n + m), pending'[i].script = pending'[j].script
       PROVE  i = j
  <2>1. CASE i \in 1..n /\ j \in 1..n
    BY <1>3, <1>7, <1>11, <2>1 DEF GenerationInv, WaitingInv
  <2>2. ASSUME NEW k \in 1..m, NEW l \in 1..n PROVE pending'[n + k].script # pending'[l].script
    BY <1>2, <1>4, <1>7, <1>8
  <2>3. ASSUME NEW k \in 1..m, NEW l \in 1..m, pending'[n + k].script = pending'[n + l].script
        PROVE  k = l
    BY <1>2, <1>8, <2>3
  <2> QED BY <1>9, <1>11, <2>1, <2>2, <2>3
<1>12. WaitingInv'
  BY <1>2, <1>10, <1>11 DEF WaitingInv
<1>13. \A s \in Scripts : generation'[s] >= 1
  BY <1>4 DEF GenerationInv, TypeInv, ScriptType
<1>14. \A s \in Scripts \ wants : Queued(s)' => Queued(s)
  <2> SUFFICES ASSUME NEW s \in Scripts \ wants, NEW i \in 1..(n + m), pending'[i].script = s
               PROVE  Queued(s)
    BY <1>2 DEF Queued
  <2>1. i \in 1..n
    BY <1>2, <1>4, <1>8, <1>9
  <2> QED BY <2>1, <1>3, <1>7 DEF Queued
<1>15. JobInv'
  <2> SUFFICES ASSUME active # None
               PROVE  LET r == active.request IN
                      /\ r.generation \in 1..generation'[r.script]
                      /\ Queued(r.script)' => r.generation < generation'[r.script]
                      /\ r.generation = generation'[r.script] => r.source = newest'[r.script]
    BY DEF JobInv, Current
  <2> DEFINE r == active.request
  <2>1. r.script \in Scripts /\ generation[r.script] \in Nat
    BY DEF TypeInv, QueueType, ScriptType, Jobs, Requests
  <2>2. /\ r.generation \in 1..generation[r.script]
        /\ Queued(r.script) => r.generation < generation[r.script]
        /\ r.generation = generation[r.script] => r.source = newest[r.script]
    BY DEF GenerationInv, JobInv, Current
  <2>3. CASE r.script \in wants
    BY <2>1, <2>2, <2>3, <1>4
  <2>4. CASE r.script \notin wants
    BY <2>1, <2>2, <2>4, <1>4, <1>14
  <2> QED BY <2>3, <2>4
<1> QED BY <1>12, <1>13, <1>15

\* What neither queues nor compiles anything new keeps the job's place.
LEMMA JobKept ==
    ASSUME JobInv, UNCHANGED <<generation, newest>>, \A s : Queued(s)' => Queued(s),
           active' = None \/ (active # None /\ active'.request = active.request)
    PROVE  JobInv'
<1> SUFFICES ASSUME active' # None
             PROVE  LET r == active.request IN
                    /\ r.generation \in 1..generation[r.script]
                    /\ Queued(r.script)' => r.generation < generation[r.script]
                    /\ r.generation = generation[r.script] => r.source = newest[r.script]
  BY DEF JobInv, Current, Queued
<1>1. Queued(active.request.script)' => \E i \in DOMAIN pending' : pending'[i].script = active.request.script
  BY DEF Queued
<1> QED BY DEF JobInv, Current, Queued

\* The first request is of its script's newest generation.
LEMMA FirstNewest ==
    ASSUME pending \in Seq(Requests), pending # <<>>, WaitingInv
    PROVE  First.generation = generation[First.script] /\ First.source = newest[First.script]
<1>1. First = pending[1] /\ 1 \in DOMAIN pending
  BY DEF First
<1> QED BY <1>1 DEF WaitingInv

\* start_next() takes requests from the front and puts them back there.
LEMMA StartGenerations ==
    ASSUME TypeInv, GenerationInv, StartNext PROVE GenerationInv'
<1> USE DEF GenerationInv
<1>1. InStart /\ UNCHANGED unchangedByStart
  BY DEF StartNext, StartDone, StartDiscard, StartBusy, StartReplan, StartCached,
         StartCachedFails, StartSpawn, Iterating
<1>2. UNCHANGED <<generation, newest>>
  BY <1>1 DEF unchangedByStart, history
<1>3. SyncInv'
  <2>1. pc' \in {"pump", "complete", "poll", "idle"}
    BY <1>1 DEF StartNext, StartDone, StartDiscard, StartBusy, StartReplan, StartCached,
         StartCachedFails, StartSpawn, StartReturn, InStart
  <2> QED BY <2>1 DEF SyncInv
<1>4. CASE StartDone
  BY <1>2, <1>3, <1>4, JobKept DEF StartDone, queue, WaitingInv, Queued, JobInv
<1>5. ASSUME Iterating, StartDiscard \/ StartBusy \/ StartReplan \/ StartCached
                          \/ StartCachedFails \/ StartSpawn
      PROVE  GenerationInv'
  <2>1. pending \in Seq(Requests) /\ pending # <<>> /\ active = None
    BY <1>5 DEF Iterating, TypeInv, QueueType
  <2>2. First \in Requests /\ First.script \in Scripts
    BY <2>1, FirstRequest DEF Requests
  <2>3. /\ Taken(First) \in Requests
        /\ [First EXCEPT !.prepared = PlanOf(First)] \in Requests
        /\ [First EXCEPT !.prepared = Key(First.script, First.source)] \in Requests
    BY <2>2, KeyType DEF TypeInv
  <2>4. /\ Taken(First).script = First.script /\ Taken(First).source = First.source
        /\ Taken(First).generation = First.generation
    BY <2>2 DEF Taken, Requests
  <2>5. \A p \in Plans : LET r == [First EXCEPT !.prepared = p] IN
           r.script = First.script /\ r.source = First.source /\ r.generation = First.generation
    BY <2>2 DEF Requests
  <2>6. PlanOf(First) \in Plans /\ Key(First.script, First.source) \in Plans
    BY <2>2, KeyType DEF TypeInv, Plans
  <2>7. \/ pending' = Tail(pending)
        \/ \E r \in Requests :
              /\ pending' = <<r>> \o Tail(pending) /\ r.script = First.script
              /\ r.source = First.source /\ r.generation = First.generation
    BY <1>5, <2>3, <2>4, <2>5, <2>6 DEF StartDiscard, StartBusy, StartReplan, StartCached,
       StartCachedFails, StartSpawn, PushFront, Drop
  <2>8. WaitingInv'
    BY <1>2, <2>1, <2>7, Dropped, PutBack
  <2>9. CASE ~StartSpawn
    <3>1. active' = None
      BY <1>5, <2>1, <2>9 DEF StartDiscard, StartBusy, StartReplan, StartCached, StartCachedFails
    <3> QED BY <1>2, <1>3, <2>8, <3>1 DEF JobInv
  <2>10. CASE StartSpawn
    <3>1. active'.request = Taken(First) /\ pending' = Tail(pending)
      BY <2>10 DEF StartSpawn, Drop
    <3>2. \A i \in DOMAIN pending' : pending'[i].script # First.script
      BY <1>2, <2>1, <3>1, Dropped
    <3>3. First.generation = generation[First.script] /\ First.source = newest[First.script]
      BY <2>1, FirstNewest
    <3>4. First.generation \in 1..generation[First.script]
      BY <2>2, <3>3 DEF TypeInv, ScriptType
    <3>5. JobInv'
      BY <1>2, <2>4, <3>1, <3>2, <3>3, <3>4 DEF JobInv, Queued, Current
    <3> QED BY <1>2, <1>3, <2>8, <3>5
  <2> QED BY <2>9, <2>10
<1> QED
  BY <1>4, <1>5 DEF StartNext, StartDiscard, StartBusy, StartReplan, StartCached,
     StartCachedFails, StartSpawn

\* complete_active() puts only a current request back, and only if none waits.
LEMMA CompleteGenerations ==
    ASSUME TypeInv, GenerationInv, CompleteActive PROVE GenerationInv'
<1> USE DEF GenerationInv
<1>1. active \in Jobs /\ active # None /\ active' = None /\ pc' = "complete"
      /\ UNCHANGED <<generation, newest>>
  BY DEF CompleteActive, CompleteDiscard, CompleteUnsaved, CompleteReplan, CompleteFailed,
         CompletePublish, WriteStamp, Completing, unchangedByPoll, history, TypeInv, QueueType
<1>2. active.request \in Requests
  BY <1>1 DEF Jobs
<1>3. CASE CompleteReplan
  <2>1. /\ ~Queued(active.request.script) /\ Current(active.request)
        /\ pending' = <<active.request>> \o pending
    BY <1>3 DEF CompleteReplan, Superseded
  <2>2. WaitingInv'
    BY <1>1, <1>2, <2>1, PutInFront DEF JobInv, TypeInv, QueueType
  <2> QED BY <1>1, <2>2 DEF JobInv, SyncInv
<1>4. CASE UNCHANGED pending
  BY <1>1, <1>4 DEF WaitingInv, JobInv, SyncInv
<1> QED
  BY <1>3, <1>4 DEF CompleteActive, CompleteDiscard, CompleteUnsaved, CompleteFailed,
     CompletePublish, WriteStamp

LEMMA GenerationStep == TypeInv /\ GenerationInv /\ [Next]_vars => GenerationInv'
<1> SUFFICES ASSUME TypeInv, GenerationInv, [Next]_vars PROVE GenerationInv'
  OBVIOUS
<1>1. ASSUME UNCHANGED <<pending, generation, newest>>, SyncInv',
             UNCHANGED active \/ (active # None /\ active'.request = active.request)
      PROVE  GenerationInv'
  <2>1. active' = None \/ (active # None /\ active'.request = active.request)
    BY <1>1
  <2>2. \A s : Queued(s)' => Queued(s)
    BY <1>1 DEF Queued
  <2> QED BY <1>1, <2>1, <2>2, JobKept DEF GenerationInv, WaitingInv
<1>2. CASE Pump \/ PollReturn
  BY <1>1, <1>2 DEF Pump, PollReturn, unchangedByPoll, script, queue, history, SyncInv
<1>3. CASE PollTimeout
  <2>1. active \in Jobs /\ active' = [active EXCEPT !.timedOut = TRUE] /\ active # None
    BY <1>3 DEF PollTimeout, TypeInv, QueueType
  <2>2. active'.request = active.request
    BY <2>1 DEF Jobs
  <2> QED BY <1>1, <1>3, <2>1, <2>2 DEF PollTimeout, unchangedByPoll, history, SyncInv
<1>4. CASE Attempt
  <2>1. /\ active = None /\ pending = <<>> /\ UNCHANGED <<active, pending, generation>>
        /\ sync # None
        /\ sync' = [sync EXCEPT !.plan = Key(sync.script, source[sync.script])]
        /\ newest' = [newest EXCEPT ![sync.script] = source[sync.script]]
    BY <1>4 DEF Attempt, Compiling, unchangedBySync
  <2>2. sync \in Syncs /\ sync.script \in Scripts
    BY <2>1 DEF TypeInv, ControlType, Syncs
  <2>3. sync'.plan.source = source[sync.script] /\ sync'.script = sync.script
    BY <2>1, <2>2 DEF Syncs, Key
  <2>4. newest'[sync.script] = source[sync.script]
    BY <2>1, <2>2 DEF TypeInv, HistoryType
  <2> QED BY <2>1, <2>3, <2>4 DEF GenerationInv, WaitingInv, JobInv, SyncInv
<1>5. CASE SyncSpawn
  BY <1>1, <1>5 DEF SyncSpawn, unchangedBySync, history, SyncInv, GenerationInv
<1>6. CASE SyncFails \/ SyncCached \/ SyncCachedFails \/ SyncReplan \/ SyncPublish
  BY <1>1, <1>6 DEF SyncFails, SyncCached, SyncCachedFails, SyncReplan, SyncPublish, WriteStamp, SyncEnds,
     SyncRetries, unchangedBySync, history, SyncInv
<1>7. ASSUME NEW s \in Scripts, ReloadNext(s) PROVE GenerationInv'
  BY <1>1, <1>7 DEF ReloadNext, queue, history, SyncInv
<1>8. ASSUME NEW s \in Scripts, Save(s) PROVE GenerationInv'
  <2>1. Queue({s}, source) /\ UNCHANGED active /\ source \in [Scripts -> Contents] /\ pc' = "idle"
    BY <1>8 DEF Save, Idle, control, TypeInv, ScriptType
  <2> QED BY <2>1, QueueKeeps DEF GenerationInv, SyncInv
<1>9. CASE QueueAll
  <2>1. Queue(Scripts, disk) /\ UNCHANGED active /\ disk \in [Scripts -> Contents] /\ pc' = "idle"
    BY <1>9 DEF QueueAll, Idle, control, TypeInv, FilesType
  <2> QED BY <2>1, QueueKeeps DEF GenerationInv, SyncInv
<1>10. CASE Shutdown
  BY <1>10 DEF Shutdown, Idle, script, history, GenerationInv, WaitingInv, JobInv, SyncInv
<1>11. ASSUME NEW s \in Scripts, Reload(s) \/ CompileAll \/ \E text \in Contents : Edit(s, text)
       PROVE  GenerationInv'
  BY <1>1, <1>11 DEF Reload, CompileAll, Edit, Idle, script, queue, history, control, SyncInv
<1>12. CASE CompileAll
  BY <1>1, <1>12 DEF CompileAll, Idle, script, queue, history, SyncInv
<1>13. CASE Environment
  <2>1. UNCHANGED <<script, control, history, pending, active>>
    BY <1>13 DEF Environment, ProcessExit, ExternalEdit, ChangeInputs, PeerLock, PeerUnlock, queue
  <2> QED BY <1>1, <2>1 DEF script, control, history, SyncInv, GenerationInv
<1>14. CASE UNCHANGED vars
  BY <1>1, <1>14 DEF vars, script, queue, control, history, SyncInv, GenerationInv
<1>15. CASE MainThread
  BY <1>15, <1>2, <1>3, <1>4, <1>5, <1>6, <1>7, StartGenerations, CompleteGenerations
     DEF MainThread, Compile
<1>16. CASE Editor
  BY <1>16, <1>8, <1>9, <1>10, <1>11, <1>12 DEF Editor
<1> QED BY <1>13, <1>14, <1>15, <1>16 DEF Next

LEMMA GenerationInit == Init => GenerationInv
<1> SUFFICES ASSUME Init PROVE GenerationInv
  OBVIOUS
<1>1. PICK order \in Orders(Scripts) :
          pending = [i \in DOMAIN order |-> Request(order[i], FirstContent, 1)]
  BY DEF Init
<1>2. /\ order \in [1..Cardinality(Scripts) -> Scripts]
      /\ \A i, j \in 1..Cardinality(Scripts) : order[i] = order[j] => i = j
  BY OrderOf
<1>3. /\ generation = [s \in Scripts |-> 1] /\ newest = [s \in Scripts |-> FirstContent]
      /\ active = None /\ pc = "idle"
  BY DEF Init
<1>4. \A i \in DOMAIN pending :
          /\ i \in 1..Cardinality(Scripts) /\ pending[i].script = order[i]
          /\ pending[i].generation = 1 /\ pending[i].source = FirstContent
  BY <1>1, <1>2 DEF Request
<1>5. WaitingInv
  BY <1>2, <1>3, <1>4 DEF WaitingInv
<1> QED BY <1>3, <1>5 DEF GenerationInv, JobInv, SyncInv

LEMMA SafetyStep ==
    /\ Init => TypeInv /\ GenerationInv
    /\ TypeInv /\ GenerationInv /\ [Next]_vars => (TypeInv /\ GenerationInv)'
BY TypeInit, GenerationInit, TypeStep, GenerationStep

\* At most one request of a script waits, it is the newest, and a job of the
\* same script is older, through every save, retry, replan and cache hit.
THEOREM QueueTheorem == Spec => []QueueInv
<1>1. GenerationInv => QueueInv
  BY DEF GenerationInv, WaitingInv, JobInv, QueueInv
<1> QED BY <1>1, SafetyStep, PTL DEF Spec

\* No module is replaced by one of a source that is not the newest requested.
LEMMA PublishStep ==
    TypeInv /\ GenerationInv /\ [Next]_vars =>
        [\A s \in Scripts : module'[s] # module[s] => module'[s].source = newest[s]]_vars
<1> SUFFICES ASSUME TypeInv, GenerationInv, Next,
                    NEW s \in Scripts, module'[s] # module[s]
             PROVE  module'[s].source = newest[s]
  OBVIOUS
<1>1. ASSUME NEW t \in Scripts, NEW key, Publish(t, key), key.source = newest[t]
      PROVE  module'[s].source = newest[s]
  BY <1>1 DEF Publish, TypeInv, ScriptType
<1>2. CASE StartCached
  <2>1. /\ pending # <<>> /\ Publish(First.script, PlanOf(First))
        /\ PlanOf(First) = Key(First.script, First.source)
    BY <1>2 DEF StartCached, Ready, Iterating
  <2>2. First.script \in Scripts /\ First.source = newest[First.script]
    BY <2>1, FirstRequest, FirstNewest DEF TypeInv, QueueType, GenerationInv, Requests
  <2>3. PlanOf(First).source = First.source
    BY <2>1 DEF Key
  <2> QED BY <1>1, <2>1, <2>2, <2>3
<1>3. CASE CompletePublish
  <2>1. /\ active \in Jobs /\ active # None /\ Current(active.request)
        /\ Publish(active.request.script, active.plan)
        /\ Key(active.request.script, active.request.source) = active.plan
    BY <1>3 DEF CompletePublish, WriteStamp, Completing, Superseded, TypeInv, QueueType
  <2>2. active.request.script \in Scripts
    BY <2>1 DEF Jobs, Requests
  <2>3. active.plan.source = newest[active.request.script]
    BY <2>1 DEF GenerationInv, JobInv, Key
  <2> QED BY <1>1, <2>1, <2>2, <2>3
<1>4. CASE SyncCached \/ SyncPublish
  <2>1. pc \in {"lock", "run"} /\ Publish(sync.script, sync.plan)
    BY <1>4 DEF SyncCached, SyncPublish, WriteStamp
  <2>2. sync.script \in Scripts /\ sync.plan.source = newest[sync.script]
    BY <2>1 DEF TypeInv, CompilerInv, ControlType, Syncs, GenerationInv, SyncInv
  <2> QED BY <1>1, <2>1, <2>2
<1>5. CASE ~(StartCached \/ CompletePublish \/ SyncCached \/ SyncPublish)
  <2>1. CASE MainThread
    <3>1. ~(Pump \/ PollReturn \/ PollTimeout)
      BY DEF Pump, PollReturn, PollTimeout, script
    <3>2. ~StartNext
      BY <1>5 DEF StartNext, StartDone, StartDiscard, StartBusy, StartReplan,
         StartCachedFails, StartSpawn
    <3>3. ~CompleteActive
      BY <1>5 DEF CompleteActive, CompleteDiscard, CompleteUnsaved, CompleteReplan, CompleteFailed
    <3>4. ~Compile
      BY <1>5 DEF Compile, Attempt, SyncFails, SyncCachedFails, SyncSpawn, SyncReplan
    <3>5. ASSUME NEW t \in Scripts PROVE ~ReloadNext(t)
      BY DEF ReloadNext
    <3> QED BY <2>1, <3>1, <3>2, <3>3, <3>4, <3>5 DEF MainThread
  <2>2. CASE Editor
    BY <2>2 DEF Editor, Edit, Save, Reload, QueueAll, CompileAll, Shutdown, script
  <2>3. CASE Environment
    BY <2>3 DEF Environment, ProcessExit, ExternalEdit, ChangeInputs, PeerLock, PeerUnlock, script
  <2> QED BY <2>1, <2>2, <2>3 DEF Next
<1> QED BY <1>2, <1>3, <1>4, <1>5

\* Whatever saves, retries and reloads happen while a compiler runs, a module is
\* published only for the source that its script was last asked to compile.
THEOREM NoStalePublishTheorem == Spec => NoStalePublish
<1> QED BY SafetyStep, PublishStep, PTL DEF Spec, NoStalePublish

-----------------------------------------------------------------------------
(* The newest request compiles                                             *)

\* The requests in the deque.
Waiting == {pending[i] : i \in DOMAIN pending}

\* What a script was asked to compile, and the inputs, were in the files at some
\* time: what changes later is different from all of it.
FilesPast ==
    /\ \A s \in Scripts : disk[s] \in past[s] /\ asked[s] \in past[s]
    /\ inputs \in pastInputs

\* Nothing is ever put back with its plan, as no lock is held by anybody else.
RequestPast(r) == r.source \in past[r.script] /\ r.prepared = None

QueuePast == \A r \in Waiting : RequestPast(r)

JobPast ==
    active # None =>
        /\ RequestPast(active.request) /\ ~active.timedOut
        /\ active.plan.script = active.request.script
        /\ active.plan.source = active.request.source
        /\ active.plan.inputs \in pastInputs

\* The lock of a finished job is not one that anything in the deque needs.
OwnLockInv ==
    ownLock # None =>
        /\ ownLock.inputs \in pastInputs
        /\ \A r \in Waiting : Key(r.script, r.source) # ownLock

QuietInv == peerLocks = {} /\ process # "failed"

\* A job whose source is still in the file is the newest, and what waits behind
\* a job of its script has another source.
JobNewest ==
    active # None =>
        /\ active.request.source = disk[active.request.script] => Current(active.request)
        /\ \A r \in Waiting :
              r.script = active.request.script => r.source # active.request.source

\* Every attempt of compile() after its first follows a change of the inputs.
Asking == sync # None /\ (pc \in {"lock", "run"} \/ sync.attempt > 0)

AttemptInv ==
    /\ Asking => asked[sync.script] = source[sync.script]
    /\ sync # None => sync.attempt < Cardinality(pastInputs)
    /\ pc \in {"lock", "run"} =>
          /\ sync.plan.script = sync.script
          /\ sync.plan.source = source[sync.script]
          /\ sync.plan.inputs # inputs => sync.attempt + 1 < Cardinality(pastInputs)

\* A script runs a module of its file's text, or the deque, the job or compile()
\* is about to give it one.
Served(s) == module[s] # None /\ module[s].source = disk[s]

Coming(s) ==
    \/ \E r \in Waiting : r.script = s /\ r.source = disk[s]
    \/ active # None /\ active.request.script = s /\ active.request.source = disk[s]
    \/ Asking /\ sync.script = s

ServedInv == ~shutdown => \A s \in Scripts : asked[s] = disk[s] => Served(s) \/ Coming(s)

QueueCalm == FilesPast /\ QueuePast /\ JobPast /\ OwnLockInv /\ QuietInv /\ JobNewest
CalmBody  == QueueCalm /\ AttemptInv /\ ServedInv
CalmInv   == calm => CalmBody

\* The inputs change fewer times than compile() attempts.
FewInputs == IsFiniteSet(Inputs) /\ Cardinality(Inputs) <= Attempts

\* The weather does not change.
LEMMA CalmFixed == [Next]_vars => UNCHANGED calm
<1> SUFFICES ASSUME [Next]_vars PROVE UNCHANGED calm
  OBVIOUS
<1> USE DEF files
<1>1. CASE MainThread
  <2>1. CASE Pump \/ PollReturn \/ PollTimeout
    BY <2>1 DEF Pump, PollReturn, PollTimeout, unchangedByPoll
  <2>2. CASE StartNext
    BY <2>2 DEF StartNext, StartDone, StartDiscard, StartBusy, StartReplan, StartCached,
           StartCachedFails, StartSpawn, unchangedByStart
  <2>3. CASE CompleteActive
    BY <2>3 DEF CompleteActive, CompleteDiscard, CompleteUnsaved, CompleteReplan, CompleteFailed,
           CompletePublish, WriteStamp, Completing, unchangedByPoll
  <2>4. CASE Compile
    BY <2>4 DEF Compile, Attempt, SyncFails, SyncCached, SyncCachedFails, SyncSpawn, SyncReplan,
           SyncPublish, WriteStamp, SyncEnds, SyncRetries, unchangedBySync
  <2>5. ASSUME NEW s \in Scripts, ReloadNext(s) PROVE UNCHANGED calm
    BY <2>5 DEF ReloadNext
  <2> QED BY <1>1, <2>1, <2>2, <2>3, <2>4, <2>5 DEF MainThread
<1>2. CASE Editor
  BY <1>2 DEF Editor, Edit, Save, Reload, QueueAll, CompileAll, Shutdown
<1>3. CASE Environment
  BY <1>3 DEF Environment, ProcessExit, ExternalEdit, ChangeInputs, PeerLock, PeerUnlock
<1>4. CASE UNCHANGED vars
  BY <1>4 DEF vars
<1> QED BY <1>1, <1>2, <1>3, <1>4 DEF Next

\* The deque without its first request, and with one more.
LEMMA WaitingTail ==
    ASSUME pending \in Seq(Requests), pending # <<>>, pending' = Tail(pending)
    PROVE  Waiting = Waiting' \cup {First}
<1>1. /\ DOMAIN pending = 1..Len(pending) /\ Len(pending) \in Nat \ {0}
      /\ DOMAIN pending' = 1..(Len(pending) - 1)
      /\ \A i \in DOMAIN pending' : pending'[i] = pending[i + 1]
      /\ First = pending[1]
  BY DEF First
<1>2. \A i \in DOMAIN pending : i = 1 \/ (i - 1 \in DOMAIN pending' /\ pending[i] = pending'[i - 1])
  BY <1>1
<1>3. \A i \in DOMAIN pending' : i + 1 \in DOMAIN pending
  BY <1>1
<1>4. 1 \in DOMAIN pending
  BY <1>1
<1>5. ASSUME NEW r \in Waiting PROVE r \in Waiting' \cup {First}
  <2>1. PICK i \in DOMAIN pending : r = pending[i]
    BY DEF Waiting
  <2>2. i = 1 \/ r = pending'[i - 1]
    BY <1>2, <2>1
  <2> QED BY <1>1, <1>2, <2>1, <2>2 DEF Waiting
<1>6. ASSUME NEW r \in Waiting' PROVE r \in Waiting
  <2>1. PICK i \in DOMAIN pending' : r = pending'[i]
    BY DEF Waiting
  <2> QED BY <1>1, <1>3, <2>1 DEF Waiting
<1>7. First \in Waiting
  BY <1>1, <1>4 DEF Waiting
<1> QED BY <1>5, <1>6, <1>7

LEMMA WaitingFront ==
    ASSUME pending \in Seq(Requests), NEW r \in Requests, pending' = <<r>> \o pending
    PROVE  Waiting' = Waiting \cup {r}
<1>1. /\ DOMAIN pending = 1..Len(pending) /\ Len(pending) \in Nat
      /\ DOMAIN pending' = 1..(Len(pending) + 1) /\ pending'[1] = r
      /\ \A i \in DOMAIN pending' : i # 1 => pending'[i] = pending[i - 1] /\ i - 1 \in DOMAIN pending
      /\ \A i \in DOMAIN pending : i + 1 \in DOMAIN pending' /\ pending'[i + 1] = pending[i]
  OBVIOUS
<1>2. 1 \in DOMAIN pending'
  BY <1>1
<1>3. ASSUME NEW q \in Waiting' PROVE q \in Waiting \cup {r}
  <2>1. PICK i \in DOMAIN pending' : q = pending'[i]
    BY DEF Waiting
  <2>2. i = 1 \/ q = pending[i - 1]
    BY <1>1, <2>1
  <2> QED BY <1>1, <2>1, <2>2 DEF Waiting
<1>4. ASSUME NEW q \in Waiting PROVE q \in Waiting'
  <2>1. PICK i \in DOMAIN pending : q = pending[i]
    BY DEF Waiting
  <2> QED BY <1>1, <2>1 DEF Waiting
<1>5. r \in Waiting'
  BY <1>1, <1>2 DEF Waiting
<1> QED BY <1>3, <1>4, <1>5

LEMMA WaitingType ==
    ASSUME pending \in Seq(Requests)
    PROVE  /\ Waiting \subseteq Requests
           /\ \A r \in Waiting : r.script \in Scripts
           /\ pending = <<>> => Waiting = {}
           /\ pending # <<>> => First \in Waiting
<1>1. /\ DOMAIN pending = 1..Len(pending) /\ Len(pending) \in Nat
      /\ \A i \in DOMAIN pending : pending[i] \in Requests
      /\ pending # <<>> => 1 \in DOMAIN pending /\ First = pending[1]
      /\ pending = <<>> => DOMAIN pending = {}
  BY DEF First
<1> QED BY <1>1 DEF Waiting, Requests

\* What leaves the files, the deque, the job and the modules alone keeps all of
\* it, whatever the main thread is doing.
LEMMA CalmKept ==
    ASSUME CalmBody,
           UNCHANGED <<disk, past, inputs, pastInputs, asked, generation, module, pending, active,
                       peerLocks, shutdown>>,
           process' # "failed", ownLock' \in {ownLock, None},
           AttemptInv', Asking => Asking' /\ sync'.script = sync.script
    PROVE  CalmBody'
<1> USE DEF CalmBody
<1>1. UNCHANGED Waiting
  BY DEF Waiting
<1>2. FilesPast' /\ QueuePast' /\ JobPast'
  BY <1>1 DEF QueueCalm, FilesPast, QueuePast, JobPast, RequestPast
<1>3. OwnLockInv' /\ QuietInv'
  BY <1>1 DEF QueueCalm, OwnLockInv, QuietInv, Key
<1>4. JobNewest'
  BY <1>1 DEF QueueCalm, JobNewest, Current
<1>5. ServedInv'
  BY <1>1 DEF ServedInv, Served, Coming
<1> QED BY <1>2, <1>3, <1>4, <1>5 DEF QueueCalm

\* start_next() drops only what the file has moved on from: no lock is busy, no
\* plan is old, and the newest request of a saved source is compiled or loaded.
LEMMA StartCalm ==
    ASSUME TypeInv, GenerationInv, calm, CalmBody, StartNext PROVE CalmBody'
<1> USE DEF CalmBody
<1>1. InStart /\ UNCHANGED unchangedByStart
  BY DEF StartNext, StartDone, StartDiscard, StartBusy, StartReplan, StartCached,
         StartCachedFails, StartSpawn, Iterating
<1>2. UNCHANGED <<disk, past, inputs, pastInputs, asked, generation, source, sync, shutdown>>
  BY <1>1 DEF unchangedByStart, files, history
<1>3. pc' \in {"pump", "complete", "poll", "idle"} /\ ownLock' \in {ownLock, None}
  BY <1>1 DEF StartNext, StartDone, StartDiscard, StartBusy, StartReplan, StartCached,
     StartCachedFails, StartSpawn, StartReturn, InStart
<1>4. AttemptInv' /\ (Asking <=> Asking')
  BY <1>1, <1>2, <1>3 DEF AttemptInv, Asking, InStart
<1>5. CASE StartDone
  BY <1>2, <1>3, <1>4, <1>5, CalmKept DEF StartDone, queue, cache, CalmBody, QueueCalm, QuietInv
<1>6. CASE StartDiscard \/ StartCached \/ StartSpawn
  <2>1. /\ active = None /\ pending \in Seq(Requests) /\ pending # <<>> /\ pending' = Tail(pending)
        /\ First \in Waiting /\ First \in Requests /\ First.script \in Scripts
    BY <1>6, WaitingType DEF StartDiscard, StartCached, StartSpawn, Iterating, Drop, TypeInv, QueueType
  <2>2. Waiting = Waiting' \cup {First} /\ \A r \in Waiting' : r.script # First.script
    <3>1. \A i \in DOMAIN pending' : pending'[i].script # First.script
      BY <1>1, <2>1, Dropped DEF GenerationInv, unchangedByStart, history
    <3> QED BY <2>1, <3>1, WaitingTail DEF Waiting
  <2>3. /\ Current(First) /\ First.prepared = None
        /\ PlanOf(First) = Key(First.script, First.source) /\ Taken(First) = First
        /\ RequestPast(First)
    BY <2>1, FirstNewest DEF Current, PlanOf, Taken, QueueCalm, QueuePast, RequestPast, GenerationInv
  <2>4. ~Fault("prepare") /\ ~Fault("spawn")
    BY DEF Fault, May
  <2>5. FilesPast' /\ QueuePast'
    BY <1>2, <2>2 DEF QueueCalm, FilesPast, QueuePast, RequestPast
  <2>6. OwnLockInv'
    BY <1>2, <1>3, <2>2 DEF QueueCalm, OwnLockInv, Key
  <2>7. CASE StartDiscard
    <3>1. /\ First.source # disk[First.script] /\ UNCHANGED <<module, active, process, cache>>
      BY <2>3, <2>4, <2>7, ConstantsAssumption DEF StartDiscard, Saved
    <3>2. JobPast' /\ JobNewest' /\ QuietInv'
      BY <2>1, <3>1 DEF JobPast, JobNewest, QueueCalm, QuietInv, cache
    <3>3. ServedInv'
      BY <1>2, <1>4, <2>1, <2>2, <3>1 DEF ServedInv, Served, Coming
    <3> QED BY <1>4, <2>5, <2>6, <3>2, <3>3 DEF QueueCalm
  <2>8. CASE StartCached
    <3>1. /\ First.source = disk[First.script] /\ UNCHANGED <<active, process, cache>>
          /\ module' = [module EXCEPT ![First.script] = Key(First.script, First.source)]
      BY <2>3, <2>8 DEF StartCached, Ready, Saved, Publish
    <3>2. JobPast' /\ JobNewest' /\ QuietInv'
      BY <2>1, <3>1 DEF JobPast, JobNewest, QueueCalm, QuietInv, cache
    <3>3. ASSUME NEW s \in Scripts, s = First.script PROVE Served(s)'
      <4>1. Key(First.script, First.source) \in Keys
        BY <2>1, KeyType DEF TypeInv
      <4>2. module'[First.script] = Key(First.script, First.source)
        BY <2>1, <3>1 DEF TypeInv, ScriptType
      <4>3. module'[First.script] # None
        BY <4>1, <4>2, ConstantsAssumption
      <4> QED BY <1>2, <3>1, <3>3, <4>2, <4>3 DEF Served, Key
    <3>4. ASSUME NEW s \in Scripts, s # First.script, Served(s) \/ Coming(s)
          PROVE  Served(s)' \/ Coming(s)'
      BY <1>2, <1>4, <2>1, <2>2, <3>1, <3>4 DEF Served, Coming, TypeInv, ScriptType
    <3>5. ServedInv'
      BY <1>2, <3>3, <3>4 DEF ServedInv
    <3> QED BY <1>4, <2>5, <2>6, <3>2, <3>5 DEF QueueCalm
  <2>9. CASE StartSpawn
    <3>1. /\ First.source = disk[First.script] /\ UNCHANGED <<module, cache>>
          /\ process' = "running"
          /\ active' = [request |-> First, plan |-> Key(First.script, First.source),
                        timedOut |-> FALSE]
      BY <2>3, <2>9 DEF StartSpawn, Ready, Saved
    <3>2. JobPast'
      BY <1>2, <2>3, <3>1 DEF JobPast, RequestPast, Key, QueueCalm, FilesPast
    <3>3. JobNewest'
      BY <1>2, <2>2, <2>3, <3>1 DEF JobNewest, Current
    <3>4. QuietInv'
      BY <3>1 DEF QuietInv, QueueCalm, cache
    <3>5. active' # None
      <4>1. Key(First.script, First.source) \in Keys
        BY <2>1, KeyType DEF TypeInv
      <4>2. active' \in Jobs
        BY <2>1, <3>1, <4>1 DEF Jobs
      <4> QED BY <4>2, ConstantsAssumption
    <3>6. ServedInv'
      BY <1>2, <1>4, <2>1, <2>2, <3>1, <3>5 DEF ServedInv, Served, Coming
    <3> QED BY <1>4, <2>5, <2>6, <3>2, <3>3, <3>4, <3>6 DEF QueueCalm
  <2> QED BY <1>6, <2>7, <2>8, <2>9
<1>7. ~(StartBusy \/ StartReplan \/ StartCachedFails)
  <2> SUFFICES ASSUME Iterating PROVE ~(StartBusy \/ StartReplan \/ StartCachedFails)
    BY DEF StartBusy, StartReplan, StartCachedFails
  <2>1. First \in Waiting
    BY WaitingType DEF Iterating, TypeInv, QueueType
  <2>2. First.prepared = None
    BY <2>1 DEF QueueCalm, QueuePast, RequestPast
  <2>3. ~LockedOut(Key(First.script, First.source))
    <3>1. Key(First.script, First.source) # None
      BY <2>1, WaitingType, KeyType, ConstantsAssumption DEF TypeInv, QueueType
    <3> QED BY <2>1, <3>1 DEF LockedOut, QueueCalm, OwnLockInv, QuietInv
  <2>4. ~StartBusy
    BY <2>2, <2>3 DEF StartBusy, PlanOf
  <2>5. ~StartReplan
    BY <2>2, ConstantsAssumption DEF StartReplan
  <2>6. ~StartCachedFails
    BY DEF StartCachedFails, Fault, May
  <2> QED BY <2>4, <2>5, <2>6
<1> QED BY <1>5, <1>6, <1>7 DEF StartNext

\* complete_active() throws a result away only when the file has moved on; inputs
\* that changed under the compiler send the request back into the deque.
LEMMA CompleteCalm ==
    ASSUME TypeInv, GenerationInv, calm, CalmBody, CompleteActive PROVE CalmBody'
<1> USE DEF CalmBody
<1> DEFINE r == active.request
<1>1. /\ Completing /\ active \in Jobs /\ active # None
      /\ r \in Requests /\ r.script \in Scripts /\ pending \in Seq(Requests)
  BY DEF CompleteActive, CompleteDiscard, CompleteUnsaved, CompleteReplan, CompleteFailed,
         CompletePublish, WriteStamp, Completing, TypeInv, QueueType, Jobs, Requests
<1>2. /\ active' = None /\ process' = "none" /\ ownLock' = active.plan /\ pc' = "complete"
      /\ UNCHANGED <<disk, past, inputs, pastInputs, asked, source, generation, peerLocks, sync,
                     shutdown>>
  BY <1>1 DEF Completing, unchangedByPoll, files, history
<1>3. Succeeded /\ ~Fault("prepare") /\ ~Fault("load")
  BY <1>1 DEF Succeeded, Completing, QueueCalm, QuietInv, JobPast, Fault, May
<1>4. AttemptInv' /\ (Asking <=> Asking')
  BY <1>1, <1>2 DEF AttemptInv, Asking, Completing
<1>5. FilesPast' /\ JobPast' /\ JobNewest' /\ QuietInv'
  BY <1>2 DEF QueueCalm, FilesPast, JobPast, JobNewest, QuietInv
<1>6. Superseded(r) => r.source # disk[r.script]
  BY <1>1 DEF Superseded, QueueCalm, JobNewest, GenerationInv, JobInv, Current
<1>7. CASE CompleteReplan
  <2>1. pending' = <<r>> \o pending /\ Key(r.script, r.source) # active.plan /\ UNCHANGED module
    BY <1>7 DEF CompleteReplan
  <2>2. Waiting' = Waiting \cup {r}
    BY <1>1, <2>1, WaitingFront
  <2>3. QueuePast'
    BY <1>1, <1>2, <2>2 DEF QueueCalm, QueuePast, JobPast, RequestPast
  <2>4. OwnLockInv'
    <3>1. ASSUME NEW q \in Waiting PROVE Key(q.script, q.source) # active.plan
      BY <1>1 DEF QueueCalm, JobNewest, JobPast, Key
    <3> QED BY <1>1, <1>2, <2>1, <2>2, <3>1 DEF OwnLockInv, QueueCalm, JobPast, Key
  <2>5. ServedInv'
    BY <1>2, <1>4, <2>1, <2>2 DEF ServedInv, Served, Coming
  <2> QED BY <1>4, <1>5, <2>3, <2>4, <2>5 DEF QueueCalm
<1>8. CASE CompleteDiscard \/ CompleteUnsaved \/ CompletePublish
  <2>1. UNCHANGED Waiting
    BY <1>8 DEF CompleteDiscard, CompleteUnsaved, CompletePublish, WriteStamp, Waiting
  <2>2. QueuePast'
    BY <1>2, <2>1 DEF QueueCalm, QueuePast, RequestPast
  <2>3. OwnLockInv'
    <3>1. ASSUME NEW q \in Waiting PROVE Key(q.script, q.source) # active.plan
      BY <1>1 DEF QueueCalm, JobNewest, JobPast, Key
    <3> QED BY <1>1, <1>2, <2>1, <3>1 DEF OwnLockInv, QueueCalm, JobPast, Key
  <2>4. CASE CompleteDiscard \/ CompleteUnsaved
    <3>1. UNCHANGED module /\ r.source # disk[r.script]
      BY <1>3, <1>6, <2>4 DEF CompleteDiscard, CompleteUnsaved, Saved
    <3>2. ServedInv'
      BY <1>2, <1>4, <2>1, <3>1 DEF ServedInv, Served, Coming
    <3> QED BY <1>4, <1>5, <2>2, <2>3, <3>2 DEF QueueCalm
  <2>5. CASE CompletePublish
    <3>1. r.source = disk[r.script] /\ module' = [module EXCEPT ![r.script] = active.plan]
      BY <2>5 DEF CompletePublish, WriteStamp, Publish, Saved
    <3>2. ASSUME NEW s \in Scripts, s = r.script PROVE Served(s)'
      <4>1. active.plan \in Keys /\ active.plan.source = r.source
        BY <1>1 DEF Jobs, QueueCalm, JobPast
      <4>2. module'[s] = active.plan
        BY <1>1, <3>1, <3>2 DEF TypeInv, ScriptType
      <4> QED BY <1>2, <3>1, <3>2, <4>1, <4>2, ConstantsAssumption DEF Served
    <3>3. ASSUME NEW s \in Scripts, s # r.script, Served(s) \/ Coming(s)
          PROVE  Served(s)' \/ Coming(s)'
      BY <1>1, <1>2, <1>4, <2>1, <3>1, <3>3 DEF Served, Coming, TypeInv, ScriptType
    <3>4. ServedInv'
      BY <1>2, <3>2, <3>3 DEF ServedInv
    <3> QED BY <1>4, <1>5, <2>2, <2>3, <3>4 DEF QueueCalm
  <2> QED BY <1>8, <2>4, <2>5
<1>9. ~CompleteFailed
  BY <1>3 DEF CompleteFailed
<1> QED BY <1>7, <1>8, <1>9 DEF CompleteActive

\* compile() fails only when the file has moved on: the inputs change fewer times
\* than it attempts, and nothing else stops it.
LEMMA CompileCalm ==
    ASSUME TypeInv, calm, CalmBody, Compile, FewInputs PROVE CalmBody'
<1> USE DEF CalmBody
<1>1. /\ sync \in Syncs /\ sync # None /\ sync.script \in Scripts
      /\ UNCHANGED unchangedBySync /\ ownLock = None
      /\ pc \in {"idle", "lock", "run"}
  <2>1. UNCHANGED unchangedBySync
    BY DEF Compile, Attempt, SyncFails, SyncCached, SyncCachedFails, SyncSpawn, SyncReplan,
           SyncPublish, WriteStamp, SyncEnds, SyncRetries
  <2>2. pc \in {"lock", "run"} \/ (pc = "idle" /\ sync # None)
    BY DEF Compile, Attempt, SyncFails, SyncCached, SyncCachedFails, SyncSpawn, SyncReplan,
           SyncPublish, WriteStamp
  <2> QED BY <2>1, <2>2 DEF TypeInv, CompilerInv, ControlType, Syncs
<1>2. UNCHANGED <<disk, past, inputs, pastInputs, source, generation, pending, active, peerLocks,
                  ownLock, shutdown>>
  BY <1>1 DEF unchangedBySync, files
<1>3. process' # "failed"
  BY DEF Compile, Attempt, SyncFails, SyncCached, SyncCachedFails, SyncSpawn, SyncReplan,
         SyncPublish, WriteStamp, SyncEnds, SyncRetries, QueueCalm, QuietInv
<1>4. source[sync.script] \in Contents /\ asked \in [Scripts -> Contents]
  BY <1>1 DEF TypeInv, ScriptType, HistoryType
<1>5. QueueCalm'
  <2>1. UNCHANGED Waiting
    BY <1>2 DEF Waiting
  <2>2. \A s \in Scripts : asked'[s] \in past[s]
    <3>1. UNCHANGED asked \/ (/\ source[sync.script] = disk[sync.script]
                              /\ asked' = [asked EXCEPT ![sync.script] = source[sync.script]])
      BY DEF Compile, Attempt, SyncFails, SyncCached, SyncCachedFails, SyncSpawn, SyncReplan,
             SyncPublish, WriteStamp, SyncEnds, SyncRetries, Saved, history
    <3> QED BY <1>1, <1>4, <3>1 DEF QueueCalm, FilesPast
  <2>3. FilesPast' /\ QueuePast' /\ JobPast'
    BY <1>2, <2>1, <2>2 DEF QueueCalm, FilesPast, QueuePast, JobPast, RequestPast
  <2>4. OwnLockInv' /\ QuietInv'
    BY <1>1, <1>2, <1>3 DEF OwnLockInv, QueueCalm, QuietInv
  <2>5. JobNewest'
    BY <1>2, <2>1 DEF QueueCalm, JobNewest, Current
  <2> QED BY <2>3, <2>4, <2>5 DEF QueueCalm
<1>6. UNCHANGED Waiting
  BY <1>2 DEF Waiting
<1>7. CASE Attempt
  <2>1. /\ sync' = [sync EXCEPT !.plan = Key(sync.script, source[sync.script])]
        /\ asked' = [asked EXCEPT ![sync.script] = source[sync.script]]
        /\ pc' = "lock" /\ UNCHANGED module
    BY <1>7 DEF Attempt
  <2>2. /\ sync'.script = sync.script /\ sync'.attempt = sync.attempt
        /\ sync'.plan = Key(sync.script, source[sync.script])
        /\ asked'[sync.script] = source[sync.script]
        /\ \A s \in Scripts : s # sync.script => asked'[s] = asked[s]
    BY <1>1, <1>4, <2>1 DEF Syncs
  <2>3. sync' # None
    <3>1. Key(sync.script, source[sync.script]) \in Keys
      BY <1>1, <1>4 DEF Key, Keys, TypeInv, FilesType
    <3> QED BY <1>1, <2>1, <3>1, ConstantsAssumption DEF Syncs
  <2>4. AttemptInv'
    BY <1>1, <1>2, <2>1, <2>2 DEF AttemptInv, Key
  <2>5. Asking'
    BY <2>1, <2>3 DEF Asking
  <2>6. ServedInv'
    BY <1>2, <1>6, <2>1, <2>2, <2>5 DEF ServedInv, Served, Coming
  <2> QED BY <1>5, <2>4, <2>6
<1>8. CASE SyncSpawn
  <2>1. pc = "lock" /\ pc' = "run" /\ UNCHANGED <<sync, asked, module>>
    BY <1>8 DEF SyncSpawn, history
  <2>2. AttemptInv' /\ Asking' /\ Asking
    BY <1>1, <1>2, <2>1 DEF AttemptInv, Asking
  <2>3. ServedInv'
    BY <1>2, <1>6, <2>1, <2>2 DEF ServedInv, Served, Coming
  <2> QED BY <1>5, <2>2, <2>3
<1>9. CASE SyncReplan
  <2>1. /\ pc = "run" /\ pc' = "idle" /\ UNCHANGED <<asked, module>>
        /\ sync' = [sync EXCEPT !.attempt = @ + 1, !.plan = None]
        /\ Key(sync.script, source[sync.script]) # sync.plan
    BY <1>9 DEF SyncReplan, SyncRetries, history
  <2>2. /\ sync'.script = sync.script /\ sync'.attempt = sync.attempt + 1
        /\ sync.attempt \in Nat
    BY <1>1, <2>1 DEF Syncs
  <2>3. sync.plan.inputs # inputs
    <3>1. sync.plan \in Keys
      BY <2>1 DEF TypeInv, CompilerInv
    <3> QED BY <2>1, <3>1 DEF Key, Keys, AttemptInv
  <2>4. sync' # None
    <3>1. sync.attempt < Attempts
      BY <2>1 DEF TypeInv, CompilerInv
    <3>2. sync.attempt + 1 \in 0..Attempts
      BY <2>2, <3>1 DEF Attempts
    <3> QED BY <1>1, <2>1, <3>2, ConstantsAssumption DEF Syncs
  <2>5. Asking /\ Asking'
    BY <1>1, <2>1, <2>2, <2>4 DEF Asking
  <2>6. AttemptInv'
    BY <1>1, <1>2, <2>1, <2>2, <2>3, <2>5 DEF AttemptInv
  <2>7. ServedInv'
    BY <1>2, <1>6, <2>1, <2>2, <2>5 DEF ServedInv, Served, Coming
  <2> QED BY <1>5, <2>6, <2>7
<1>10. CASE SyncFails
  <2>1. /\ pc' = "idle" /\ sync' = None /\ UNCHANGED <<asked, module>>
    BY <1>10 DEF SyncFails, SyncEnds, history
  <2>2. AttemptInv' /\ ~Asking'
    BY <2>1 DEF AttemptInv, Asking
  <2>3. sync.attempt # Attempts
    <3>1. IsFiniteSet(pastInputs) /\ Cardinality(pastInputs) <= Cardinality(Inputs)
      BY FS_Subset DEF TypeInv, FilesType, FewInputs
    <3>2. Cardinality(pastInputs) \in Nat /\ Cardinality(Inputs) \in Nat
      BY <3>1, FS_CardinalityType DEF FewInputs
    <3> QED BY <1>1, <3>1, <3>2 DEF FewInputs, AttemptInv, Attempts
  <2>4. source[sync.script] # disk[sync.script]
    BY <1>10, <2>3 DEF SyncFails, Saved, Fault, May, QueueCalm, QuietInv
  <2>5. ServedInv'
    BY <1>1, <1>2, <1>6, <2>1, <2>2, <2>4 DEF ServedInv, Served, Coming, AttemptInv
  <2> QED BY <1>5, <2>2, <2>5
<1>11. CASE SyncCached \/ SyncPublish
  <2>1. /\ pc \in {"lock", "run"} /\ pc' = "idle" /\ sync' = None /\ UNCHANGED asked
        /\ module' = [module EXCEPT ![sync.script] = sync.plan]
    BY <1>11 DEF SyncCached, SyncPublish, WriteStamp, Publish, SyncEnds, history
  <2>2. AttemptInv' /\ ~Asking' /\ Asking
    BY <1>1, <2>1 DEF AttemptInv, Asking
  <2>3. /\ sync.plan \in Keys /\ sync.plan.source = asked[sync.script]
    BY <2>1, <2>2 DEF TypeInv, CompilerInv, AttemptInv
  <2>4. ASSUME NEW s \in Scripts, s = sync.script, asked[s] = disk[s] PROVE Served(s)'
    <3>1. module'[s] = sync.plan
      BY <1>1, <2>1, <2>4 DEF TypeInv, ScriptType
    <3> QED BY <1>2, <2>3, <2>4, <3>1, ConstantsAssumption DEF Served
  <2>5. ASSUME NEW s \in Scripts, s # sync.script, Served(s) \/ Coming(s)
        PROVE  Served(s)' \/ Coming(s)'
    BY <1>1, <1>2, <1>6, <2>1, <2>5 DEF Served, Coming, TypeInv, ScriptType
  <2>6. ServedInv'
    BY <1>2, <2>1, <2>4, <2>5 DEF ServedInv
  <2> QED BY <1>5, <2>2, <2>6
<1>12. ~SyncCachedFails
  BY DEF SyncCachedFails, Fault, May
<1> QED BY <1>7, <1>8, <1>9, <1>10, <1>11, <1>12 DEF Compile

\* After queue_compile() each script that wants a request has it in the deque,
\* and the requests of the others are what they were.
LEMMA QueueWaiting ==
    ASSUME TypeInv, NEW S \in SUBSET Scripts, NEW text \in [Scripts -> Contents],
           Queue(S, text)
    PROVE  /\ \A r \in Waiting' :
                 IF r.script \in Wants(S, text) THEN r = NewRequest(r.script, text) ELSE r \in Waiting
           /\ \A r \in Waiting : r.script \notin Wants(S, text) => r \in Waiting'
           /\ \A s \in Wants(S, text) : \E r \in Waiting' : r.script = s
<1> DEFINE wants == Wants(S, text)
           fresh == Fresh(S, text)
           n == Len(pending)
<1>1. PICK m \in Nat : \E order \in [1..m -> fresh] : Replaces(S, text, m, order)
  BY QueueShape
<1>2. PICK order \in [1..m -> fresh] : Replaces(S, text, m, order)
  BY <1>1
<1>3. /\ DOMAIN pending' = 1..(n + m)
      /\ \A i \in 1..n : pending'[i] = IF pending[i].script \in wants
                           THEN NewRequest(pending[i].script, text) ELSE pending[i]
      /\ \A i \in 1..m : pending'[n + i] = NewRequest(order[i], text)
      /\ \A s \in fresh : \E i \in 1..m : order[i] = s
      /\ \A i \in 1..m : order[i] \in fresh
  BY <1>2 DEF Replaces
<1>4. /\ DOMAIN pending = 1..n /\ n \in Nat /\ m \in Nat
      /\ \A i \in 1..n : i \in 1..(n + m)
      /\ \A i \in 1..m : n + i \in 1..(n + m)
  BY DEF TypeInv, QueueType
<1>5. /\ \A s : NewRequest(s, text).script = s
      /\ fresh \subseteq wants
      /\ \A s \in wants : s \in fresh \/ \E i \in 1..n : pending[i].script = s
  BY <1>4 DEF NewRequest, Request, Fresh, Queued
<1> HIDE DEF wants, fresh, n
<1>6. \A i \in 1..(n + m) : i \in 1..n \/ \E k \in 1..m : i = n + k
  <2> SUFFICES ASSUME NEW i \in 1..(n + m), i \notin 1..n PROVE i - n \in 1..m /\ i = n + (i - n)
    OBVIOUS
  <2> QED BY <1>4
<1>7. ASSUME NEW r \in Waiting'
      PROVE  IF r.script \in wants THEN r = NewRequest(r.script, text) ELSE r \in Waiting
  <2>1. PICK i \in 1..(n + m) : r = pending'[i]
    BY <1>3 DEF Waiting
  <2>2. CASE i \in 1..n
    <3>1. pending[i] \in Waiting
      BY <1>4, <2>2 DEF Waiting
    <3>2. r = IF pending[i].script \in wants THEN NewRequest(pending[i].script, text)
                                             ELSE pending[i]
      BY <1>3, <2>1, <2>2
    <3> QED BY <1>5, <3>1, <3>2
  <2>3. ASSUME NEW k \in 1..m, i = n + k
        PROVE  r.script \in wants /\ r = NewRequest(r.script, text)
    BY <1>3, <1>5, <2>1, <2>3
  <2> QED BY <1>6, <2>1, <2>2, <2>3
<1>8. ASSUME NEW r \in Waiting, r.script \notin wants PROVE r \in Waiting'
  <2>1. PICK i \in 1..n : r = pending[i]
    BY <1>4 DEF Waiting
  <2>2. pending'[i] = r /\ i \in DOMAIN pending'
    BY <1>3, <1>4, <1>8, <2>1
  <2> QED BY <2>2 DEF Waiting
<1>9. ASSUME NEW s \in wants PROVE \E r \in Waiting' : r.script = s
  <2>1. CASE s \in fresh
    <3>1. PICK i \in 1..m : order[i] = s
      BY <1>3, <2>1
    <3>2. n + i \in DOMAIN pending' /\ pending'[n + i].script = s
      BY <1>3, <1>4, <1>5, <3>1
    <3> QED BY <3>2 DEF Waiting
  <2>2. ASSUME NEW i \in 1..n, pending[i].script = s PROVE \E r \in Waiting' : r.script = s
    <3>1. i \in DOMAIN pending' /\ pending'[i].script = s
      BY <1>3, <1>4, <1>5, <2>2
    <3> QED BY <3>1 DEF Waiting
  <2> QED BY <1>5, <2>1, <2>2
<1> QED BY <1>7, <1>8, <1>9 DEF wants

\* A save, or queue_all(), whose texts the files hold or never held: what is
\* asked for now is on its way, and what was asked for before is not in the file.
LEMMA QueueStepCalm ==
    ASSUME TypeInv, GenerationInv, calm, CalmBody, Idle,
           NEW S \in SUBSET Scripts, NEW text \in [Scripts -> Contents], Queue(S, text),
           UNCHANGED <<inputs, pastInputs, module, active, process, peerLocks, ownLock, pc, sync,
                       shutdown>>,
           \A s \in Scripts : /\ disk'[s] = IF s \in S THEN text[s] ELSE disk[s]
                              /\ past[s] \subseteq past'[s] /\ disk'[s] \in past'[s],
           \A s \in S : text[s] = disk[s] \/ text[s] \notin past[s]
    PROVE  CalmBody'
<1> USE DEF CalmBody
<1> DEFINE wants == Wants(S, text)
<1>1. /\ \A r \in Waiting' :
            IF r.script \in wants THEN r = NewRequest(r.script, text) ELSE r \in Waiting
      /\ \A r \in Waiting : r.script \notin wants => r \in Waiting'
      /\ \A s \in wants : \E r \in Waiting' : r.script = s
  BY QueueWaiting
<1>2. /\ pc = "idle" /\ sync = None /\ ownLock = None /\ ~shutdown
      /\ wants \subseteq S
      /\ \A s \in Scripts : asked'[s] = IF s \in S THEN text[s] ELSE asked[s]
      /\ \A s \in Scripts \ wants : generation'[s] = generation[s]
  BY DEF Idle, TypeInv, CompilerInv, Queue, Wants
<1>3. \A s : /\ NewRequest(s, text).source = text[s] /\ NewRequest(s, text).prepared = None
             /\ NewRequest(s, text).script = s
  BY DEF NewRequest, Request
<1>4. \A s \in S : s \notin wants <=> Wanted(s, text[s])
  BY DEF Wants
<1>5. \A r \in Waiting : r.script \in Scripts
  BY WaitingType DEF TypeInv, QueueType
<1>6. active # None => active.request.script \in Scripts
  BY DEF TypeInv, QueueType, Jobs, Requests
<1> HIDE DEF wants
<1>7. FilesPast'
  BY <1>2 DEF QueueCalm, FilesPast
<1>8. QueuePast'
  <2> SUFFICES ASSUME NEW r \in Waiting' PROVE RequestPast(r)'
    BY DEF QueuePast
  <2>1. CASE r.script \in wants
    <3>1. r.source = text[r.script] /\ r.prepared = None /\ r.script \in S
      BY <1>1, <1>2, <1>3, <2>1
    <3> QED BY <3>1 DEF RequestPast
  <2>2. CASE r.script \notin wants
    BY <1>1, <1>5, <2>2 DEF QueueCalm, QueuePast, RequestPast
  <2> QED BY <2>1, <2>2
<1>9. JobPast' /\ OwnLockInv' /\ QuietInv' /\ AttemptInv'
  BY <1>2, <1>6 DEF QueueCalm, JobPast, RequestPast, OwnLockInv, QuietInv, AttemptInv, Asking
<1>10. JobNewest'
  <2> SUFFICES ASSUME active # None
               PROVE  LET j == active.request IN
                      /\ j.source = disk'[j.script] => j.generation = generation'[j.script]
                      /\ \A r \in Waiting' : r.script = j.script => r.source # j.source
    BY DEF JobNewest, Current
  <2> DEFINE j == active.request
  <2>1. /\ j.source \in past[j.script] /\ j.script \in Scripts
        /\ j.source = disk[j.script] => j.generation = generation[j.script]
        /\ \A r \in Waiting : r.script = j.script => r.source # j.source
    BY <1>6 DEF QueueCalm, JobPast, RequestPast, JobNewest, Current
  <2>2. j.script \in wants => j.source # text[j.script]
    BY <1>2, <1>4 DEF Wanted
  <2>3. ASSUME j.source = disk'[j.script] PROVE j.generation = generation'[j.script]
    <3>1. j.source = disk[j.script]
      BY <2>1, <2>3
    <3>2. j.script \notin wants
      BY <1>2, <2>1, <2>2, <2>3
    <3> QED BY <1>2, <2>1, <3>1, <3>2
  <2>4. ASSUME NEW r \in Waiting', r.script = j.script PROVE r.source # j.source
    BY <1>1, <1>3, <2>1, <2>2, <2>4
  <2> QED BY <2>3, <2>4
<1>11. ServedInv'
  <2> SUFFICES ASSUME NEW s \in Scripts, asked'[s] = disk'[s] PROVE Served(s)' \/ Coming(s)'
    BY DEF ServedInv
  <2>1. CASE s \in wants
    <3>1. PICK r \in Waiting' : r.script = s
      BY <1>1, <2>1
    <3>2. r.source = disk'[s]
      BY <1>1, <1>2, <1>3, <2>1, <3>1
    <3> QED BY <3>1, <3>2 DEF Coming
  <2>2. CASE s \in S \ wants
    <3>1. Wanted(s, text[s]) /\ disk'[s] = text[s]
      BY <1>4, <2>2
    <3>2. CASE active # None /\ active.request.script = s /\ active.request.source = text[s]
      BY <3>1, <3>2 DEF Coming
    <3>3. ASSUME NEW i \in DOMAIN pending, pending[i].script = s, pending[i].source = text[s]
          PROVE  Coming(s)'
      <4>1. pending[i] \in Waiting'
        BY <1>1, <2>2, <3>3 DEF Waiting
      <4> QED BY <3>1, <3>3, <4>1 DEF Coming
    <3> QED BY <3>1, <3>2, <3>3 DEF Wanted
  <2>3. CASE s \notin S
    <3>1. asked[s] = disk[s] /\ disk'[s] = disk[s]
      BY <1>2, <2>3
    <3>2. Served(s) \/ Coming(s)
      BY <1>2, <3>1 DEF ServedInv
    <3>3. CASE Served(s)
      BY <3>1, <3>3 DEF Served
    <3>4. CASE Coming(s)
      BY <1>1, <1>2, <2>3, <3>1, <3>4 DEF Coming, Asking
    <3> QED BY <3>2, <3>3, <3>4
  <2> QED BY <2>1, <2>2, <2>3
<1> QED BY <1>7, <1>8, <1>9, <1>10, <1>11 DEF QueueCalm

\* What the editor calls.
LEMMA EditorCalm ==
    ASSUME TypeInv, GenerationInv, calm, CalmBody, Editor, FewInputs PROVE CalmBody'
<1> USE DEF CalmBody
<1>1. 0 < Cardinality(pastInputs)
  <2>1. IsFiniteSet(pastInputs) /\ inputs \in pastInputs
    BY FS_Subset DEF TypeInv, FilesType, FewInputs, QueueCalm, FilesPast
  <2> QED BY <2>1, FS_EmptySet, FS_CardinalityType
<1>2. ASSUME NEW s \in Scripts, NEW text \in Contents, Edit(s, text) PROVE CalmBody'
  <2>1. AttemptInv' /\ ~Asking
    BY <1>2 DEF Edit, Idle, control, AttemptInv, Asking
  <2> QED BY <1>2, <2>1, CalmKept DEF Edit, files, queue, cache, control, history,
             CalmBody, QueueCalm, QuietInv
<1>3. ASSUME NEW s \in Scripts, Reload(s) PROVE CalmBody'
  <2>1. sync'.attempt = 0 /\ sync'.script = s /\ pc = "idle" /\ pc' = "idle" /\ sync = None
    BY <1>3 DEF Reload, NewSync, Idle
  <2>2. UNCHANGED <<files, script, queue, cache, ownLock, shutdown, history>>
    BY <1>3 DEF Reload
  <2>3. AttemptInv' /\ ~Asking
    BY <1>1, <2>1, <2>2 DEF AttemptInv, Asking, files
  <2> QED BY <2>2, <2>3, CalmKept DEF files, script, queue, cache, history,
             CalmBody, QueueCalm, QuietInv
<1>4. CASE CompileAll
  <2>1. AttemptInv' /\ ~Asking
    BY <1>4 DEF CompileAll, Idle, AttemptInv, Asking
  <2> QED BY <1>4, <2>1, CalmKept DEF CompileAll, files, script, queue, cache, history,
             CalmBody, QueueCalm, QuietInv
<1>5. ASSUME NEW s \in Scripts, Save(s) PROVE CalmBody'
  <2>1. /\ Idle /\ Queue({s}, source) /\ source \in [Scripts -> Contents]
        /\ disk' = [disk EXCEPT ![s] = source[s]]
        /\ past' = [past EXCEPT ![s] = @ \cup {source[s]}]
        /\ UNCHANGED <<inputs, pastInputs, module, active, process, peerLocks, ownLock, pc, sync,
                       shutdown>>
    BY <1>5 DEF Save, Write, cache, control, TypeInv, ScriptType
  <2>2. source[s] = disk[s] \/ source[s] \notin past[s]
    BY <1>5 DEF Save, MayWrite, Reverts
  <2>3. \A t \in Scripts : /\ disk'[t] = IF t \in {s} THEN source[t] ELSE disk[t]
                           /\ past[t] \subseteq past'[t] /\ disk'[t] \in past'[t]
    BY <2>1 DEF TypeInv, FilesType, QueueCalm, FilesPast
  <2> QED BY <2>1, <2>2, <2>3, QueueStepCalm DEF CalmBody
<1>6. CASE QueueAll
  <2>1. /\ Idle /\ Queue(Scripts, disk) /\ disk \in [Scripts -> Contents]
        /\ UNCHANGED <<disk, past, inputs, pastInputs, module, active, process, peerLocks,
                       ownLock, pc, sync, shutdown>>
    BY <1>6 DEF QueueAll, files, cache, control, TypeInv, FilesType
  <2>2. \A t \in Scripts : /\ disk'[t] = IF t \in Scripts THEN disk[t] ELSE disk[t]
                           /\ past[t] \subseteq past'[t] /\ disk'[t] \in past'[t]
    BY <2>1 DEF QueueCalm, FilesPast
  <2> QED BY <2>1, <2>2, QueueStepCalm DEF CalmBody
<1>7. CASE Shutdown
  <2>1. /\ pc = "idle" /\ sync = None /\ ownLock = None
        /\ shutdown' /\ pending' = <<>> /\ active' = None /\ process' = "none"
        /\ UNCHANGED <<files, script, cache, ownLock, pc, sync, history>>
    BY <1>7 DEF Shutdown, Idle, TypeInv, CompilerInv
  <2>2. Waiting' = {}
    BY <2>1 DEF Waiting
  <2>3. FilesPast' /\ QueuePast' /\ JobPast' /\ JobNewest'
    BY <2>1, <2>2 DEF QueueCalm, FilesPast, QueuePast, JobPast, JobNewest, files, history
  <2>4. OwnLockInv' /\ QuietInv' /\ AttemptInv' /\ ServedInv'
    BY <2>1 DEF QueueCalm, OwnLockInv, QuietInv, AttemptInv, Asking, ServedInv, cache
  <2> QED BY <2>3, <2>4 DEF QueueCalm
<1> QED BY <1>2, <1>3, <1>4, <1>5, <1>6, <1>7 DEF Editor

\* What other programs do: a new text is nobody's request, and new inputs leave
\* compile() one more attempt than before.
LEMMA EnvironmentCalm ==
    ASSUME TypeInv, calm, CalmBody, Environment, FewInputs PROVE CalmBody'
<1> USE DEF CalmBody
<1>1. CASE ProcessExit
  <2>1. process' # "failed"
    BY <1>1 DEF ProcessExit, May, QueueCalm, JobPast
  <2>2. UNCHANGED <<files, script, pending, active, cache, control, history>>
    BY <1>1 DEF ProcessExit
  <2>3. AttemptInv' /\ (Asking <=> Asking')
    BY <2>2 DEF AttemptInv, Asking, files, script, control, history
  <2> QED BY <2>1, <2>2, <2>3, CalmKept DEF files, script, cache, control, history, CalmBody
<1>2. ASSUME NEW s \in Scripts, NEW text \in Contents, ExternalEdit(s, text) PROVE CalmBody'
  <2>1. /\ text # disk[s] /\ text \notin past[s]
        /\ disk' = [disk EXCEPT ![s] = text]
        /\ past' = [past EXCEPT ![s] = @ \cup {text}]
        /\ UNCHANGED <<inputs, pastInputs, calm, script, queue, cache, control, history>>
    BY <1>2 DEF ExternalEdit, MayWrite, Reverts, Write
  <2>2. /\ disk'[s] = text /\ \A t \in Scripts : t # s => disk'[t] = disk[t]
        /\ past'[s] = past[s] \cup {text} /\ \A t \in Scripts : past[t] \subseteq past'[t]
        /\ \A t \in Scripts : t # s => past'[t] = past[t]
    BY <2>1 DEF TypeInv, FilesType
  <2>3. UNCHANGED Waiting /\ \A r \in Waiting : r.script \in Scripts
    BY <2>1, WaitingType DEF Waiting, queue, TypeInv, QueueType
  <2>4. active # None => active.request.script \in Scripts
    BY DEF TypeInv, QueueType, Jobs, Requests
  <2>5. FilesPast' /\ QueuePast'
    BY <2>1, <2>2, <2>3 DEF QueueCalm, FilesPast, QueuePast, RequestPast, history
  <2>6. JobPast' /\ JobNewest'
    BY <2>1, <2>2, <2>3, <2>4 DEF QueueCalm, JobPast, RequestPast, JobNewest, Current, queue, script
  <2>7. OwnLockInv' /\ QuietInv' /\ AttemptInv'
    BY <2>1, <2>3 DEF QueueCalm, OwnLockInv, Key, QuietInv, AttemptInv, Asking,
       queue, cache, control, history, script
  <2>8. ServedInv'
    <3> SUFFICES ASSUME ~shutdown, NEW t \in Scripts, asked[t] = disk'[t]
                 PROVE  Served(t)' \/ Coming(t)'
      BY <2>1 DEF ServedInv, control, history
    <3>1. t # s
      BY <2>1, <2>2 DEF QueueCalm, FilesPast
    <3>2. Served(t) \/ Coming(t)
      BY <2>2, <3>1 DEF ServedInv
    <3> QED BY <2>1, <2>2, <2>3, <3>1, <3>2 DEF Served, Coming, Asking, script, queue, control
  <2> QED BY <2>5, <2>6, <2>7, <2>8 DEF QueueCalm
<1>3. ASSUME NEW i \in Inputs, ChangeInputs(i) PROVE CalmBody'
  <2>1. /\ i \notin pastInputs /\ inputs' = i /\ pastInputs' = pastInputs \cup {i}
        /\ UNCHANGED <<disk, past, calm, script, queue, cache, control, history>>
    BY <1>3 DEF ChangeInputs, Reverts
  <2>2. Cardinality(pastInputs') = Cardinality(pastInputs) + 1 /\ Cardinality(pastInputs) \in Nat
    <3>1. IsFiniteSet(pastInputs)
      BY FS_Subset DEF TypeInv, FilesType, FewInputs
    <3> QED BY <2>1, <3>1, FS_AddElement, FS_CardinalityType
  <2>3. UNCHANGED Waiting
    BY <2>1 DEF Waiting, queue
  <2>4. FilesPast' /\ QueuePast' /\ JobPast'
    BY <2>1, <2>3 DEF QueueCalm, FilesPast, QueuePast, JobPast, RequestPast, history, queue
  <2>5. JobNewest' /\ QuietInv'
    BY <2>1, <2>3 DEF QueueCalm, JobNewest, Current, QuietInv, queue, cache, script
  <2>6. OwnLockInv'
    BY <2>1, <2>3 DEF QueueCalm, OwnLockInv, Key, control
  <2>7. AttemptInv'
    <3>1. sync # None => sync.attempt \in Nat
      BY DEF TypeInv, ControlType, Syncs
    <3>2. pc \in {"lock", "run"} => sync # None
      BY DEF TypeInv, CompilerInv
    <3> QED BY <2>1, <2>2, <3>1, <3>2 DEF AttemptInv, Asking, control, history, script
  <2>8. ServedInv'
    BY <2>1, <2>3 DEF ServedInv, Served, Coming, Asking, script, queue, control, history
  <2> QED BY <2>4, <2>5, <2>6, <2>7, <2>8 DEF QueueCalm
<1>4. ASSUME NEW key \in Keys PROVE ~(PeerLock(key) \/ PeerUnlock(key))
  BY DEF PeerLock, PeerUnlock, QueueCalm, QuietInv
<1> QED BY <1>1, <1>2, <1>3, <1>4 DEF Environment

LEMMA CalmInit == ASSUME Init, FewInputs PROVE CalmInv
<1>1. PICK order \in Orders(Scripts) :
          pending = [i \in DOMAIN order |-> Request(order[i], FirstContent, 1)]
  BY DEF Init
<1>2. /\ order \in [1..Cardinality(Scripts) -> Scripts]
      /\ \A s \in Scripts : \E i \in 1..Cardinality(Scripts) : order[i] = s
  BY OrderOf
<1>3. Waiting = {Request(s, FirstContent, 1) : s \in Scripts}
  <2>1. ASSUME NEW r \in Waiting PROVE r \in {Request(s, FirstContent, 1) : s \in Scripts}
    BY <1>1, <1>2 DEF Waiting
  <2>2. ASSUME NEW s \in Scripts PROVE Request(s, FirstContent, 1) \in Waiting
    <3>1. PICK i \in 1..Cardinality(Scripts) : order[i] = s
      BY <1>2
    <3> QED BY <1>1, <1>2, <3>1 DEF Waiting
  <2> QED BY <2>1, <2>2
<1>4. /\ disk = [s \in Scripts |-> FirstContent] /\ past = [s \in Scripts |-> {FirstContent}]
      /\ asked = [s \in Scripts |-> FirstContent]
      /\ inputs = FirstInputs /\ pastInputs = {FirstInputs}
      /\ active = None /\ process = "none" /\ peerLocks = {} /\ ownLock = None /\ pc = "idle"
      /\ sync = None
  BY DEF Init
<1>5. FilesPast /\ QueuePast
  BY <1>3, <1>4 DEF FilesPast, QueuePast, RequestPast, Request
<1>6. ServedInv
  <2>1. ASSUME NEW s \in Scripts PROVE Coming(s)
    <3>1. Request(s, FirstContent, 1) \in Waiting
      BY <1>3
    <3> QED BY <1>4, <3>1 DEF Coming, Request
  <2> QED BY <2>1 DEF ServedInv
<1>7. JobPast /\ OwnLockInv /\ QuietInv /\ JobNewest /\ AttemptInv
  BY <1>4 DEF JobPast, OwnLockInv, QuietInv, JobNewest, AttemptInv, Asking
<1> QED BY <1>5, <1>6, <1>7 DEF CalmInv, CalmBody, QueueCalm

LEMMA CalmStep ==
    ASSUME FewInputs PROVE TypeInv /\ GenerationInv /\ CalmInv /\ [Next]_vars => CalmInv'
<1> SUFFICES ASSUME TypeInv, GenerationInv, CalmInv, [Next]_vars, calm' PROVE CalmBody'
  BY DEF CalmInv
<1>1. calm /\ CalmBody
  BY CalmFixed DEF CalmInv
<1>2. CASE Pump \/ PollReturn
  <2>1. /\ UNCHANGED <<files, script, queue, peerLocks, ownLock, sync, shutdown, history>>
        /\ pc \in {"idle", "poll"} /\ pc' \in {"pump", "idle"}
    BY <1>2 DEF Pump, PollReturn, unchangedByPoll, script, cache, history
  <2>2. AttemptInv' /\ (Asking <=> Asking')
    BY <1>1, <2>1 DEF CalmBody, AttemptInv, Asking, files, script, history
  <2> QED BY <1>1, <2>1, <2>2, CalmKept DEF files, script, queue, history,
             CalmBody, QueueCalm, QuietInv
<1>3. ~PollTimeout
  BY <1>1 DEF PollTimeout, May
<1>4. ASSUME NEW s \in Scripts, ReloadNext(s) PROVE CalmBody'
  <2>1. /\ sync'.attempt = 0 /\ sync'.script = s /\ pc = "idle" /\ pc' = "idle" /\ sync = None
        /\ UNCHANGED <<files, generation, module, valid, queue, cache, ownLock, shutdown, history>>
    BY <1>4 DEF ReloadNext, NewSync
  <2>2. 0 < Cardinality(pastInputs)
    <3>1. IsFiniteSet(pastInputs) /\ inputs \in pastInputs
      BY <1>1, FS_Subset DEF TypeInv, FilesType, FewInputs, CalmBody, QueueCalm, FilesPast
    <3> QED BY <3>1, FS_EmptySet, FS_CardinalityType
  <2>3. AttemptInv' /\ ~Asking
    BY <2>1, <2>2 DEF AttemptInv, Asking, files
  <2> QED BY <1>1, <2>1, <2>3, CalmKept DEF files, queue, cache, history,
             CalmBody, QueueCalm, QuietInv
<1>5. CASE MainThread
  BY <1>1, <1>2, <1>3, <1>4, <1>5, StartCalm, CompleteCalm, CompileCalm DEF MainThread
<1>6. CASE UNCHANGED vars
  <2>1. AttemptInv' /\ (Asking <=> Asking')
    BY <1>1, <1>6 DEF CalmBody, AttemptInv, Asking, vars, files, script, control, history
  <2> QED BY <1>1, <1>6, <2>1, CalmKept DEF vars, files, script, queue, cache, control, history,
             CalmBody, QueueCalm, QuietInv
<1> QED BY <1>1, <1>5, <1>6, EditorCalm, EnvironmentCalm DEF Next

\* While nothing fails, nobody else compiles and nothing returns to what it was,
\* no request is lost: when the queue is idle, every script whose newest request
\* is for its file's text runs a module of that text.  compile() gives up after
\* three attempts, hence at most three values of the inputs.
THEOREM NewestTheorem == ASSUME FewInputs PROVE Spec => []NewestWhenCalm
<1>1. TypeInv /\ CalmInv => NewestWhenCalm
  <2> SUFFICES ASSUME TypeInv, CalmInv, calm, Idle, ~Compiling,
                      NEW s \in Scripts, asked[s] = disk[s]
               PROVE  Served(s)
    BY DEF NewestWhenCalm, NewestRequestCompiles, Served
  <2>1. Waiting = {} /\ active = None
    BY WaitingType DEF Compiling, TypeInv, QueueType
  <2>2. ~Coming(s)
    BY <2>1 DEF Coming, Asking, Idle
  <2> QED BY <2>2 DEF CalmInv, CalmBody, ServedInv, Idle
<1>2. Init => CalmInv
  BY CalmInit
<1>3. TypeInv /\ GenerationInv /\ CalmInv /\ [Next]_vars => CalmInv'
  BY CalmStep
<1> QED BY <1>1, <1>2, <1>3, SafetyStep, PTL DEF Spec
===============================================================================
