------------------------------ MODULE GzScript ------------------------------
(***************************************************************************)
(* One script of src/gz_script.cpp with its native instances: modules are  *)
(* published to the script, instances pin the module they were created     *)
(* with, and in the editor a deferred callback migrates the instances to   *)
(* the newest module in batches.  Whatever of a module's code runs is on a *)
(* stack: the calls into an instance, but also its init, its deinit, and   *)
(* the init and deinit of a migration.  Code may publish, create, free and *)
(* call before it returns.                                                 *)
(*                                                                         *)
(* Modules are numbered in the order they are published; 0 is a null       *)
(* pointer.  Instances are the addresses of InstanceData objects, which    *)
(* are used again after a free.                                            *)
(***************************************************************************)
EXTENDS Integers, Sequences, FiniteSets, Functions

CONSTANTS
    Instances,
    MinBatch,       \* MIN_BATCH: instances migrated before the clock counts
    MayDetach,      \* whether code may free the instance it runs on
    MayReload,      \* whether the init or deinit of a next module's instance
                    \* may publish while the migration to that module runs it
    MaxModules,     \* bound on published modules
    MaxDepth        \* bound on nested code

ASSUME ConstantsAssumption ==
    /\ MayDetach \in BOOLEAN /\ MayReload \in BOOLEAN
    /\ MinBatch \in Nat \ {0}
    /\ MaxModules \in Nat /\ MaxDepth \in Nat \ {0}
    /\ IsFiniteSet(Instances)

VARIABLES
    inEditor,           \* Engine::is_editor_hint(), the same for a whole run
    module,             \* GzScript::module
    pinned,             \* [Instances -> InstanceData::module], 0 when free
    registered,         \* GzScript::instances
    pendingModule,      \* pending_module
    pendingRefresh,     \* pending_refresh
    scheduled,          \* refresh_call_scheduled
    deferred,           \* _apply_pending_refresh calls in the message queue
    snapshot,           \* pending_refresh_instances
    index,              \* refresh_index
    refreshing,         \* _apply_pending_refresh() is in its loop
    processed,          \* instances this batch has looked at, MinBatch at most
    stack,              \* code that runs, innermost last
    failed,             \* history: live instances that could not be migrated
    missed              \* history: live instances whose init was running when
                        \* the script's module was published

refresh == <<pendingModule, pendingRefresh, scheduled, deferred, snapshot, index>>
batch   == <<refreshing, processed>>
vars    == <<inEditor, module, pinned, registered, refresh, batch, stack, failed, missed>>

\* of a migration: the next module's init; its deinit, when a property cannot
\* be copied; the previous module's deinit; the handlers that are told of a new
\* property list
MigrationCode == {"upgrade", "discard", "retire", "notify"}
Code == {"init", "call", "deinit"} \cup MigrationCode
Frames == [code : Code, instance : Instances, module : 1..MaxModules]

Init ==
    /\ inEditor \in BOOLEAN
    /\ module = 0
    /\ pinned = [i \in Instances |-> 0]
    /\ registered = {}
    /\ pendingModule = 0
    /\ pendingRefresh = FALSE
    /\ scheduled = FALSE
    /\ deferred = 0
    /\ snapshot = <<>>
    /\ index = 0
    /\ refreshing = FALSE
    /\ processed = 0
    /\ stack = <<>>
    /\ failed = {}
    /\ missed = {}

-----------------------------------------------------------------------------

Live == {i \in Instances : pinned[i] # 0}

\* instances with code of this kind on the stack
Within(c, i) == \E n \in DOMAIN stack : stack[n].code = c /\ stack[n].instance = i

\* the thread is in the loop of _apply_pending_refresh(), not in code it calls
Looping == refreshing /\ stack = <<>>

Enter(c, i, m) == stack' = Append(stack, [code |-> c, instance |-> i, module |-> m])

\* the innermost code is of this kind
Innermost(c) == stack # <<>> /\ stack[Len(stack)].code = c
Current == stack[Len(stack)].instance
Leave == stack' = SubSeq(stack, 1, Len(stack) - 1)

\* the sequences that hold every member of S once
Orders(S) == Bijection(1..Cardinality(S), S)

\* shared_ptr: a library is open while the script, a migration or an instance
\* refers to its module; of the code on the stack only the deinit of a previous
\* module has a reference of its own
Loaded(m) ==
    \/ m \in {module, pendingModule}
    \/ \E i \in Instances : pinned[i] = m
    \/ \E n \in DOMAIN stack : stack[n].code = "retire" /\ stack[n].module = m

\* _schedule_pending_refresh()
Schedule ==
    /\ scheduled' = TRUE
    /\ deferred' = IF scheduled THEN deferred ELSE deferred + 1

\* mutant: the instances are moved to the new module at once
PublishMovesInstances ==
    /\ ~inEditor /\ module < MaxModules
    /\ module' = module + 1
    /\ pinned' = [i \in Instances |-> IF i \in Live THEN module + 1 ELSE 0]
    /\ UNCHANGED <<inEditor, registered, refresh, batch, stack, failed, missed>>

\* publish_module() outside the editor: instances keep what they pinned
PublishInGame ==
    /\ ~inEditor /\ module < MaxModules
    /\ module' = module + 1
    /\ UNCHANGED <<inEditor, pinned, registered, refresh, batch, stack, failed, missed>>

\* mutant: the migration starts where the previous one had got to
PublishKeepsIndex ==
    /\ inEditor /\ ~Looping /\ module < MaxModules
    /\ \A i \in Instances : Within("upgrade", i) \/ Within("discard", i) => MayReload
    /\ module' = module + 1
    /\ \E order \in Orders(registered) :
          /\ snapshot' = order
          /\ index' = IF index <= Len(order) THEN index ELSE Len(order)
    /\ failed' = {}
    /\ missed' = {i \in Live : Within("init", i)}
    /\ pendingRefresh' = (registered # {})
    /\ IF registered = {}
       THEN pendingModule' = 0 /\ UNCHANGED <<scheduled, deferred>>
       ELSE pendingModule' = module + 1 /\ Schedule
    /\ UNCHANGED <<inEditor, pinned, registered, batch, stack>>

\* mutant: the editor migrates without waiting for running calls to return
PublishMigratesNow ==
    /\ inEditor /\ ~Looping /\ module < MaxModules
    /\ module' = module + 1
    /\ pinned' = [i \in Instances |-> IF i \in Live THEN module + 1 ELSE 0]
    /\ failed' = {} /\ missed' = {}
    /\ UNCHANGED <<inEditor, registered, refresh, batch, stack>>

\* publish_module() in the editor: the script has the module at once, and a
\* migration of all registered instances replaces one that is still going on
PublishInEditor ==
    /\ inEditor /\ ~Looping /\ module < MaxModules
    /\ \A i \in Instances : Within("upgrade", i) \/ Within("discard", i) => MayReload
    /\ module' = module + 1
    /\ \E order \in Orders(registered) : snapshot' = order
    /\ index' = 0
    /\ failed' = {}
    /\ missed' = {i \in Live : Within("init", i)}
    /\ pendingRefresh' = (registered # {})
    /\ IF registered = {}
       THEN pendingModule' = 0 /\ UNCHANGED <<scheduled, deferred>>
       ELSE pendingModule' = module + 1 /\ Schedule
    /\ UNCHANGED <<inEditor, pinned, registered, batch, stack>>

-----------------------------------------------------------------------------
(* _apply_pending_refresh()                                                *)

\* mutant: a superfluous callback leaves refresh_call_scheduled set
ApplyNothingKeepsFlag ==
    /\ deferred > 0 /\ stack = <<>> /\ ~refreshing
    /\ ~pendingRefresh \/ pendingModule = 0
    /\ deferred' = deferred - 1
    /\ UNCHANGED <<inEditor, module, pinned, registered, pendingModule, pendingRefresh, scheduled, snapshot, index, batch, stack, failed, missed>>

\* the deferred callback finds that a publish has made it superfluous
ApplyNothing ==
    /\ deferred > 0 /\ stack = <<>> /\ ~refreshing
    /\ ~pendingRefresh \/ pendingModule = 0
    /\ scheduled' = FALSE
    /\ deferred' = deferred - 1
    /\ UNCHANGED <<inEditor, module, pinned, registered, pendingModule, pendingRefresh, snapshot, index, batch, stack, failed, missed>>

\* the deferred callback enters its loop
ApplyPendingRefresh ==
    /\ deferred > 0 /\ stack = <<>> /\ ~refreshing
    /\ pendingRefresh /\ pendingModule # 0
    /\ scheduled' = FALSE
    /\ deferred' = deferred - 1
    /\ refreshing' = TRUE
    /\ UNCHANGED <<inEditor, module, pinned, registered, pendingModule, pendingRefresh, snapshot, index, processed, stack, failed, missed>>

\* places in the snapshot the loop will not pass over
Todo == {n \in (index + 1)..Len(snapshot) :
            snapshot[n] \in registered /\ pinned[snapshot[n]] # pendingModule}

\* the loop comes to an instance: migrate_editor_instance() runs the init of
\* the next module
Upgrade ==
    /\ Looping
    /\ \E n \in Todo :
          /\ \A k \in Todo : n <= k
          /\ index' = n
          /\ Enter("upgrade", snapshot[n], pendingModule)
    /\ UNCHANGED <<inEditor, module, pinned, registered, pendingModule, pendingRefresh, scheduled, deferred, snapshot, batch, failed, missed>>

\* mutant: nobody schedules the next batch
BatchEndsUnscheduled ==
    /\ Looping
    /\ processed = MinBatch /\ index < Len(snapshot)
    /\ refreshing' = FALSE /\ processed' = 0
    /\ UNCHANGED <<inEditor, module, pinned, registered, refresh, stack, failed, missed>>

\* the time is up and there is more to do: the callback schedules itself again
BatchEnds ==
    /\ Looping
    /\ processed = MinBatch /\ index < Len(snapshot)
    /\ Schedule
    /\ refreshing' = FALSE /\ processed' = 0
    /\ UNCHANGED <<inEditor, module, pinned, registered, pendingModule, pendingRefresh, snapshot, index, stack, failed, missed>>

\* everything was looked at: release the module and the snapshot
RefreshEnds ==
    /\ Looping /\ Todo = {}
    /\ pendingRefresh' = FALSE
    /\ pendingModule' = 0
    /\ snapshot' = <<>>
    /\ index' = 0
    /\ refreshing' = FALSE /\ processed' = 0
    /\ UNCHANGED <<inEditor, module, pinned, registered, scheduled, deferred, stack, failed, missed>>

LoopStep == Upgrade \/ BatchEnds \/ RefreshEnds

Counts == processed' = IF processed < MinBatch THEN processed + 1 ELSE processed

\* the next module's init returns: it has failed, or a property cannot be
\* copied and its deinit runs, or the instance has the next module and the
\* deinit of the previous one runs.  The next module is a reference to
\* pending_module, whatever that is by now; without it, or without the
\* instance, there is nothing left to go on with.
UpgradeReturns ==
    /\ Len(stack) = 1 /\ Innermost("upgrade")
    /\ \/ /\ stack' = <<>>
          /\ failed' = failed \cup {Current}
          /\ Counts
          /\ UNCHANGED pinned
       \/ /\ stack' = <<[stack[1] EXCEPT !.code = "discard"]>>
          /\ UNCHANGED <<pinned, processed, failed>>
       \/ /\ pinned[Current] # 0 /\ pendingModule # 0
          /\ pinned' = [pinned EXCEPT ![Current] = pendingModule]
          /\ stack' = <<[code |-> "retire", instance |-> Current, module |-> pinned[Current]]>>
          /\ UNCHANGED <<processed, failed>>
    /\ UNCHANGED <<inEditor, module, registered, refresh, refreshing, missed>>

\* the instance that could not be given the former's properties is gone
DiscardReturns ==
    /\ Len(stack) = 1 /\ Innermost("discard")
    /\ stack' = <<>>
    /\ failed' = failed \cup {Current}
    /\ Counts
    /\ UNCHANGED <<inEditor, module, pinned, registered, refresh, refreshing, missed>>

\* the migration of an instance ends; its owner may have to be told
RetireReturns ==
    /\ Len(stack) = 1 /\ Innermost("retire")
    /\ stack' \in {<<>>, <<[stack[1] EXCEPT !.code = "notify"]>>}
    /\ Counts
    /\ UNCHANGED <<inEditor, module, pinned, registered, refresh, refreshing, failed, missed>>

\* notify_property_list_changed() returns
NotifyReturns ==
    /\ Len(stack) = 1 /\ Innermost("notify")
    /\ stack' = <<>>
    /\ UNCHANGED <<inEditor, module, pinned, registered, refresh, batch, failed, missed>>

-----------------------------------------------------------------------------
(* Instances                                                               *)

\* _instance_create() reads the script's module and runs its init
InstanceCreate(i) ==
    /\ ~Looping /\ Len(stack) < MaxDepth
    /\ module # 0 /\ pinned[i] = 0
    /\ pinned' = [pinned EXCEPT ![i] = module]
    /\ Enter("init", i, module)
    /\ UNCHANGED <<inEditor, module, registered, refresh, batch, failed, missed>>

\* the init returns: only now is the instance registered, if it has not failed
CreateReturns ==
    /\ Innermost("init")
    /\ \/ /\ registered' = registered \cup {Current}
          /\ UNCHANGED <<pinned, missed>>
       \/ /\ pinned' = [pinned EXCEPT ![Current] = 0]
          /\ missed' = missed \ {Current}
          /\ UNCHANGED registered
    /\ Leave
    /\ UNCHANGED <<inEditor, module, refresh, batch, failed>>

\* code that uses the instance afterwards
Running(i) == \E n \in DOMAIN stack : stack[n].instance = i /\ stack[n].code # "notify"

\* instance_free(): the owner is freed or gets another script.  The module's
\* deinit runs when the instance is no longer registered.
InstanceFree(i) ==
    /\ ~Looping /\ Len(stack) < MaxDepth
    /\ i \in registered
    /\ Running(i) => MayDetach
    /\ registered' = registered \ {i}
    /\ failed' = failed \ {i} /\ missed' = missed \ {i}
    /\ Enter("deinit", i, pinned[i])
    /\ UNCHANGED <<inEditor, module, pinned, refresh, batch>>

\* the InstanceData is deleted, and lets its module go
FreeReturns ==
    /\ Innermost("deinit")
    /\ pinned' = [pinned EXCEPT ![Current] = 0]
    /\ Leave
    /\ UNCHANGED <<inEditor, module, registered, refresh, batch, failed, missed>>

\* instance_call() or instance_notification() enters the module's code; the
\* engine has the instance from the end of its creation to the end of its free
InstanceCall(i) ==
    /\ ~Looping /\ Len(stack) < MaxDepth
    /\ pinned[i] # 0 /\ ~Within("init", i)
    /\ Enter("call", i, pinned[i])
    /\ UNCHANGED <<inEditor, module, pinned, registered, refresh, batch, failed, missed>>

\* the code returns; sync_retained_objects() uses the InstanceData again
CallReturns ==
    /\ Innermost("call")
    /\ Leave
    /\ UNCHANGED <<inEditor, module, pinned, registered, refresh, batch, failed, missed>>

Return ==
    \/ CallReturns \/ CreateReturns \/ FreeReturns
    \/ UpgradeReturns \/ DiscardReturns \/ RetireReturns \/ NotifyReturns

Next ==
    \/ PublishInGame \/ PublishInEditor
    \/ ApplyPendingRefresh \/ ApplyNothing \/ LoopStep
    \/ \E i \in Instances : InstanceCreate(i) \/ InstanceFree(i) \/ InstanceCall(i)
    \/ Return

\* all code returns some time, whatever calls it makes itself; the main loop
\* flushes the message queue every frame, when no code is on the stack; and
\* nothing keeps the callback's loop from going on
Fairness ==
    /\ \A n \in 1..MaxDepth : SF_vars(Len(stack) = n /\ Return)
    /\ SF_vars(ApplyPendingRefresh \/ ApplyNothing)
    /\ WF_vars(LoopStep)

Spec == Init /\ [][Next]_vars /\ Fairness

-----------------------------------------------------------------------------
(* Properties                                                              *)

\* The variables have their types.
TypeOK ==
    /\ inEditor \in BOOLEAN
    /\ module \in 0..MaxModules
    /\ pinned \in [Instances -> 0..MaxModules]
    /\ registered \subseteq Instances
    /\ pendingModule \in 0..MaxModules
    /\ pendingRefresh \in BOOLEAN /\ scheduled \in BOOLEAN
    /\ deferred \in Nat
    /\ snapshot \in Seq(Instances)
    /\ index \in 0..Len(snapshot)
    /\ refreshing \in BOOLEAN /\ processed \in 0..MinBatch
    /\ stack \in Seq(Frames)
    /\ failed \subseteq Instances /\ missed \subseteq Instances

\* No wakeup is lost and none is doubled: while a migration is pending its
\* callback runs, or exactly one is deferred that will go on with it, and the
\* module it migrates to is the script's own (refresh_call_scheduled is cleared
\* when the callback starts, set when it is queued, also by code that the
\* callback runs).
RefreshScheduled ==
    /\ scheduled => deferred = 1
    /\ ~scheduled => deferred = 0
    /\ pendingRefresh => (scheduled \/ refreshing) /\ pendingModule = module
    /\ pendingModule # 0 => pendingRefresh

\* In the editor no registered instance is forgotten: it runs the script's
\* module, its migration failed, goes on or has still to come.  Excepted is one
\* whose init was running when the module was published: it was not registered
\* when the snapshot was taken, and keeps its old module until the next publish.
NoneForgotten ==
    inEditor => \A i \in registered :
        \/ pinned[i] = module
        \/ i \in failed \cup missed
        \/ Within("upgrade", i) \/ Within("discard", i)
        \/ pendingRefresh /\ \E n \in (index + 1)..Len(snapshot) : snapshot[n] = i

\* Code never loses what it runs on, whatever it published, created or freed:
\* its InstanceData exists and still pins the module whose code is on the
\* stack; a migration still has the next module whose init or deinit it runs.
CallsPinned ==
    \A n \in DOMAIN stack :
        /\ stack[n].code \in {"init", "call", "deinit"} =>
              pinned[stack[n].instance] = stack[n].module
        /\ stack[n].code \in {"upgrade", "discard"} => pendingModule = stack[n].module

\* "a compiled native module must remain loaded for as long as any script
\* instance can execute code from it": the code on the stack is loaded.
ModuleLoadedWhileRunning ==
    \A n \in DOMAIN stack : stack[n].code # "notify" => Loaded(stack[n].module)

\* "old instances keep the retired module until destroyed": outside the
\* editor no publish moves a live instance to another module.
InstancesKeepTheirModule ==
    [][~inEditor => \A i \in Instances :
           pinned[i] # 0 => pinned'[i] \in {0, pinned[i]}]_vars

\* A migration ends: the pinned old modules are let go, however often the
\* script is published and however long the batches take.
MigrationEnds == []<>~pendingRefresh

=============================================================================
