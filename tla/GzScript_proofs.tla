---------------------------- MODULE GzScript_proofs ----------------------------
(***************************************************************************)
(* Proofs about GzScript for any number of instances, modules and nested   *)
(* calls, and any batch size, and about GzScriptExports: what the editor   *)
(* shows of the exports, for any number of placeholders.                   *)
(***************************************************************************)
EXTENDS GzScriptExports, FiniteSetTheorems, SequenceTheorems, TLAPS

\* A snapshot of a set of instances holds each of them.
LEMMA Snapshot ==
    ASSUME NEW S \in SUBSET Instances, NEW order \in Orders(S)
    PROVE  /\ order \in Seq(Instances) /\ Len(order) \in Nat
           /\ \A i \in S : \E n \in 1..Len(order) : order[n] = i
           /\ S = {} => Len(order) = 0
<1>1. IsFiniteSet(S)
  BY ConstantsAssumption, FS_Subset
<1>2. Cardinality(S) \in Nat /\ (S = {} => Cardinality(S) = 0)
  BY <1>1, FS_CardinalityType, FS_EmptySet
<1>3. /\ order \in [1..Cardinality(S) -> S]
      /\ \A i \in S : \E n \in 1..Cardinality(S) : order[n] = i
  BY DEF Orders, Bijection, Injection, Surjection
<1> QED BY <1>2, <1>3

-----------------------------------------------------------------------------
(* Code on the stack                                                       *)

StackType == stack \in Seq(Frames)

\* What lies on the stack is of an instance and a module.
LEMMA FrameTypes ==
    ASSUME StackType, NEW n \in DOMAIN stack
    PROVE  /\ stack[n].code \in Code /\ stack[n].instance \in Instances
           /\ stack[n].module \in 1..MaxModules
<1>1. stack[n] \in Frames
  BY DEF StackType
<1> QED BY <1>1 DEF Frames

\* Code that is entered comes to lie on the code that runs.
LEMMA Entered ==
    ASSUME StackType, NEW c \in Code, NEW i \in Instances, NEW m \in 1..MaxModules, Enter(c, i, m)
    PROVE  /\ StackType' /\ stack' # <<>>
           /\ DOMAIN stack = 1..Len(stack) /\ DOMAIN stack' = 1..(Len(stack) + 1)
           /\ Len(stack) \in Nat /\ Len(stack') = Len(stack) + 1
           /\ \A n \in DOMAIN stack : stack'[n] = stack[n]
           /\ stack'[Len(stack) + 1].code = c /\ stack'[Len(stack) + 1].instance = i
           /\ stack'[Len(stack) + 1].module = m
           /\ \A n \in DOMAIN stack' : n \in DOMAIN stack \/ n = Len(stack) + 1
<1> DEFINE frame == [code |-> c, instance |-> i, module |-> m]
<1>1. frame \in Frames /\ stack' = Append(stack, frame)
  BY DEF Frames, Enter
<1>4. frame.code = c /\ frame.instance = i /\ frame.module = m
  OBVIOUS
<1> HIDE DEF frame
<1>2. /\ stack' \in Seq(Frames) /\ Len(stack') = Len(stack) + 1 /\ Len(stack) \in Nat
      /\ \A n \in 1..Len(stack) : stack'[n] = stack[n]
      /\ stack'[Len(stack) + 1] = frame
  BY <1>1 DEF StackType
<1>3. stack' # <<>>
  BY <1>2
<1> QED BY <1>2, <1>3, <1>4 DEF StackType

\* Code that returns leaves the rest of the stack as it is.
LEMMA Left ==
    ASSUME StackType, stack # <<>>, Leave
    PROVE  /\ StackType'
           /\ DOMAIN stack = 1..Len(stack) /\ DOMAIN stack' = 1..(Len(stack) - 1)
           /\ Len(stack) \in Nat \ {0} /\ Len(stack') = Len(stack) - 1
           /\ \A n \in DOMAIN stack' : stack'[n] = stack[n]
<1>1. Len(stack) \in Nat \ {0}
  BY DEF StackType
<1>2. \A n \in 1..(Len(stack) - 1) : stack[n] \in Frames
  BY <1>1 DEF StackType
<1>3. /\ stack' \in Seq(Frames)
      /\ Len(stack') = IF 1 <= Len(stack) - 1 THEN Len(stack) - 1 - 1 + 1 ELSE 0
      /\ \A n \in 1..(Len(stack) - 1 - 1 + 1) : stack'[n] = stack[1 + n - 1]
  BY <1>1, <1>2, SubSeqProperties DEF Leave
<1>4. Len(stack') = Len(stack) - 1
  <2>1. \A k \in Nat \ {0} : (IF 1 <= k - 1 THEN k - 1 - 1 + 1 ELSE 0) = k - 1
    OBVIOUS
  <2> QED BY <1>1, <1>3, <2>1
<1>5. ASSUME NEW n \in 1..(Len(stack) - 1) PROVE stack'[n] = stack[n]
  <2>1. n \in 1..(Len(stack) - 1 - 1 + 1) /\ 1 + n - 1 = n
    BY <1>1
  <2> QED BY <1>3, <2>1
<1> QED BY <1>1, <1>3, <1>4, <1>5 DEF StackType

\* The innermost code is one of the stack's.
LEMMA CurrentFrame ==
    ASSUME StackType, NEW c, Innermost(c)
    PROVE  /\ Len(stack) \in Nat \ {0} /\ Len(stack) \in DOMAIN stack
           /\ stack[Len(stack)] \in Frames /\ stack[Len(stack)].code = c
           /\ Current \in Instances
<1>1. Len(stack) \in Nat \ {0} /\ Len(stack) \in DOMAIN stack /\ stack[Len(stack)] \in Frames
  BY DEF StackType, Innermost
<1> QED BY <1>1 DEF Innermost, Current, Frames

\* What the loop's own code leaves behind is on the bottom of the stack.
LEMMA Replaced ==
    ASSUME NEW f \in Frames, stack' = <<f>>
    PROVE  StackType' /\ DOMAIN stack' = {1} /\ stack'[1] = f
<1>1. DOMAIN stack' = 1..1 /\ 1..1 = {1}
  OBVIOUS
<1> QED BY <1>1 DEF StackType

\* The code that the loop of the callback runs is alone on the stack, and when
\* it returns it leaves nothing or the next of the same migration.
LEMMA MigrationReturns ==
    ASSUME StackType, UpgradeReturns \/ DiscardReturns \/ RetireReturns \/ NotifyReturns
    PROVE  /\ DOMAIN stack = {1} /\ Len(stack) = 1
           /\ stack[1] \in Frames /\ Current = stack[1].instance /\ Current \in Instances
           /\ \A n \in DOMAIN stack' :
                 /\ n = 1
                 /\ stack'[1].code \in {"discard", "retire", "notify"}
                 /\ stack'[1].instance = Current
                 /\ stack'[1].code = "discard" =>
                       stack[1].code = "upgrade" /\ stack'[1].module = stack[1].module
<1>1. Len(stack) = 1 /\ stack[1] \in Frames /\ Current = stack[1].instance /\ Current \in Instances
  BY CurrentFrame DEF UpgradeReturns, DiscardReturns, RetireReturns, NotifyReturns, Current
<1>2. DOMAIN stack = {1}
  <2>1. DOMAIN stack = 1..1 /\ 1..1 = {1}
    BY <1>1 DEF StackType
  <2> QED BY <2>1
<1> DEFINE frame(c) == [stack[1] EXCEPT !.code = c]
<1>3. ASSUME NEW c
      PROVE  /\ frame(c).code = c /\ frame(c).instance = stack[1].instance
             /\ frame(c).module = stack[1].module
  BY <1>1 DEF Frames
<1>4. \/ stack' = <<>>
      \/ stack' = <<frame("discard")>> /\ stack[1].code = "upgrade"
      \/ stack' = <<frame("notify")>>
      \/ \E m : stack' = <<[code |-> "retire", instance |-> Current, module |-> m]>>
  BY <1>1 DEF UpgradeReturns, DiscardReturns, RetireReturns, NotifyReturns, Innermost
<1> HIDE DEF frame
<1>5. CASE stack' = <<>>
  BY <1>1, <1>2, <1>5
<1>6. ASSUME NEW f, stack' = <<f>> PROVE DOMAIN stack' = {1} /\ stack'[1] = f
  <2>1. DOMAIN stack' = 1..1 /\ 1..1 = {1} /\ stack'[1] = f
    BY <1>6
  <2> QED BY <2>1
<1>7. CASE stack' = <<frame("discard")>> /\ stack[1].code = "upgrade"
  BY <1>1, <1>2, <1>3, <1>6, <1>7
<1>8. CASE stack' = <<frame("notify")>>
  BY <1>1, <1>2, <1>3, <1>6, <1>8
<1>9. ASSUME NEW m, stack' = <<[code |-> "retire", instance |-> Current, module |-> m]>>
      PROVE  DOMAIN stack' = {1} /\ stack'[1].code = "retire" /\ stack'[1].instance = Current
  BY <1>6, <1>9
<1> QED BY <1>1, <1>2, <1>4, <1>5, <1>7, <1>8, <1>9

-----------------------------------------------------------------------------
(* Types and the deferred callback                                         *)

\* The conjuncts of TypeOK, in groups that the same steps disturb.
ModuleType ==
    /\ module \in 0..MaxModules /\ pendingModule \in 0..MaxModules
    /\ pinned \in [Instances -> 0..MaxModules]
    /\ registered \subseteq Instances
    /\ failed \subseteq Instances /\ missed \subseteq Instances
BatchType ==
    /\ snapshot \in Seq(Instances) /\ index \in 0..Len(snapshot)
    /\ processed \in 0..MinBatch
FlagType == pendingRefresh \in BOOLEAN /\ scheduled \in BOOLEAN /\ refreshing \in BOOLEAN
CountType == deferred \in Nat

\* Only the editor migrates, which keeps the pending module the script's own,
\* and it migrates to a module.
EditorOnly ==
    /\ pendingRefresh => inEditor /\ pendingModule # 0
    /\ refreshing => inEditor
    /\ ~pendingRefresh => Len(snapshot) = 0

Ends == {"init", "deinit"}

\* A registered instance has a module.  One whose init or deinit runs has one
\* too, is not registered, and is not being created or freed twice.
OwnInv ==
    /\ \A i \in registered : pinned[i] # 0
    /\ \A n \in DOMAIN stack : stack[n].code \in Ends =>
          stack[n].instance \notin registered /\ pinned[stack[n].instance] # 0
    /\ \A n, k \in DOMAIN stack :
          stack[n].code \in Ends /\ stack[k].code \in Ends
            /\ stack[n].instance = stack[k].instance => n = k

RefreshInv ==
    /\ inEditor \in BOOLEAN
    /\ ModuleType /\ BatchType /\ StackType /\ FlagType /\ CountType
    /\ OwnInv /\ RefreshScheduled /\ EditorOnly

LEMMA RefreshInvMeaning == RefreshInv => TypeOK /\ RefreshScheduled
BY DEF RefreshInv, TypeOK, ModuleType, BatchType, StackType, FlagType, CountType

\* A new script has no module, no instance and no migration.
LEMMA RefreshInit == Init => RefreshInv
<1> SUFFICES ASSUME Init PROVE RefreshInv
  OBVIOUS
<1>1. ModuleType
  BY ConstantsAssumption DEF Init, ModuleType
<1>2. BatchType
  BY ConstantsAssumption DEF Init, BatchType
<1>3. StackType /\ OwnInv
  BY DEF Init, StackType, OwnInv
<1>4. FlagType
  BY DEF Init, FlagType
<1>5. inEditor \in BOOLEAN /\ CountType /\ RefreshScheduled /\ EditorOnly
  BY DEF Init, CountType, RefreshScheduled, EditorOnly
<1> QED BY <1>1, <1>2, <1>3, <1>4, <1>5 DEF RefreshInv

\* A process is an editor or a game from its start to its end.
LEMMA EditorStays == [Next]_vars => inEditor' = inEditor
BY DEF Next, LoopStep, Return, vars, PublishInGame, PublishInEditor, ApplyPendingRefresh,
       ApplyNothing, Upgrade, BatchEnds, RefreshEnds, InstanceCreate, InstanceFree, InstanceCall,
       CallReturns, CreateReturns, FreeReturns, UpgradeReturns, DiscardReturns, RetireReturns,
       NotifyReturns

\* The loop comes to a registered instance that has another module.
LEMMA UpgradeStep ==
    ASSUME ModuleType, BatchType, Upgrade
    PROVE  \E n \in Todo :
              /\ n \in (index + 1)..Len(snapshot) /\ index' = n
              /\ snapshot[n] \in registered /\ snapshot[n] \in Instances
              /\ pinned[snapshot[n]] # pendingModule
              /\ \A k \in Todo : n <= k
              /\ Enter("upgrade", snapshot[n], pendingModule)
<1>1. PICK n \in Todo : /\ \A k \in Todo : n <= k
                        /\ index' = n
                        /\ Enter("upgrade", snapshot[n], pendingModule)
  BY DEF Upgrade
<1>2. /\ n \in (index + 1)..Len(snapshot) /\ snapshot[n] \in registered
      /\ pinned[snapshot[n]] # pendingModule
  BY DEF Todo
<1> QED BY <1>1, <1>2 DEF ModuleType

\* Modules and instances keep their types.
LEMMA ModuleStep ==
    ASSUME RefreshInv, [Next]_vars
    PROVE  ModuleType'
<1> USE DEF RefreshInv, ModuleType
<1>1. CASE PublishInGame
  BY <1>1, ConstantsAssumption DEF PublishInGame, refresh
<1>2. CASE PublishInEditor
  BY <1>2, ConstantsAssumption DEF PublishInEditor, Live
<1>3. CASE ApplyPendingRefresh \/ ApplyNothing
  BY <1>3 DEF ApplyPendingRefresh, ApplyNothing
<1>4. CASE LoopStep
  BY <1>4, ConstantsAssumption DEF LoopStep, Upgrade, BatchEnds, RefreshEnds
<1>5. ASSUME NEW i \in Instances, InstanceCreate(i) PROVE ModuleType'
  BY <1>5 DEF InstanceCreate, refresh
<1>6. ASSUME NEW i \in Instances, InstanceFree(i) PROVE ModuleType'
  BY <1>6 DEF InstanceFree, refresh
<1>7. ASSUME NEW i \in Instances, InstanceCall(i) PROVE ModuleType'
  BY <1>7 DEF InstanceCall, refresh
<1>8. CASE CallReturns
  BY <1>8 DEF CallReturns, refresh
<1>9. CASE CreateReturns
  <2>1. Current \in Instances
    BY <1>9, CurrentFrame DEF CreateReturns
  <2> QED BY <1>9, <2>1, ConstantsAssumption DEF CreateReturns, refresh
<1>10. CASE FreeReturns
  <2>1. Current \in Instances
    BY <1>10, CurrentFrame DEF FreeReturns
  <2> QED BY <1>10, <2>1, ConstantsAssumption DEF FreeReturns, refresh
<1>11. CASE UpgradeReturns
  <2>1. Current \in Instances
    BY <1>11, CurrentFrame DEF UpgradeReturns
  <2> QED BY <1>11, <2>1 DEF UpgradeReturns, refresh
<1>12. CASE DiscardReturns
  <2>1. Current \in Instances
    BY <1>12, CurrentFrame DEF DiscardReturns
  <2> QED BY <1>12, <2>1 DEF DiscardReturns, refresh
<1>13. CASE RetireReturns \/ NotifyReturns
  BY <1>13 DEF RetireReturns, NotifyReturns, refresh
<1>14. CASE UNCHANGED vars
  BY <1>14 DEF vars, refresh
<1> QED BY <1>1, <1>2, <1>3, <1>4, <1>5, <1>6, <1>7, <1>8, <1>9, <1>10, <1>11, <1>12, <1>13,
           <1>14 DEF Next, Return

\* The count of a batch stays in its bounds.
LEMMA CountStays ==
    ASSUME processed \in 0..MinBatch, Counts
    PROVE  processed' \in 0..MinBatch
BY ConstantsAssumption DEF Counts

\* The snapshot stays a sequence of instances, and the index inside it.
LEMMA SnapshotStep ==
    ASSUME RefreshInv, [Next]_vars
    PROVE  BatchType'
<1> USE DEF RefreshInv, BatchType
<1>1. CASE PublishInGame
  BY <1>1 DEF PublishInGame, refresh, batch
<1>2. CASE PublishInEditor
  <2>1. PICK order \in Orders(registered) : snapshot' = order
    BY <1>2 DEF PublishInEditor
  <2>2. snapshot' \in Seq(Instances) /\ Len(snapshot') \in Nat
    BY <2>1, Snapshot DEF ModuleType
  <2>3. index' = 0 /\ processed' = processed
    BY <1>2 DEF PublishInEditor, batch
  <2> QED BY <2>2, <2>3
<1>3. CASE ApplyPendingRefresh \/ ApplyNothing
  BY <1>3 DEF ApplyPendingRefresh, ApplyNothing, batch
<1>4. CASE Upgrade
  <2>1. PICK n \in (index + 1)..Len(snapshot) : index' = n
    BY <1>4, UpgradeStep
  <2>2. UNCHANGED <<snapshot, processed>>
    BY <1>4 DEF Upgrade, batch
  <2> QED BY <2>1, <2>2
<1>5. CASE BatchEnds
  BY <1>5, ConstantsAssumption DEF BatchEnds
<1>6. CASE RefreshEnds
  BY <1>6, ConstantsAssumption DEF RefreshEnds
<1>7. ASSUME NEW i \in Instances, InstanceCreate(i) \/ InstanceFree(i) \/ InstanceCall(i)
      PROVE  BatchType'
  BY <1>7 DEF InstanceCreate, InstanceFree, InstanceCall, refresh, batch
<1>8. CASE CallReturns \/ CreateReturns \/ FreeReturns \/ NotifyReturns
  BY <1>8 DEF CallReturns, CreateReturns, FreeReturns, NotifyReturns, refresh, batch
<1>9. CASE UpgradeReturns
  <2>1. UNCHANGED refresh /\ (Counts \/ processed' = processed)
    BY <1>9 DEF UpgradeReturns
  <2> QED BY <2>1, CountStays DEF refresh
<1>10. CASE DiscardReturns \/ RetireReturns
  <2>1. UNCHANGED refresh /\ Counts
    BY <1>10 DEF DiscardReturns, RetireReturns
  <2> QED BY <2>1, CountStays DEF refresh
<1>11. CASE UNCHANGED vars
  BY <1>11 DEF vars, refresh, batch
<1> QED BY <1>1, <1>2, <1>3, <1>4, <1>5, <1>6, <1>7, <1>8, <1>9, <1>10, <1>11
        DEF Next, LoopStep, Return

\* The stack keeps its type: what runs is of a module.
LEMMA StackStep ==
    ASSUME RefreshInv, [Next]_vars
    PROVE  StackType'
<1> USE DEF RefreshInv
<1>1. CASE PublishInGame \/ PublishInEditor \/ ApplyPendingRefresh \/ ApplyNothing
  BY <1>1 DEF PublishInGame, PublishInEditor, ApplyPendingRefresh, ApplyNothing, StackType
<1>2. CASE Upgrade
  <2>1. PICK n \in Todo : snapshot[n] \in Instances /\ Enter("upgrade", snapshot[n], pendingModule)
                          /\ n \in (index + 1)..Len(snapshot)
    BY <1>2, UpgradeStep
  <2>2. Len(snapshot) # 0
    BY <2>1 DEF BatchType
  <2>3. pendingModule \in 1..MaxModules
    BY <2>2, ConstantsAssumption DEF EditorOnly, ModuleType
  <2> QED BY <2>1, <2>3, Entered DEF Code, MigrationCode
<1>3. CASE BatchEnds \/ RefreshEnds
  BY <1>3 DEF BatchEnds, RefreshEnds, StackType
<1>4. ASSUME NEW i \in Instances, InstanceCreate(i) PROVE StackType'
  <2>1. module \in 1..MaxModules /\ Enter("init", i, module)
    BY <1>4, ConstantsAssumption DEF InstanceCreate, ModuleType
  <2> QED BY <2>1, Entered DEF Code
<1>5. ASSUME NEW i \in Instances, InstanceFree(i) PROVE StackType'
  <2>1. pinned[i] \in 1..MaxModules /\ Enter("deinit", i, pinned[i])
    BY <1>5, ConstantsAssumption DEF InstanceFree, ModuleType, OwnInv
  <2> QED BY <2>1, Entered DEF Code
<1>6. ASSUME NEW i \in Instances, InstanceCall(i) PROVE StackType'
  <2>1. pinned[i] \in 1..MaxModules /\ Enter("call", i, pinned[i])
    BY <1>6, ConstantsAssumption DEF InstanceCall, ModuleType
  <2> QED BY <2>1, Entered DEF Code
<1>7. CASE CallReturns \/ CreateReturns \/ FreeReturns
  <2>1. stack # <<>> /\ Leave
    BY <1>7 DEF CallReturns, CreateReturns, FreeReturns, Innermost
  <2> QED BY <2>1, Left
<1>8. CASE UpgradeReturns
  <2>1. Len(stack) = 1 /\ Current \in Instances /\ stack[1] \in Frames
    BY <1>8, CurrentFrame DEF UpgradeReturns
  <2>2. [stack[1] EXCEPT !.code = "discard"] \in Frames
    BY <2>1 DEF Frames, Code, MigrationCode
  <2>3. ASSUME pinned[Current] # 0
        PROVE  [code |-> "retire", instance |-> Current, module |-> pinned[Current]] \in Frames
    <3>1. pinned[Current] \in 1..MaxModules
      BY <2>1, <2>3, ConstantsAssumption DEF ModuleType
    <3> QED BY <2>1, <3>1 DEF Frames, Code, MigrationCode
  <2>4. CASE stack' = <<>>
    BY <2>4 DEF StackType
  <2>5. CASE stack' = <<[stack[1] EXCEPT !.code = "discard"]>>
    BY <2>2, <2>5, Replaced
  <2>6. CASE /\ pinned[Current] # 0
             /\ stack' = <<[code |-> "retire", instance |-> Current, module |-> pinned[Current]]>>
    BY <2>3, <2>6, Replaced
  <2> QED BY <1>8, <2>4, <2>5, <2>6 DEF UpgradeReturns
<1>9. CASE DiscardReturns \/ NotifyReturns
  <2>1. stack' = <<>>
    BY <1>9 DEF DiscardReturns, NotifyReturns
  <2> QED BY <2>1 DEF StackType
<1>10. CASE RetireReturns
  <2>1. stack[1] \in Frames
    BY <1>10, CurrentFrame DEF RetireReturns
  <2>2. [stack[1] EXCEPT !.code = "notify"] \in Frames
    BY <2>1 DEF Frames, Code, MigrationCode
  <2>3. CASE stack' = <<>>
    BY <2>3 DEF StackType
  <2>4. CASE stack' = <<[stack[1] EXCEPT !.code = "notify"]>>
    BY <2>2, <2>4, Replaced
  <2> QED BY <1>10, <2>3, <2>4 DEF RetireReturns
<1>11. CASE UNCHANGED vars
  BY <1>11 DEF vars, StackType
<1> QED BY <1>1, <1>2, <1>3, <1>4, <1>5, <1>6, <1>7, <1>8, <1>9, <1>10, <1>11
        DEF Next, LoopStep, Return

\* Entering code that neither creates nor frees leaves the creations and frees
\* as they are.
LEMMA OwnEntered ==
    ASSUME RefreshInv, NEW c \in Code \ Ends, NEW i \in Instances, NEW m \in 1..MaxModules,
           Enter(c, i, m), UNCHANGED <<pinned, registered>>
    PROVE  OwnInv'
<1>1. /\ DOMAIN stack = 1..Len(stack) /\ Len(stack) \in Nat
      /\ \A n \in DOMAIN stack : stack'[n] = stack[n]
      /\ stack'[Len(stack) + 1].code = c
      /\ \A n \in DOMAIN stack' : n \in DOMAIN stack \/ n = Len(stack) + 1
  BY Entered DEF RefreshInv
<1>2. ASSUME NEW n \in DOMAIN stack', stack'[n].code \in Ends
      PROVE  n \in DOMAIN stack /\ stack'[n] = stack[n]
  BY <1>1, <1>2
<1> QED BY <1>2 DEF RefreshInv, OwnInv

\* The creations and frees on the stack that is left are those of before.
LEMMA OwnLeft ==
    ASSUME RefreshInv, stack # <<>>, Leave,
           \A i \in registered' : pinned'[i] # 0,
           \A n \in 1..(Len(stack) - 1) : stack[n].code \in Ends =>
               stack[n].instance \notin registered' /\ pinned'[stack[n].instance] # 0
    PROVE  OwnInv'
<1>1. /\ DOMAIN stack = 1..Len(stack) /\ DOMAIN stack' = 1..(Len(stack) - 1)
      /\ Len(stack) \in Nat
      /\ \A n \in DOMAIN stack' : stack'[n] = stack[n]
  BY Left DEF RefreshInv
<1>2. \A n \in DOMAIN stack' : n \in DOMAIN stack
  BY <1>1
<1> QED BY <1>1, <1>2 DEF RefreshInv, OwnInv

\* An instance is registered once its init has returned, and no longer when its
\* deinit starts.
LEMMA OwnStep ==
    ASSUME RefreshInv, [Next]_vars
    PROVE  OwnInv'
<1> USE DEF RefreshInv
<1>1. CASE PublishInGame \/ PublishInEditor \/ ApplyPendingRefresh \/ ApplyNothing
  BY <1>1 DEF PublishInGame, PublishInEditor, ApplyPendingRefresh, ApplyNothing, OwnInv
<1>2. CASE Upgrade
  <2>1. PICK n \in Todo : snapshot[n] \in Instances /\ Enter("upgrade", snapshot[n], pendingModule)
                          /\ n \in (index + 1)..Len(snapshot)
    BY <1>2, UpgradeStep
  <2>2. Len(snapshot) # 0
    BY <2>1 DEF BatchType
  <2>3. pendingModule \in 1..MaxModules
    BY <2>2, ConstantsAssumption DEF EditorOnly, ModuleType
  <2>4. "upgrade" \in Code \ Ends
    BY DEF Code, MigrationCode, Ends
  <2> QED BY <1>2, <2>1, <2>3, <2>4, OwnEntered DEF Upgrade
<1>3. CASE BatchEnds \/ RefreshEnds
  BY <1>3 DEF BatchEnds, RefreshEnds, OwnInv
<1>4. ASSUME NEW i \in Instances, InstanceCreate(i) PROVE OwnInv'
  <2>1. /\ module \in 1..MaxModules /\ Enter("init", i, module) /\ pinned[i] = 0
        /\ pinned' = [pinned EXCEPT ![i] = module] /\ registered' = registered
    BY <1>4, ConstantsAssumption DEF InstanceCreate, ModuleType
  <2>2. i \notin registered /\ \A n \in DOMAIN stack : stack[n].code \in Ends => stack[n].instance # i
    BY <2>1 DEF OwnInv
  <2>3. \A n \in DOMAIN stack : stack[n].instance \in Instances
    BY FrameTypes
  <2>9. "init" \in Code
    BY DEF Code
  <2>4. /\ \A n \in DOMAIN stack : stack'[n] = stack[n]
        /\ stack'[Len(stack) + 1].instance = i
        /\ \A n \in DOMAIN stack' : n \in DOMAIN stack \/ n = Len(stack) + 1
    BY <2>1, <2>9, Entered
  <2>6. \A j \in Instances : j # i => pinned'[j] = pinned[j]
    BY <2>1 DEF ModuleType
  <2>7. pinned'[i] # 0
    BY <2>1, ConstantsAssumption DEF ModuleType
  <2>8. registered \subseteq Instances
    BY DEF ModuleType
  <2> QED BY <2>1, <2>2, <2>3, <2>4, <2>6, <2>7, <2>8 DEF OwnInv
<1>5. ASSUME NEW i \in Instances, InstanceFree(i) PROVE OwnInv'
  <2>1. /\ i \in registered /\ Enter("deinit", i, pinned[i]) /\ pinned[i] \in 1..MaxModules
        /\ pinned' = pinned /\ registered' = registered \ {i}
    BY <1>5, ConstantsAssumption DEF InstanceFree, OwnInv, ModuleType
  <2>2. \A n \in DOMAIN stack : stack[n].code \in Ends => stack[n].instance # i
    BY <2>1 DEF OwnInv
  <2>3. i \in Instances /\ "deinit" \in Code
    BY DEF Code
  <2>4. /\ \A n \in DOMAIN stack : stack'[n] = stack[n]
        /\ stack'[Len(stack) + 1].instance = i
        /\ \A n \in DOMAIN stack' : n \in DOMAIN stack \/ n = Len(stack) + 1
    BY <2>1, <2>3, Entered
  <2> QED BY <2>1, <2>2, <2>4, ConstantsAssumption DEF OwnInv
<1>6. ASSUME NEW i \in Instances, InstanceCall(i) PROVE OwnInv'
  <2>1. pinned[i] \in 1..MaxModules /\ Enter("call", i, pinned[i]) /\ "call" \in Code \ Ends
    BY <1>6, ConstantsAssumption DEF InstanceCall, ModuleType, Code, Ends
  <2> QED BY <1>6, <2>1, OwnEntered DEF InstanceCall
<1>7. CASE CallReturns
  <2>1. stack # <<>> /\ Leave /\ UNCHANGED <<pinned, registered>>
    BY <1>7 DEF CallReturns, Innermost
  <2>2. \A n \in 1..(Len(stack) - 1) : n \in DOMAIN stack
    BY DEF StackType
  <2> QED BY <2>1, <2>2, OwnLeft DEF OwnInv
<1>8. CASE CreateReturns \/ FreeReturns
  <2>1. /\ stack # <<>> /\ Leave /\ Len(stack) \in DOMAIN stack /\ Current \in Instances
        /\ stack[Len(stack)].code \in Ends
    BY <1>8, CurrentFrame DEF CreateReturns, FreeReturns, Innermost, Ends
  <2>2. \A n \in 1..(Len(stack) - 1) : n \in DOMAIN stack /\ n # Len(stack)
    BY <2>1 DEF StackType
  <2>3. Current \notin registered /\ pinned[Current] # 0
    BY <2>1 DEF OwnInv, Current
  <2>4. \A n \in 1..(Len(stack) - 1) : stack[n].code \in Ends =>
           /\ stack[n].instance # Current /\ stack[n].instance \in Instances
           /\ stack[n].instance \notin registered /\ pinned[stack[n].instance] # 0
    <3>1. \A n \in DOMAIN stack : stack[n].instance \in Instances
      BY FrameTypes
    <3> QED BY <2>1, <2>2, <3>1 DEF OwnInv, Current
  <2>5. CASE registered' = registered \cup {Current} /\ pinned' = pinned
    BY <2>1, <2>3, <2>4, <2>5, OwnLeft DEF OwnInv
  <2>6. CASE registered' = registered /\ pinned' = [pinned EXCEPT ![Current] = 0]
    <3>1. \A j \in Instances : j # Current => pinned'[j] = pinned[j]
      BY <2>6 DEF ModuleType
    <3>2. \A j \in registered' : pinned'[j] # 0
      BY <2>3, <2>6, <3>1 DEF OwnInv, ModuleType
    <3>3. \A n \in 1..(Len(stack) - 1) : stack[n].code \in Ends =>
             stack[n].instance \notin registered' /\ pinned'[stack[n].instance] # 0
      BY <2>4, <2>6, <3>1
    <3> QED BY <2>1, <3>2, <3>3, OwnLeft
  <2> QED BY <1>8, <2>5, <2>6 DEF CreateReturns, FreeReturns
<1>9. CASE UpgradeReturns \/ DiscardReturns \/ RetireReturns \/ NotifyReturns
  <2>1. registered' = registered /\ Current \in Instances
    BY <1>9, CurrentFrame DEF UpgradeReturns, DiscardReturns, RetireReturns, NotifyReturns
  <2>2. pinned' = pinned \/ (pendingModule # 0 /\ pinned' = [pinned EXCEPT ![Current] = pendingModule])
    BY <1>9 DEF UpgradeReturns, DiscardReturns, RetireReturns, NotifyReturns
  <2>3. \A j \in Instances : pinned[j] # 0 => pinned'[j] # 0
    BY <2>1, <2>2 DEF ModuleType
  <2>4. \A n \in DOMAIN stack' : n = 1 /\ stack'[n].code \notin Ends
    BY <1>9, MigrationReturns DEF Ends
  <2> QED BY <2>1, <2>3, <2>4 DEF OwnInv, ModuleType
<1>10. CASE UNCHANGED vars
  BY <1>10 DEF vars, OwnInv
<1> QED BY <1>1, <1>2, <1>3, <1>4, <1>5, <1>6, <1>7, <1>8, <1>9, <1>10
        DEF Next, LoopStep, Return

\* What no step of instances and their code changes.
Callback == <<inEditor, module, pendingModule, pendingRefresh, scheduled, deferred, snapshot, refreshing>>

LEMMA CodeStep ==
    ASSUME Return \/ \E i \in Instances : InstanceCreate(i) \/ InstanceFree(i) \/ InstanceCall(i)
    PROVE  UNCHANGED Callback /\ index' = index
BY DEF Return, CallReturns, CreateReturns, FreeReturns, UpgradeReturns, DiscardReturns,
       RetireReturns, NotifyReturns, InstanceCreate, InstanceFree, InstanceCall, Callback, refresh, batch

\* The flags stay Boolean.
LEMMA FlagStep ==
    ASSUME RefreshInv, [Next]_vars
    PROVE  FlagType'
<1> USE DEF RefreshInv, FlagType
<1>1. CASE PublishInGame
  BY <1>1 DEF PublishInGame, refresh, batch
<1>2. CASE PublishInEditor
  BY <1>2, Zenon DEF PublishInEditor, Schedule, batch
<1>3. CASE ApplyPendingRefresh \/ ApplyNothing
  BY <1>3 DEF ApplyPendingRefresh, ApplyNothing, batch
<1>4. CASE LoopStep
  BY <1>4 DEF LoopStep, Upgrade, BatchEnds, RefreshEnds, Schedule, batch
<1>5. CASE UNCHANGED Callback
  BY <1>5 DEF Callback
<1>6. CASE UNCHANGED vars
  BY <1>6 DEF vars, refresh, batch
<1> QED BY <1>1, <1>2, <1>3, <1>4, <1>5, <1>6, CodeStep DEF Next

\* One deferred callback per pending migration, and none without.
LEMMA ScheduleStep ==
    ASSUME RefreshInv, [Next]_vars
    PROVE  CountType' /\ RefreshScheduled' /\ EditorOnly'
<1> USE DEF RefreshInv, CountType, RefreshScheduled, EditorOnly
<1>1. CASE PublishInGame
  BY <1>1 DEF PublishInGame, refresh, batch
<1>2. CASE PublishInEditor
  <2>1. module' = module + 1 /\ module + 1 # 0 /\ inEditor' /\ UNCHANGED refreshing
    BY <1>2 DEF PublishInEditor, ModuleType, batch
  <2>2. CASE registered = {}
    <3>1. pendingModule' = 0 /\ UNCHANGED <<scheduled, deferred>> /\ ~pendingRefresh'
      BY <1>2, <2>2 DEF PublishInEditor
    <3>2. PICK order \in Orders(registered) : snapshot' = order
      BY <1>2 DEF PublishInEditor
    <3>3. Len(snapshot') = 0
      BY <2>2, <3>2, Snapshot
    <3> QED BY <2>1, <3>1, <3>3
  <2>3. CASE registered # {}
    <3>1. pendingModule' = module' /\ scheduled' /\ pendingRefresh'
      BY <1>2, <2>3 DEF PublishInEditor, Schedule
    <3>2. deferred' = 1
      <4>1. deferred' = IF scheduled THEN deferred ELSE deferred + 1
        BY <1>2, <2>3 DEF PublishInEditor, Schedule
      <4> QED BY <4>1
    <3> QED BY <2>1, <3>1, <3>2
  <2> QED BY <2>2, <2>3
<1>3. CASE ApplyPendingRefresh
  <2>1. UNCHANGED <<inEditor, module, pendingModule, pendingRefresh, snapshot>> /\ refreshing'
    BY <1>3 DEF ApplyPendingRefresh
  <2>2. ~scheduled' /\ deferred' = deferred - 1 /\ deferred > 0 /\ pendingRefresh
    BY <1>3 DEF ApplyPendingRefresh
  <2>3. deferred = 1
    BY <2>2
  <2> QED BY <2>1, <2>2, <2>3
<1>4. CASE ApplyNothing
  <2>1. ~scheduled' /\ deferred' = deferred - 1 /\ deferred > 0
    BY <1>4 DEF ApplyNothing
  <2>2. UNCHANGED <<inEditor, module, pendingModule, pendingRefresh, snapshot, refreshing>>
        /\ ~pendingRefresh
    BY <1>4 DEF ApplyNothing, batch
  <2>3. deferred = 1
    BY <2>1
  <2> QED BY <2>1, <2>2, <2>3
<1>5. CASE Upgrade
  BY <1>5 DEF Upgrade, batch
<1>6. CASE BatchEnds
  <2>1. UNCHANGED <<inEditor, module, pendingModule, pendingRefresh, snapshot>> /\ ~refreshing'
    BY <1>6 DEF BatchEnds
  <2>2. scheduled' /\ deferred' = IF scheduled THEN deferred ELSE deferred + 1
    BY <1>6 DEF BatchEnds, Schedule
  <2>3. deferred' = 1
    BY <2>2
  <2> QED BY <2>1, <2>2, <2>3
<1>7. CASE RefreshEnds
  <2>1. /\ UNCHANGED <<inEditor, scheduled, deferred>>
        /\ ~refreshing' /\ ~pendingRefresh' /\ pendingModule' = 0 /\ snapshot' = <<>>
    BY <1>7 DEF RefreshEnds
  <2> QED BY <2>1
<1>8. CASE UNCHANGED Callback
  BY <1>8 DEF Callback
<1>9. CASE UNCHANGED vars
  BY <1>9 DEF vars, refresh, batch
<1> QED BY <1>1, <1>2, <1>3, <1>4, <1>5, <1>6, <1>7, <1>8, <1>9, CodeStep DEF Next, LoopStep

\* Publishing, the callback, instances and their code keep the types and the
\* one deferred callback of a pending migration.
LEMMA RefreshStep == RefreshInv /\ [Next]_vars => RefreshInv'
BY EditorStays, ModuleStep, SnapshotStep, StackStep, OwnStep, FlagStep, ScheduleStep DEF RefreshInv

\* The types hold, and a pending migration has exactly one deferred callback or
\* one that runs, which migrates to the script's own module.
THEOREM RefreshTheorem == Spec => [](TypeOK /\ RefreshScheduled)
BY RefreshInit, RefreshStep, RefreshInvMeaning, PTL DEF Spec

-----------------------------------------------------------------------------
(* Running code                                                            *)

Uses == {"init", "call", "deinit"}

\* No code uses an instance whose init runs but the init, and none that lies
\* under a deinit uses what the deinit takes down.
AloneInv ==
    \A n, k \in DOMAIN stack :
        /\ stack[n].code = "init" /\ stack[k].code \in Uses
             /\ stack[n].instance = stack[k].instance => n = k
        /\ stack[n].code = "deinit" /\ stack[k].code \in Uses
             /\ stack[n].instance = stack[k].instance => n <= k

RunInv == CallsPinned /\ AloneInv

\* What is entered is pinned or, in a migration, the pending module.
LEMMA RunEntered ==
    ASSUME RefreshInv, RunInv, NEW c \in Code, NEW i \in Instances, NEW m \in 1..MaxModules,
           Enter(c, i, m), pendingModule' = pendingModule,
           c \in Uses => pinned'[i] = m,
           c \in {"upgrade", "discard"} => pendingModule = m,
           \A n \in DOMAIN stack : stack[n].code \in Uses =>
               pinned'[stack[n].instance] = pinned[stack[n].instance],
           c = "init" => \A n \in DOMAIN stack : stack[n].code \in Uses => stack[n].instance # i,
           c = "deinit" => \A n \in DOMAIN stack : stack[n].code \in Uses => stack[n].instance # i,
           c = "call" => ~Within("init", i)
    PROVE  RunInv'
<1>1. /\ DOMAIN stack = 1..Len(stack) /\ Len(stack) \in Nat
      /\ \A n \in DOMAIN stack : stack'[n] = stack[n]
      /\ stack'[Len(stack) + 1].code = c /\ stack'[Len(stack) + 1].instance = i
      /\ stack'[Len(stack) + 1].module = m
      /\ \A n \in DOMAIN stack' : n \in DOMAIN stack \/ n = Len(stack) + 1
  BY Entered DEF RefreshInv
<1>2. CallsPinned'
  <2> SUFFICES ASSUME NEW n \in DOMAIN stack'
               PROVE  /\ stack'[n].code \in Uses => pinned'[stack'[n].instance] = stack'[n].module
                      /\ stack'[n].code \in {"upgrade", "discard"} => pendingModule' = stack'[n].module
    BY DEF CallsPinned, Uses
  <2>1. CASE n \in DOMAIN stack
    BY <1>1, <2>1 DEF RunInv, CallsPinned, Uses
  <2>2. CASE n = Len(stack) + 1
    BY <1>1, <2>2
  <2> QED BY <1>1, <2>1, <2>2
<1>3. AloneInv'
  <2> SUFFICES ASSUME NEW n \in DOMAIN stack', NEW k \in DOMAIN stack', stack'[k].code \in Uses,
                      stack'[n].instance = stack'[k].instance
               PROVE  /\ stack'[n].code = "init" => n = k
                      /\ stack'[n].code = "deinit" => n <= k
    BY DEF AloneInv
  <2>1. CASE n \in DOMAIN stack /\ k \in DOMAIN stack
    BY <1>1, <2>1 DEF RunInv, AloneInv
  <2>2. CASE n = Len(stack) + 1 /\ k \in DOMAIN stack
    BY <1>1, <2>2
  <2>3. CASE n \in DOMAIN stack /\ k = Len(stack) + 1
    <3>1. n <= k
      BY <1>1, <2>3
    <3>2. ASSUME stack'[n].code = "init" PROVE FALSE
      <4>1. stack[n].code = "init" /\ stack[n].instance = i
        BY <1>1, <2>3, <3>2
      <4>2. c # "call"
        BY <2>3, <4>1 DEF Within
      <4>3. c = "init" \/ c = "deinit"
        BY <1>1, <2>3, <4>2 DEF Uses
      <4> QED BY <2>3, <4>1, <4>3 DEF Uses
    <3> QED BY <3>1, <3>2
  <2>4. CASE n = Len(stack) + 1 /\ k = Len(stack) + 1
    BY <1>1, <2>4
  <2> QED BY <1>1, <2>1, <2>2, <2>3, <2>4
<1> QED BY <1>2, <1>3 DEF RunInv

\* What the innermost code leaves on the stack is still pinned.
LEMMA RunLeft ==
    ASSUME RefreshInv, RunInv, stack # <<>>, Leave, pendingModule' = pendingModule,
           \A n \in 1..(Len(stack) - 1) : stack[n].code \in Uses =>
               pinned'[stack[n].instance] = pinned[stack[n].instance]
    PROVE  RunInv'
<1>1. /\ DOMAIN stack = 1..Len(stack) /\ DOMAIN stack' = 1..(Len(stack) - 1)
      /\ Len(stack) \in Nat
      /\ \A n \in DOMAIN stack' : stack'[n] = stack[n]
  BY Left DEF RefreshInv
<1>2. \A n \in DOMAIN stack' : n \in DOMAIN stack
  BY <1>1
<1>3. CallsPinned'
  BY <1>1, <1>2 DEF RunInv, CallsPinned, Uses
<1>4. AloneInv'
  BY <1>1, <1>2 DEF RunInv, AloneInv
<1> QED BY <1>3, <1>4 DEF RunInv

LEMMA RunStep ==
    ASSUME ~MayDetach, ~MayReload, RefreshInv, RunInv, [Next]_vars
    PROVE  RunInv'
<1> USE DEF RefreshInv, ModuleType
<1>1. CASE PublishInGame \/ ApplyNothing \/ ApplyPendingRefresh \/ BatchEnds \/ UNCHANGED vars
  BY <1>1 DEF PublishInGame, ApplyNothing, ApplyPendingRefresh, BatchEnds, vars, refresh,
              RunInv, CallsPinned, AloneInv
<1>2. CASE PublishInEditor
  <2>1. /\ UNCHANGED <<pinned, stack>>
        /\ \A n \in DOMAIN stack : stack[n].code \notin {"upgrade", "discard"}
    <3>1. \A n \in DOMAIN stack : stack[n].instance \in Instances
      BY FrameTypes
    <3> QED BY <1>2, <3>1 DEF PublishInEditor, Within
  <2> QED BY <2>1 DEF RunInv, CallsPinned, AloneInv
<1>3. CASE Upgrade
  <2>1. PICK n \in Todo : snapshot[n] \in Instances /\ Enter("upgrade", snapshot[n], pendingModule)
                          /\ n \in (index + 1)..Len(snapshot)
    BY <1>3, UpgradeStep
  <2>2. Len(snapshot) # 0
    BY <2>1 DEF BatchType
  <2>3. pendingModule \in 1..MaxModules
    BY <2>2, ConstantsAssumption DEF EditorOnly
  <2>4. "upgrade" \in Code \ Uses
    BY DEF Code, MigrationCode, Uses
  <2>5. UNCHANGED <<pinned, pendingModule>>
    BY <1>3 DEF Upgrade
  <2> QED BY <2>1, <2>3, <2>4, <2>5, RunEntered
<1>4. CASE RefreshEnds
  BY <1>4 DEF RefreshEnds, Looping, RunInv, CallsPinned, AloneInv
<1>5. ASSUME NEW i \in Instances, InstanceCreate(i) PROVE RunInv'
  <2>1. /\ module \in 1..MaxModules /\ Enter("init", i, module) /\ pinned[i] = 0
        /\ pinned' = [pinned EXCEPT ![i] = module] /\ pendingModule' = pendingModule
    BY <1>5, ConstantsAssumption DEF InstanceCreate, refresh
  <2>2. ASSUME NEW n \in DOMAIN stack, stack[n].code \in Uses
        PROVE  stack[n].instance # i /\ pinned'[stack[n].instance] = pinned[stack[n].instance]
    <3>1. stack[n].instance \in Instances /\ stack[n].module # 0
      BY FrameTypes, ConstantsAssumption
    <3>2. pinned[stack[n].instance] = stack[n].module
      BY <2>2 DEF RunInv, CallsPinned, Uses
    <3> QED BY <2>1, <3>1, <3>2
  <2>3. "init" \in Code /\ pinned'[i] = module
    BY <2>1 DEF Code
  <2> QED BY <2>1, <2>2, <2>3, RunEntered
<1>6. ASSUME NEW i \in Instances, InstanceFree(i) PROVE RunInv'
  <2>1. /\ Enter("deinit", i, pinned[i]) /\ pinned[i] \in 1..MaxModules /\ ~Running(i)
        /\ UNCHANGED <<pinned, pendingModule>>
    BY <1>6, ConstantsAssumption DEF InstanceFree, OwnInv, refresh
  <2>2. \A n \in DOMAIN stack : stack[n].code \in Uses => stack[n].instance # i
    BY <2>1 DEF Running, Uses
  <2>3. "deinit" \in Code
    BY DEF Code
  <2> QED BY <2>1, <2>2, <2>3, RunEntered
<1>7. ASSUME NEW i \in Instances, InstanceCall(i) PROVE RunInv'
  <2>1. /\ pinned[i] \in 1..MaxModules /\ Enter("call", i, pinned[i]) /\ "call" \in Code
        /\ ~Within("init", i) /\ UNCHANGED <<pinned, pendingModule>>
    BY <1>7, ConstantsAssumption DEF InstanceCall, Code, refresh
  <2> QED BY <2>1, RunEntered
<1>8. CASE CallReturns
  BY <1>8, RunLeft DEF CallReturns, Innermost, refresh
<1>9. CASE CreateReturns \/ FreeReturns
  <2>1. /\ stack # <<>> /\ Leave /\ pendingModule' = pendingModule
        /\ Len(stack) \in Nat /\ Len(stack) \in DOMAIN stack
        /\ stack[Len(stack)].code \in {"init", "deinit"} /\ Current \in Instances
    BY <1>9, CurrentFrame DEF CreateReturns, FreeReturns, Innermost, refresh
  <2>2. pinned' = pinned \/ pinned' = [pinned EXCEPT ![Current] = 0]
    BY <1>9 DEF CreateReturns, FreeReturns
  <2>3. ASSUME NEW n \in 1..(Len(stack) - 1), stack[n].code \in Uses
        PROVE  pinned'[stack[n].instance] = pinned[stack[n].instance]
    <3>1. n \in DOMAIN stack /\ n < Len(stack)
      BY <2>1 DEF StackType
    <3>2. ~(Len(stack) <= n) /\ n # Len(stack)
      BY <2>1, <3>1
    <3>3. stack[n].instance # Current
      BY <2>1, <2>3, <3>1, <3>2 DEF RunInv, AloneInv, Current
    <3>4. stack[n].instance \in Instances
      BY <3>1, FrameTypes
    <3> QED BY <2>1, <2>2, <3>3, <3>4
  <2> QED BY <2>1, <2>3, RunLeft
<1>10. CASE UpgradeReturns \/ DiscardReturns \/ RetireReturns \/ NotifyReturns
  <2>1. pendingModule' = pendingModule
    BY <1>10 DEF UpgradeReturns, DiscardReturns, RetireReturns, NotifyReturns, refresh
  <2>2. /\ DOMAIN stack = {1}
        /\ \A n \in DOMAIN stack' :
              /\ n = 1 /\ stack'[1].code \in {"discard", "retire", "notify"}
              /\ stack'[1].code = "discard" =>
                    stack[1].code = "upgrade" /\ stack'[1].module = stack[1].module
    BY <1>10, MigrationReturns
  <2> QED BY <2>1, <2>2 DEF RunInv, CallsPinned, AloneInv, Uses
<1> QED BY <1>1, <1>2, <1>3, <1>4, <1>5, <1>6, <1>7, <1>8, <1>9, <1>10
        DEF Next, LoopStep, Return

\* Publishing, migrating, creating and freeing never touch running code: what it
\* runs on stays pinned and loaded, be it a call, an init or deinit, or the init
\* or deinit of a migration; provided that no code frees the instance it runs on
\* and that none publishes while a migration runs the next module's code.
THEOREM CallsPinnedTheorem ==
    ASSUME ~MayDetach, ~MayReload
    PROVE  Spec => [](CallsPinned /\ ModuleLoadedWhileRunning)
<1>1. Init => RefreshInv /\ RunInv
  BY RefreshInit DEF Init, RunInv, CallsPinned, AloneInv
<1>2. RefreshInv /\ RunInv /\ [Next]_vars => RefreshInv' /\ RunInv'
  BY RefreshStep, RunStep
<1>3. RefreshInv /\ RunInv => CallsPinned /\ ModuleLoadedWhileRunning
  <2> SUFFICES ASSUME RefreshInv, RunInv, NEW n \in DOMAIN stack, stack[n].code # "notify"
               PROVE  Loaded(stack[n].module)
    BY DEF ModuleLoadedWhileRunning, RunInv
  <2>1. stack[n].code \in Code /\ stack[n].instance \in Instances
    BY FrameTypes DEF RefreshInv
  <2> QED BY <2>1 DEF Loaded, RunInv, CallsPinned, Code, MigrationCode
<1> QED BY <1>1, <1>2, <1>3, PTL DEF Spec

-----------------------------------------------------------------------------
(* Instances                                                               *)

\* An instance that a migration works on is registered, and the migration goes
\* on; one whose init runs has the script's module, or is known to have missed
\* a publish.
ComingInv ==
    \A n \in DOMAIN stack :
        /\ stack[n].code \in {"upgrade", "discard"} =>
              stack[n].instance \in registered /\ pendingRefresh
        /\ inEditor /\ stack[n].code = "init" =>
              pinned[stack[n].instance] = module \/ stack[n].instance \in missed

WaitInv == ComingInv /\ NoneForgotten

\* A step that takes no instance from the migration on the stack.
LEMMA ComingEntered ==
    ASSUME RefreshInv, ComingInv, NEW c \in Code, NEW i \in Instances, NEW m \in 1..MaxModules,
           Enter(c, i, m), UNCHANGED <<inEditor, module, pendingRefresh>>,
           c \in {"upgrade", "discard"} => i \in registered' /\ pendingRefresh,
           inEditor /\ c = "init" => pinned'[i] = module \/ i \in missed',
           \A n \in DOMAIN stack :
               /\ stack[n].code \in {"upgrade", "discard"} /\ stack[n].instance \in registered
                     => stack[n].instance \in registered'
               /\ stack[n].code = "init" =>
                     /\ pinned'[stack[n].instance] = pinned[stack[n].instance]
                     /\ stack[n].instance \in missed => stack[n].instance \in missed'
    PROVE  ComingInv'
<1>1. /\ \A n \in DOMAIN stack : stack'[n] = stack[n]
      /\ stack'[Len(stack) + 1].code = c /\ stack'[Len(stack) + 1].instance = i
      /\ \A n \in DOMAIN stack' : n \in DOMAIN stack \/ n = Len(stack) + 1
  BY Entered DEF RefreshInv
<1> SUFFICES ASSUME NEW n \in DOMAIN stack'
             PROVE  /\ stack'[n].code \in {"upgrade", "discard"} =>
                          stack'[n].instance \in registered' /\ pendingRefresh'
                    /\ inEditor' /\ stack'[n].code = "init" =>
                          pinned'[stack'[n].instance] = module' \/ stack'[n].instance \in missed'
  BY DEF ComingInv
<1>2. CASE n \in DOMAIN stack
  BY <1>1, <1>2 DEF ComingInv
<1>3. CASE n = Len(stack) + 1
  BY <1>1, <1>3
<1> QED BY <1>1, <1>2, <1>3

LEMMA ComingLeft ==
    ASSUME RefreshInv, ComingInv, stack # <<>>, Leave,
           UNCHANGED <<inEditor, module, pendingRefresh>>, registered \subseteq registered',
           \A n \in 1..(Len(stack) - 1) : stack[n].code = "init" =>
               /\ pinned'[stack[n].instance] = pinned[stack[n].instance]
               /\ stack[n].instance \in missed => stack[n].instance \in missed'
    PROVE  ComingInv'
<1>1. /\ DOMAIN stack = 1..Len(stack) /\ DOMAIN stack' = 1..(Len(stack) - 1)
      /\ Len(stack) \in Nat
      /\ \A n \in DOMAIN stack' : stack'[n] = stack[n]
  BY Left DEF RefreshInv
<1>2. \A n \in DOMAIN stack' : n \in DOMAIN stack
  BY <1>1
<1> QED BY <1>1, <1>2 DEF ComingInv

\* No other creation than the innermost has its instance.
LEMMA OtherEnds ==
    ASSUME RefreshInv, NEW c \in Ends, Innermost(c),
           NEW n \in 1..(Len(stack) - 1), stack[n].code \in Ends
    PROVE  stack[n].instance \in Instances /\ stack[n].instance # Current
<1>1. /\ Len(stack) \in Nat /\ Len(stack) \in DOMAIN stack
      /\ stack[Len(stack)].code \in Ends
  BY CurrentFrame DEF RefreshInv
<1>2. n \in DOMAIN stack /\ n # Len(stack)
  BY <1>1 DEF RefreshInv, StackType
<1>3. stack[n].instance \in Instances
  BY <1>2, FrameTypes DEF RefreshInv
<1> QED BY <1>1, <1>2, <1>3 DEF RefreshInv, OwnInv, Current

LEMMA ComingStep ==
    ASSUME ~MayDetach, RefreshInv, ComingInv, [Next]_vars
    PROVE  ComingInv'
<1> USE DEF RefreshInv, ModuleType
<1>1. CASE PublishInGame \/ ApplyNothing \/ ApplyPendingRefresh \/ BatchEnds \/ UNCHANGED vars
  BY <1>1 DEF PublishInGame, ApplyNothing, ApplyPendingRefresh, BatchEnds, vars, refresh, ComingInv
<1>2. CASE PublishInEditor
  <2>1. /\ UNCHANGED <<stack, pinned, registered>>
        /\ registered # {} => pendingRefresh'
        /\ missed' = {i \in Live : Within("init", i)}
    BY <1>2 DEF PublishInEditor
  <2>2. ASSUME NEW n \in DOMAIN stack, stack[n].code = "init"
        PROVE  stack[n].instance \in missed'
    <3>1. stack[n].instance \in Instances
      BY FrameTypes
    <3>2. pinned[stack[n].instance] # 0
      BY <2>2 DEF OwnInv, Ends
    <3> QED BY <2>1, <2>2, <3>1, <3>2 DEF Live, Within
  <2> QED BY <2>1, <2>2 DEF ComingInv
<1>3. CASE Upgrade
  <2>1. PICK n \in Todo : /\ snapshot[n] \in Instances /\ snapshot[n] \in registered
                          /\ Enter("upgrade", snapshot[n], pendingModule)
                          /\ n \in (index + 1)..Len(snapshot)
    BY <1>3, UpgradeStep
  <2>2. Len(snapshot) # 0
    BY <2>1 DEF BatchType
  <2>3. pendingModule \in 1..MaxModules /\ pendingRefresh
    BY <2>2, ConstantsAssumption DEF EditorOnly
  <2>4. UNCHANGED <<inEditor, module, pendingRefresh, registered, pinned, missed>>
    BY <1>3 DEF Upgrade
  <2>5. "upgrade" \in Code
    BY DEF Code, MigrationCode
  <2> QED BY <2>1, <2>3, <2>4, <2>5, ComingEntered
<1>4. CASE RefreshEnds
  BY <1>4 DEF RefreshEnds, Looping, ComingInv
<1>5. ASSUME NEW i \in Instances, InstanceCreate(i) PROVE ComingInv'
  <2>1. /\ module \in 1..MaxModules /\ Enter("init", i, module) /\ pinned[i] = 0
        /\ pinned' = [pinned EXCEPT ![i] = module]
        /\ UNCHANGED <<inEditor, module, pendingRefresh, registered, missed>>
    BY <1>5, ConstantsAssumption DEF InstanceCreate, refresh
  <2>2. ASSUME NEW n \in DOMAIN stack, stack[n].code = "init"
        PROVE  pinned'[stack[n].instance] = pinned[stack[n].instance]
    <3>1. stack[n].instance \in Instances /\ stack[n].instance # i
      BY <2>1, <2>2, FrameTypes DEF OwnInv, Ends
    <3> QED BY <2>1, <3>1
  <2>3. "init" \in Code /\ pinned'[i] = module
    BY <2>1 DEF Code
  <2> QED BY <2>1, <2>2, <2>3, ComingEntered
<1>6. ASSUME NEW i \in Instances, InstanceFree(i) PROVE ComingInv'
  <2>1. /\ Enter("deinit", i, pinned[i]) /\ pinned[i] \in 1..MaxModules /\ ~Running(i)
        /\ registered' = registered \ {i} /\ missed' = missed \ {i} /\ i \in registered
        /\ UNCHANGED <<inEditor, module, pendingRefresh, pinned>>
    BY <1>6, ConstantsAssumption DEF InstanceFree, OwnInv, refresh
  <2>2. \A n \in DOMAIN stack : stack[n].code # "notify" => stack[n].instance # i
    BY <2>1 DEF Running
  <2>3. "deinit" \in Code
    BY DEF Code
  <2> QED BY <2>1, <2>2, <2>3, ComingEntered
<1>7. ASSUME NEW i \in Instances, InstanceCall(i) PROVE ComingInv'
  <2>1. /\ pinned[i] \in 1..MaxModules /\ Enter("call", i, pinned[i]) /\ "call" \in Code
        /\ UNCHANGED <<inEditor, module, pendingRefresh, pinned, registered, missed>>
    BY <1>7, ConstantsAssumption DEF InstanceCall, Code, refresh
  <2> QED BY <2>1, ComingEntered
<1>8. CASE CallReturns
  BY <1>8, ComingLeft DEF CallReturns, Innermost, refresh
<1>9. CASE CreateReturns \/ FreeReturns
  <2>1. /\ stack # <<>> /\ Leave /\ (Innermost("init") \/ Innermost("deinit"))
        /\ registered \subseteq registered' /\ UNCHANGED <<inEditor, module, pendingRefresh>>
    BY <1>9 DEF CreateReturns, FreeReturns, Innermost, refresh
  <2>2. /\ pinned' = pinned \/ pinned' = [pinned EXCEPT ![Current] = 0]
        /\ missed \ {Current} \subseteq missed'
    BY <1>9 DEF CreateReturns, FreeReturns
  <2>3. \A n \in 1..(Len(stack) - 1) : stack[n].code = "init" =>
           stack[n].instance \in Instances /\ stack[n].instance # Current
    BY <2>1, OtherEnds DEF Ends
  <2> QED BY <2>1, <2>2, <2>3, ComingLeft
<1>10. CASE UpgradeReturns \/ DiscardReturns \/ RetireReturns \/ NotifyReturns
  <2>1. UNCHANGED <<registered, pendingRefresh>>
    BY <1>10 DEF UpgradeReturns, DiscardReturns, RetireReturns, NotifyReturns, refresh
  <2>2. /\ DOMAIN stack = {1} /\ Current = stack[1].instance
        /\ \A n \in DOMAIN stack' :
              /\ n = 1 /\ stack'[1].code \in {"discard", "retire", "notify"}
              /\ stack'[1].instance = Current
              /\ stack'[1].code = "discard" => stack[1].code = "upgrade"
    BY <1>10, MigrationReturns
  <2> QED BY <2>1, <2>2 DEF ComingInv
<1> QED BY <1>1, <1>2, <1>3, <1>4, <1>5, <1>6, <1>7, <1>8, <1>9, <1>10
        DEF Next, LoopStep, Return

-----------------------------------------------------------------------------

\* What NoneForgotten asks for an instance: the second part is what a step of
\* the callback's loop changes.
Comes(i) == pendingRefresh /\ \E n \in (index + 1)..Len(snapshot) : snapshot[n] = i
Settled(i) ==
    \/ pinned[i] = module
    \/ i \in failed \cup missed
    \/ Within("upgrade", i) \/ Within("discard", i)

LEMMA NoneForgottenMeaning ==
    NoneForgotten <=> (inEditor => \A i \in registered : Settled(i) \/ Comes(i))
BY DEF NoneForgotten, Settled, Comes

\* Entering code takes nothing from the stack.
LEMMA WithinEntered ==
    ASSUME StackType, NEW c \in Code, NEW i \in Instances, NEW m \in 1..MaxModules,
           Enter(c, i, m)
    PROVE  /\ Within(c, i)'
           /\ \A d, j : Within(d, j) => Within(d, j)'
<1>1. /\ DOMAIN stack = 1..Len(stack) /\ DOMAIN stack' = 1..(Len(stack) + 1) /\ Len(stack) \in Nat
      /\ \A n \in DOMAIN stack : stack'[n] = stack[n]
      /\ stack'[Len(stack) + 1].code = c /\ stack'[Len(stack) + 1].instance = i
  BY Entered
<1>2. /\ Len(stack) + 1 \in DOMAIN stack'
      /\ \A n \in DOMAIN stack : n \in DOMAIN stack'
  BY <1>1
<1> QED BY <1>1, <1>2 DEF Within

\* Code that returns takes only itself.
LEMMA WithinLeft ==
    ASSUME StackType, NEW c, Innermost(c), Leave
    PROVE  \A d, j : Within(d, j) /\ d # c => Within(d, j)'
<1>1. /\ DOMAIN stack = 1..Len(stack) /\ DOMAIN stack' = 1..(Len(stack) - 1)
      /\ Len(stack) \in Nat \ {0}
      /\ \A n \in DOMAIN stack' : stack'[n] = stack[n]
  BY Left DEF Innermost
<1>2. stack[Len(stack)].code = c
  BY DEF Innermost
<1>3. ASSUME NEW n \in DOMAIN stack, stack[n].code # c PROVE n \in DOMAIN stack'
  <2>1. n # Len(stack)
    BY <1>2, <1>3
  <2> QED BY <1>1, <2>1
<1> QED BY <1>1, <1>3 DEF Within

\* A step that leaves the migration's place in the snapshot alone.
LEMMA ForgottenStays ==
    ASSUME NoneForgotten,
           UNCHANGED <<inEditor, module, pendingRefresh, snapshot, index>>,
           \A i \in registered' : Settled(i) => Settled(i)',
           \A i \in registered' : i \in registered \/ Settled(i)'
    PROVE  NoneForgotten'
<1>1. \A i : Comes(i)' = Comes(i)
  BY DEF Comes
<1>2. inEditor => \A i \in registered : Settled(i) \/ Comes(i)
  BY NoneForgottenMeaning
<1>3. inEditor' => \A i \in registered' : Settled(i)' \/ Comes(i)'
  BY <1>1, <1>2
<1> QED BY <1>3 DEF NoneForgotten, Settled, Comes

LEMMA ForgottenStep ==
    ASSUME ~MayDetach, RefreshInv, ComingInv, NoneForgotten, [Next]_vars
    PROVE  NoneForgotten'
<1> USE DEF RefreshInv, ModuleType
<1>1. CASE PublishInGame
  BY <1>1 DEF PublishInGame, NoneForgotten
<1>2. CASE ApplyNothing \/ ApplyPendingRefresh \/ UNCHANGED vars
  <2>1. UNCHANGED <<inEditor, module, pinned, registered, pendingRefresh, snapshot, index, stack,
                    failed, missed>>
    BY <1>2 DEF ApplyNothing, ApplyPendingRefresh, vars, refresh
  <2> QED BY <2>1, ForgottenStays DEF Settled, Within
<1>3. CASE BatchEnds
  <2>1. UNCHANGED <<inEditor, module, pinned, registered, pendingRefresh, snapshot, index, stack,
                    failed, missed>>
    BY <1>3 DEF BatchEnds
  <2> QED BY <2>1, ForgottenStays DEF Settled, Within
<1>4. CASE PublishInEditor
  <2>1. PICK order \in Orders(registered) : snapshot' = order
    BY <1>4 DEF PublishInEditor
  <2>2. \A i \in registered : \E n \in 1..Len(order) : order[n] = i
    BY <2>1, Snapshot
  <2>3. /\ index' = 0 /\ registered' = registered
        /\ registered # {} => pendingRefresh'
    BY <1>4 DEF PublishInEditor
  <2>4. ASSUME NEW i \in registered' PROVE Comes(i)'
    <3>1. PICK n \in 1..Len(order) : order[n] = i
      BY <2>2, <2>3, <2>4
    <3>2. n \in (index' + 1)..Len(snapshot') /\ snapshot'[n] = i /\ pendingRefresh'
      BY <2>1, <2>3, <2>4, <3>1
    <3> QED BY <3>2 DEF Comes
  <2> QED BY <2>4 DEF NoneForgotten, Comes
<1>5. CASE Upgrade
  <2>1. PICK n \in Todo : /\ n \in (index + 1)..Len(snapshot) /\ index' = n
                          /\ snapshot[n] \in Instances
                          /\ \A k \in Todo : n <= k
                          /\ Enter("upgrade", snapshot[n], pendingModule)
    BY <1>5, UpgradeStep
  <2>2. Len(snapshot) # 0 /\ n \in Nat /\ index \in Nat
    BY <2>1 DEF BatchType
  <2>3. pendingModule \in 1..MaxModules /\ pendingRefresh /\ pendingModule = module
    BY <2>2, ConstantsAssumption DEF EditorOnly, RefreshScheduled
  <2>4. UNCHANGED <<inEditor, module, pendingRefresh, registered, pinned, failed, missed, snapshot>>
    BY <1>5 DEF Upgrade
  <2>5. "upgrade" \in Code
    BY DEF Code, MigrationCode
  <2>6. /\ \A j : j = snapshot[n] => Within("upgrade", j)'
        /\ \A d, j : Within(d, j) => Within(d, j)'
    <3> SUFFICES ASSUME NEW i \in Instances, i = snapshot[n]
                 PROVE  /\ Within("upgrade", i)'
                        /\ \A d, j : Within(d, j) => Within(d, j)'
      BY <2>1
    <3>1. Enter("upgrade", i, pendingModule)
      BY <2>1
    <3> QED BY <3>1, <2>3, <2>5, WithinEntered
  <2>7. \A i : Settled(i) => Settled(i)'
    BY <2>4, <2>6 DEF Settled
  <2>8. ASSUME NEW i \in registered, Comes(i) PROVE Settled(i)' \/ Comes(i)'
    <3>1. PICK k \in (index + 1)..Len(snapshot) : snapshot[k] = i
      BY <2>8 DEF Comes
    <3>2. CASE k \in (n + 1)..Len(snapshot)
      BY <2>1, <2>3, <2>4, <3>1, <3>2 DEF Comes
    <3>3. CASE k = n
      BY <2>6, <3>1, <3>3 DEF Settled
    <3>4. CASE k < n
      <4>1. k \notin Todo
        BY <2>1, <2>2, <3>1, <3>4
      <4>2. pinned[i] = pendingModule
        BY <3>1, <4>1, <2>8 DEF Todo
      <4> QED BY <2>3, <2>4, <4>2 DEF Settled
    <3>5. k \in (n + 1)..Len(snapshot) \/ k = n \/ k < n
      BY <2>1, <2>2, <3>1 DEF BatchType
    <3> QED BY <3>2, <3>3, <3>4, <3>5
  <2>9. inEditor' => \A i \in registered' : Settled(i)' \/ Comes(i)'
    BY <2>4, <2>7, <2>8, NoneForgottenMeaning
  <2> QED BY <2>9 DEF NoneForgotten, Settled, Comes
<1>6. CASE RefreshEnds
  <2>1. /\ Todo = {} /\ stack = <<>>
        /\ UNCHANGED <<inEditor, module, registered, pinned, failed, missed, stack>>
    BY <1>6 DEF RefreshEnds, Looping
  <2>2. ASSUME NEW i \in registered, Comes(i) PROVE pinned[i] = module
    <3>1. PICK k \in (index + 1)..Len(snapshot) : snapshot[k] = i
      BY <2>2 DEF Comes
    <3>2. pinned[i] = pendingModule
      BY <2>1, <2>2, <3>1 DEF Todo
    <3> QED BY <2>2, <3>2 DEF Comes, RefreshScheduled
  <2>3. inEditor => \A i \in registered : Settled(i)
    BY <2>2, NoneForgottenMeaning DEF Settled
  <2>4. inEditor' => \A i \in registered' : Settled(i)'
    BY <2>1, <2>3 DEF Settled, Within
  <2> QED BY <2>4 DEF NoneForgotten, Settled
<1>7. ASSUME NEW i \in Instances, InstanceCreate(i) \/ InstanceFree(i) \/ InstanceCall(i)
      PROVE  NoneForgotten'
  <2>1. \/ Enter("init", i, module) /\ module \in 1..MaxModules /\ i \notin registered
        \/ Enter("deinit", i, pinned[i]) /\ pinned[i] \in 1..MaxModules /\ registered' = registered \ {i}
        \/ Enter("call", i, pinned[i]) /\ pinned[i] \in 1..MaxModules
    BY <1>7, ConstantsAssumption DEF InstanceCreate, InstanceFree, InstanceCall, OwnInv
  <2>2. {"init", "deinit", "call"} \subseteq Code
    BY DEF Code
  <2>3. \A d, j : Within(d, j) => Within(d, j)'
    BY <2>1, <2>2, WithinEntered
  <2>4. /\ UNCHANGED <<inEditor, module, pendingRefresh, snapshot, index>>
        /\ registered' \subseteq registered
        /\ \A j \in registered' : j = i => UNCHANGED <<pinned, failed, missed>>
        /\ \A j \in Instances : j # i => pinned'[j] = pinned[j]
        /\ failed \ {i} \subseteq failed' /\ missed \ {i} \subseteq missed'
    BY <1>7, <2>1 DEF InstanceCreate, InstanceFree, InstanceCall, refresh
  <2>5. \A j \in registered' : Settled(j) => Settled(j)'
    BY <2>3, <2>4 DEF Settled
  <2> QED BY <2>4, <2>5, ForgottenStays
<1>8. CASE CallReturns
  <2>1. UNCHANGED <<inEditor, module, pendingRefresh, snapshot, index, registered, pinned, failed,
                    missed>>
    BY <1>8 DEF CallReturns, refresh
  <2>2. \A d, j : Within(d, j) /\ d # "call" => Within(d, j)'
    BY <1>8, WithinLeft DEF CallReturns
  <2>3. \A j : Settled(j) => Settled(j)'
    BY <2>1, <2>2 DEF Settled
  <2> QED BY <2>1, <2>3, ForgottenStays
<1>9. CASE CreateReturns
  <2>1. /\ UNCHANGED <<inEditor, module, pendingRefresh, snapshot, index, failed>>
        /\ \/ registered' = registered \cup {Current} /\ UNCHANGED <<pinned, missed>>
           \/ /\ registered' = registered /\ pinned' = [pinned EXCEPT ![Current] = 0]
              /\ missed' = missed \ {Current}
    BY <1>9 DEF CreateReturns, refresh
  <2>2. \A d, j : Within(d, j) /\ d # "init" => Within(d, j)'
    BY <1>9, WithinLeft DEF CreateReturns
  <2>3. /\ Current \notin registered /\ Current \in Instances
        /\ inEditor => pinned[Current] = module \/ Current \in missed
    <3>1. /\ Len(stack) \in DOMAIN stack /\ stack[Len(stack)].code = "init" /\ Current \in Instances
      BY <1>9, CurrentFrame DEF CreateReturns
    <3> QED BY <3>1 DEF OwnInv, Ends, ComingInv, Current
  <2>4. CASE ~inEditor
    BY <2>1, <2>4 DEF NoneForgotten
  <2>5. CASE inEditor
    <3>1. \A j \in registered' : Settled(j) => Settled(j)'
      BY <2>1, <2>2, <2>3 DEF Settled
    <3>2. \A j \in registered' : j \in registered \/ Settled(j)'
      BY <2>1, <2>3, <2>5 DEF Settled
    <3> QED BY <2>1, <3>1, <3>2, ForgottenStays
  <2> QED BY <2>4, <2>5
<1>10. CASE FreeReturns
  <2>1. /\ UNCHANGED <<inEditor, module, pendingRefresh, snapshot, index, registered, failed, missed>>
        /\ pinned' = [pinned EXCEPT ![Current] = 0]
    BY <1>10 DEF FreeReturns, refresh
  <2>2. \A d, j : Within(d, j) /\ d # "deinit" => Within(d, j)'
    BY <1>10, WithinLeft DEF FreeReturns
  <2>3. Current \notin registered
    <3>1. Len(stack) \in DOMAIN stack /\ stack[Len(stack)].code = "deinit"
      BY <1>10, CurrentFrame DEF FreeReturns
    <3> QED BY <3>1 DEF OwnInv, Ends, Current
  <2>4. \A j \in registered : pinned'[j] = pinned[j]
    BY <2>1, <2>3
  <2>5. \A j \in registered' : Settled(j) => Settled(j)'
    BY <2>1, <2>2, <2>4 DEF Settled
  <2> QED BY <2>1, <2>5, ForgottenStays
<1>11. CASE UpgradeReturns \/ DiscardReturns \/ RetireReturns \/ NotifyReturns
  <2>1. /\ UNCHANGED <<inEditor, module, pendingRefresh, pendingModule, snapshot, index, registered,
                       missed>>
        /\ failed \subseteq failed'
    BY <1>11 DEF UpgradeReturns, DiscardReturns, RetireReturns, NotifyReturns, refresh
  <2>2. DOMAIN stack = {1} /\ Current = stack[1].instance /\ Current \in Instances /\ Len(stack) = 1
    BY <1>11, MigrationReturns
  <2>3. ASSUME NEW j \in registered, j # Current, Settled(j) PROVE Settled(j)'
    <3>1. ~Within("upgrade", j) /\ ~Within("discard", j)
      BY <2>2, <2>3 DEF Within
    <3>2. pinned'[j] = pinned[j]
      BY <1>11, <2>3 DEF UpgradeReturns, DiscardReturns, RetireReturns, NotifyReturns
    <3> QED BY <2>1, <2>3, <3>1, <3>2 DEF Settled
  <2>4. ASSUME NEW j \in registered, j = Current, Settled(j) PROVE Settled(j)'
    <3>1. CASE RetireReturns \/ NotifyReturns
      <4>1. stack[1].code \in {"retire", "notify"} /\ pinned' = pinned
        BY <2>2, <3>1 DEF RetireReturns, NotifyReturns, Innermost
      <4>2. ~Within("upgrade", j) /\ ~Within("discard", j)
        BY <2>2, <4>1 DEF Within
      <4> QED BY <2>1, <2>4, <4>1, <4>2 DEF Settled
    <3>2. CASE DiscardReturns
      BY <2>4, <3>2 DEF DiscardReturns, Settled
    <3>3. CASE UpgradeReturns
      <4>1. pendingModule = module
        <5>1. stack[1].code = "upgrade" /\ 1 \in DOMAIN stack
          BY <2>2, <3>3 DEF UpgradeReturns, Innermost
        <5> QED BY <5>1 DEF ComingInv, RefreshScheduled
      <4>2. \/ j \in failed'
            \/ stack' = <<[stack[1] EXCEPT !.code = "discard"]>>
            \/ pinned' = [pinned EXCEPT ![j] = pendingModule]
        BY <2>4, <3>3 DEF UpgradeReturns
      <4>3. CASE stack' = <<[stack[1] EXCEPT !.code = "discard"]>>
        <5>1. stack[1] \in Frames
          BY <1>11, MigrationReturns
        <5> DEFINE frame == [stack[1] EXCEPT !.code = "discard"]
        <5>2. frame \in Frames /\ frame.code = "discard" /\ frame.instance = j
          BY <2>2, <2>4, <5>1 DEF Frames, Code, MigrationCode
        <5>3. stack' = <<frame>>
          BY <4>3
        <5> HIDE DEF frame
        <5>4. DOMAIN stack' = {1} /\ stack'[1] = frame
          BY <5>2, <5>3, Replaced
        <5>5. Within("discard", j)'
          BY <5>2, <5>4 DEF Within
        <5> QED BY <5>5 DEF Settled
      <4>4. CASE j \in failed' \/ pinned' = [pinned EXCEPT ![j] = pendingModule]
        BY <2>1, <4>1, <4>4 DEF Settled
      <4> QED BY <4>2, <4>3, <4>4
    <3> QED BY <1>11, <3>1, <3>2, <3>3
  <2>5. \A j \in registered' : Settled(j) => Settled(j)'
    BY <2>1, <2>3, <2>4
  <2> QED BY <2>1, <2>5, ForgottenStays
<1> QED BY <1>1, <1>2, <1>3, <1>4, <1>5, <1>6, <1>7, <1>8, <1>9, <1>10, <1>11
        DEF Next, LoopStep, Return

\* In the editor a registered instance runs the script's module, its migration
\* failed or goes on, or it is still to come in the snapshot, whatever is
\* published, created, freed or called, by whatever code; unless its init was
\* running when the module was published.
THEOREM NoneForgottenTheorem ==
    ASSUME ~MayDetach
    PROVE  Spec => []NoneForgotten
<1>1. Init => RefreshInv /\ WaitInv
  BY RefreshInit DEF Init, WaitInv, ComingInv, NoneForgotten
<1>2. RefreshInv /\ WaitInv /\ [Next]_vars => RefreshInv' /\ WaitInv'
  BY RefreshStep, ComingStep, ForgottenStep DEF WaitInv
<1>3. WaitInv => NoneForgotten
  BY DEF WaitInv
<1> QED BY <1>1, <1>2, <1>3, PTL DEF Spec

\* In a game every instance keeps the module it was created with until it goes.
THEOREM GameInstancesKeepTheirModule == Spec => InstancesKeepTheirModule
<1> DEFINE Keeps == ~inEditor => \A i \in Instances :
                        pinned[i] # 0 => pinned'[i] \in {0, pinned[i]}
<1>1. ASSUME RefreshInv, [Next]_vars, ~inEditor, NEW i \in Instances, pinned[i] # 0
      PROVE  pinned'[i] \in {0, pinned[i]}
  <2> USE DEF RefreshInv, ModuleType
  <2>1. CASE PublishInGame \/ PublishInEditor \/ ApplyNothing \/ ApplyPendingRefresh \/ LoopStep
               \/ UNCHANGED vars
    BY <2>1 DEF PublishInGame, PublishInEditor, ApplyNothing, ApplyPendingRefresh, LoopStep,
                Upgrade, BatchEnds, RefreshEnds, vars
  <2>2. ASSUME NEW j \in Instances, InstanceCreate(j) \/ InstanceFree(j) \/ InstanceCall(j)
        PROVE  pinned'[i] \in {0, pinned[i]}
    BY <1>1, <2>2 DEF InstanceCreate, InstanceFree, InstanceCall
  <2>3. CASE CallReturns \/ CreateReturns \/ FreeReturns \/ DiscardReturns \/ RetireReturns
               \/ NotifyReturns
    <3>1. pinned' = pinned \/ pinned' = [pinned EXCEPT ![Current] = 0]
      BY <2>3 DEF CallReturns, CreateReturns, FreeReturns, DiscardReturns, RetireReturns,
                  NotifyReturns
    <3> QED BY <1>1, <3>1
  <2>4. CASE UpgradeReturns
    BY <1>1, <2>4 DEF UpgradeReturns, EditorOnly, RefreshScheduled
  <2> QED BY <1>1, <2>1, <2>2, <2>3, <2>4 DEF Next, Return
<1>2. RefreshInv /\ [Next]_vars => [Keeps]_vars
  BY <1>1
<1>3. Spec => []RefreshInv
  BY RefreshInit, RefreshStep, PTL DEF Spec
<1> QED BY <1>2, <1>3, PTL DEF Spec, InstancesKeepTheirModule

-----------------------------------------------------------------------------
(* GzScriptExports                                                         *)

\* What the editor shows of the exports does not change what a script does.
LEMMA ScriptStep == [ExportsNext]_exportVars => [Next]_vars
<1>1. ASSUME NEW i \in Instances, FreeShown(i) PROVE Next
  BY <1>1 DEF FreeShown, Next
<1>2. ASSUME NEW h \in Placeholders, PlaceholderCreate(h) \/ PlaceholderErased(h)
      PROVE  UNCHANGED vars
  BY <1>2 DEF PlaceholderCreate, PlaceholderErased
<1>3. PublishExports \/ RetireShown \/ RefreshEndsExports \/ CreateShown \/ OtherStep => Next
  BY DEF PublishExports, RetireShown, RefreshEndsExports, CreateShown, OtherStep, Next, LoopStep,
         Return
<1>4. UNCHANGED exportVars => UNCHANGED vars
  BY DEF exportVars
<1> QED BY <1>1, <1>2, <1>3, <1>4 DEF ExportsNext

\* A script whose exports are shown behaves as a script, fairness included:
\* what is proved of GzScript holds of it.
THEOREM ScriptTheorem == ExportsSpec => Spec
<1>1. ExportsInit => Init
  BY DEF ExportsInit
<1> QED BY <1>1, ScriptStep, PTL DEF ExportsSpec, Spec

-----------------------------------------------------------------------------
(* Types of the views                                                      *)

\* The exports of whatever module the script has or had.
LEMMA ExportsInSchemas ==
    ASSUME exports \in [1..MaxModules -> Schemas], NEW m \in 0..MaxModules
    PROVE  Exports(m) \in Schemas \cup {NoSchema}
BY ConstantsAssumption DEF Exports

LEMMA ExportsTypesInit == ExportsInit => ExportsTypeOK
BY DEF ExportsInit, ExportsTypeOK

LEMMA ExportsTypesStep ==
    ASSUME ExportsTypeOK, RefreshInv, RefreshInv', [ExportsNext]_exportVars
    PROVE  ExportsTypeOK'
<1> USE DEF ExportsTypeOK
<1>1. \A m \in 0..MaxModules : Exports(m) \in Schemas \cup {NoSchema}
  BY ExportsInSchemas
<1>2. /\ module \in 0..MaxModules /\ module' \in 0..MaxModules
      /\ pinned \in [Instances -> 0..MaxModules] /\ pinned' \in [Instances -> 0..MaxModules]
      /\ inEditor \in BOOLEAN /\ pendingRefresh' \in BOOLEAN
  BY DEF RefreshInv, ModuleType, FlagType
<1>3. CASE PublishExports
  <2>1. given' \in [Placeholders -> Schemas \cup {NoSchema}]
    BY <1>1, <1>2, <1>3 DEF PublishExports, UpdateExports
  <2>2. exportsChanged' \in BOOLEAN /\ mixed' \in BOOLEAN
    <3>1. exportsChanged' = (inEditor /\ Exports(module') # Exports(module) /\ pendingRefresh')
      BY <1>3 DEF PublishExports
    <3>2. mixed' = (mixed \/ Mixes)
      BY <1>3 DEF PublishExports
    <3> QED BY <3>1, <3>2, Zenon
  <2>3. UNCHANGED <<exports, shown, placeholders>>
    BY <1>3 DEF PublishExports
  <2> QED BY <2>1, <2>2, <2>3
<1>4. CASE RetireShown
  <2>1. Exports(pinned[Current]) \in Schemas \cup {NoSchema}
    <3>1. Current \in Instances
      BY <1>4, CurrentFrame DEF RetireShown, RetireReturns, RefreshInv
    <3> QED BY <1>1, <1>2, <3>1
  <2> QED BY <1>4, <2>1 DEF RetireShown
<1>5. CASE CreateShown
  <2>1. Exports(pinned'[Current]) \in Schemas \cup {NoSchema}
    <3>1. Current \in Instances
      BY <1>5, CurrentFrame DEF CreateShown, CreateReturns, RefreshInv
    <3> QED BY <1>1, <1>2, <3>1
  <2> QED BY <1>5, <2>1 DEF CreateShown
<1>6. CASE RefreshEndsExports \/ OtherStep
  BY <1>6 DEF RefreshEndsExports, OtherStep, views
<1>7. ASSUME NEW i \in Instances, FreeShown(i) PROVE ExportsTypeOK'
  BY <1>7 DEF FreeShown
<1>8. ASSUME NEW h \in Placeholders, PlaceholderCreate(h) PROVE ExportsTypeOK'
  BY <1>1, <1>2, <1>8 DEF PlaceholderCreate
<1>9. ASSUME NEW h \in Placeholders, PlaceholderErased(h) PROVE ExportsTypeOK'
  BY <1>9 DEF PlaceholderErased
<1>10. CASE UNCHANGED exportVars
  BY <1>10 DEF exportVars, views
<1> QED BY <1>3, <1>4, <1>5, <1>6, <1>7, <1>8, <1>9, <1>10 DEF ExportsNext

ScriptInv == RefreshInv /\ ExportsTypeOK

LEMMA ScriptInvHolds == ExportsSpec => []ScriptInv
<1>1. ExportsInit => ScriptInv
  BY RefreshInit, ExportsTypesInit DEF ScriptInv, ExportsInit
<1>2. ScriptInv /\ [ExportsNext]_exportVars => ScriptInv'
  BY ScriptStep, RefreshStep, ExportsTypesStep DEF ScriptInv
<1> QED BY <1>1, <1>2, PTL DEF ExportsSpec

\* The script and the views of its exports keep their types.
THEOREM ExportsTypesTheorem == ExportsSpec => [](TypeOK /\ ExportsTypeOK)
<1>1. ScriptInv => TypeOK /\ ExportsTypeOK
  BY RefreshInvMeaning DEF ScriptInv
<1> QED BY <1>1, ScriptInvHolds, PTL

-----------------------------------------------------------------------------
(* Placeholders                                                            *)

\* A step that publishes nothing leaves the script's exports as they are.
LEMMA ExportsStay ==
    ASSUME UNCHANGED <<module, exports>>
    PROVE  Exports(module)' = Exports(module)
BY DEF Exports

\* Only a publish gives the script another module.
LEMMA ModuleStays ==
    ASSUME RetireShown \/ RefreshEndsExports \/ CreateShown \/ OtherStep \/ UNCHANGED exportVars
    PROVE  UNCHANGED <<module, exports, placeholders, given>>
<1>1. CASE RetireShown \/ RefreshEndsExports \/ CreateShown \/ UNCHANGED exportVars
  BY <1>1 DEF RetireShown, RetireReturns, RefreshEndsExports, RefreshEnds, CreateShown,
              CreateReturns, exportVars, views, vars
<1>2. CASE OtherStep
  BY <1>2 DEF OtherStep, ApplyPendingRefresh, ApplyNothing, Upgrade, BatchEnds, InstanceCreate,
              InstanceCall, CallReturns, FreeReturns, UpgradeReturns, DiscardReturns,
              NotifyReturns, views
<1> QED BY <1>1, <1>2

LEMMA PlaceholdersStep ==
    ASSUME ScriptInv, PlaceholdersCurrent, [ExportsNext]_exportVars
    PROVE  PlaceholdersCurrent'
<1> USE DEF ScriptInv, ExportsTypeOK, PlaceholdersCurrent
<1>1. CASE PublishExports
  <2>1. /\ IF Exports(module') # Exports(module)
           THEN UpdateExports(module') ELSE UNCHANGED given
        /\ UNCHANGED <<exports, placeholders>>
    BY <1>1 DEF PublishExports
  <2>2. Exports(module)' = Exports(module')
    BY <2>1 DEF Exports
  <2>3. CASE Exports(module') # Exports(module)
    BY <2>1, <2>2, <2>3 DEF UpdateExports
  <2>4. CASE Exports(module') = Exports(module)
    BY <2>1, <2>2, <2>4
  <2> QED BY <2>3, <2>4
<1>2. ASSUME UNCHANGED <<module, exports, placeholders, given>> PROVE PlaceholdersCurrent'
  BY <1>2, ExportsStay
<1>3. ASSUME NEW i \in Instances, FreeShown(i)
      PROVE  UNCHANGED <<module, exports, placeholders, given>>
  BY <1>3 DEF FreeShown, InstanceFree
<1>4. ASSUME NEW h \in Placeholders, PlaceholderCreate(h) PROVE PlaceholdersCurrent'
  <2>1. UNCHANGED <<module, exports>>
    BY <1>4 DEF PlaceholderCreate, vars
  <2> QED BY <1>4, <2>1, ExportsStay DEF PlaceholderCreate
<1>5. ASSUME NEW h \in Placeholders, PlaceholderErased(h) PROVE PlaceholdersCurrent'
  <2>1. UNCHANGED <<module, exports>>
    BY <1>5 DEF PlaceholderErased, vars
  <2> QED BY <1>5, <2>1, ExportsStay DEF PlaceholderErased
<1> QED BY <1>1, <1>2, <1>3, <1>4, <1>5, ModuleStays DEF ExportsNext

\* Placeholders have the exports of the script's module, however often it is
\* published and whenever they are created.
THEOREM PlaceholdersTheorem == ExportsSpec => []PlaceholdersCurrent
<1>1. ExportsInit => PlaceholdersCurrent
  BY DEF ExportsInit, PlaceholdersCurrent
<1> QED BY <1>1, PlaceholdersStep, ScriptInvHolds, PTL DEF ExportsSpec

-----------------------------------------------------------------------------
(* Inspectors                                                              *)

\* While a migration goes on that will notify nobody, no live instance has a
\* module with other exports than the one it migrates to.
QuietMigration ==
    inEditor /\ ~mixed /\ pendingRefresh /\ ~exportsChanged =>
        \A i \in Live : Exports(pinned[i]) = Exports(module)

\* Only an instance whose owner will be told is not shown as it is.
Shown(i) == shown[i] = Exports(pinned[i]) \/ (exportsChanged /\ Within("retire", i))
ShownInv == inEditor /\ ~mixed => \A i \in registered : Shown(i)

InspectorInv == ShownInv /\ QuietMigration

\* A step that registers no instance, moves none to another module but such as
\* have the script's, and takes no previous module's deinit from the stack.
LEMMA InspectorsStay ==
    ASSUME InspectorInv,
           UNCHANGED <<inEditor, module, exports, mixed, pendingRefresh, exportsChanged, shown>>,
           registered' \subseteq registered,
           \A i \in registered' : pinned'[i] = pinned[i],
           \A i \in registered' : Within("retire", i) => Within("retire", i)',
           \A i \in Live' : pinned'[i] = module \/ (i \in Live /\ pinned'[i] = pinned[i])
    PROVE  InspectorInv'
<1>1. ShownInv'
  BY DEF InspectorInv, ShownInv, Shown, Exports
<1>2. QuietMigration'
  BY DEF InspectorInv, QuietMigration, Exports
<1> QED BY <1>1, <1>2 DEF InspectorInv

\* If the instances are all on the script's module when another is published,
\* and their owners have been told, its comparison with the old exports is one
\* with theirs.
LEMMA InspectorsPublish ==
    ASSUME ScriptInv, InspectorInv, PublishExports
    PROVE  InspectorInv'
<1> USE DEF ScriptInv, RefreshInv, ModuleType, FlagType, ExportsTypeOK
<1>1. /\ UNCHANGED <<inEditor, exports, shown, pinned, registered>>
      /\ exportsChanged' = (inEditor /\ Exports(module') # Exports(module) /\ pendingRefresh')
      /\ mixed' = (mixed \/ Mixes)
  BY DEF PublishExports, PublishInGame, PublishInEditor
<1>2. Live' = Live
  BY <1>1 DEF Live
<1>3. \A i \in Live : (Exports(pinned[i]))' = Exports(pinned[i])
  BY <1>1 DEF Exports
<1>4. Exports(module)' = Exports(module')
  BY <1>1 DEF Exports
<1>5. ShownInv'
  <2> SUFFICES ASSUME inEditor, ~mixed, ~Mixes, NEW i \in registered
               PROVE  shown[i] = Exports(pinned[i])
    BY <1>1 DEF ShownInv, Shown, Exports
  <2> QED BY DEF InspectorInv, ShownInv, Shown, Mixes
<1>6. ASSUME inEditor, ~mixed', pendingRefresh', ~exportsChanged', NEW i \in Live
      PROVE  Exports(pinned[i])' = Exports(module)'
  <2>1. pinned[i] = module
    BY <1>1, <1>6 DEF Mixes
  <2>2. Exports(module') = Exports(module)
    BY <1>1, <1>6
  <2> QED BY <1>3, <1>4, <2>1, <2>2
<1> QED BY <1>1, <1>2, <1>5, <1>6 DEF InspectorInv, QuietMigration

\* The owner of an instance that has migrated is told, unless its exports are
\* those it was shown with.
LEMMA InspectorsRetire ==
    ASSUME ScriptInv, InspectorInv, RetireShown
    PROVE  InspectorInv'
<1> USE DEF ScriptInv, RefreshInv, ModuleType, ExportsTypeOK
<1>1. /\ UNCHANGED <<inEditor, module, exports, mixed, pendingRefresh, exportsChanged, registered,
                     pinned>>
      /\ IF exportsChanged THEN shown' = [shown EXCEPT ![Current] = Exports(pinned[Current])]
                           ELSE UNCHANGED shown
  BY DEF RetireShown, RetireReturns, refresh
<1>2. DOMAIN stack = {1} /\ Current = stack[1].instance /\ Current \in Instances
  BY MigrationReturns DEF RetireShown
<1>3. QuietMigration'
  BY <1>1 DEF InspectorInv, QuietMigration, Live, Exports
<1>4. ASSUME inEditor, ~mixed, NEW i \in registered PROVE shown'[i] = Exports(pinned[i])
  <2>1. i # Current => ~Within("retire", i)
    BY <1>2 DEF Within
  <2>2. CASE i = Current
    BY <1>1, <1>2, <1>4, <2>2 DEF InspectorInv, ShownInv, Shown
  <2>3. CASE i # Current
    BY <1>1, <1>4, <2>1, <2>3 DEF InspectorInv, ShownInv, Shown
  <2> QED BY <2>2, <2>3
<1>5. ShownInv'
  BY <1>1, <1>4 DEF ShownInv, Shown, Exports
<1> QED BY <1>3, <1>5 DEF InspectorInv

\* An inspector reads the exports of a new instance's module.
LEMMA InspectorsCreate ==
    ASSUME ScriptInv, InspectorInv, CreateShown
    PROVE  InspectorInv'
<1> USE DEF ScriptInv, RefreshInv, ModuleType, ExportsTypeOK
<1>1. /\ UNCHANGED <<inEditor, module, exports, mixed, pendingRefresh, exportsChanged>>
      /\ shown' = [shown EXCEPT ![Current] = Exports(pinned'[Current])]
      /\ \/ registered' = registered \cup {Current} /\ pinned' = pinned
         \/ registered' = registered /\ pinned' = [pinned EXCEPT ![Current] = 0]
  BY DEF CreateShown, CreateReturns, refresh
<1>2. Current \notin registered /\ Current \in Instances
  <2>1. Len(stack) \in DOMAIN stack /\ stack[Len(stack)].code = "init" /\ Current \in Instances
    BY CurrentFrame DEF CreateShown, CreateReturns
  <2> QED BY <2>1 DEF OwnInv, Ends, Current
<1>3. \A d, j : Within(d, j) /\ d # "init" => Within(d, j)'
  BY WithinLeft DEF CreateShown, CreateReturns
<1>4. \A i \in Live' : i \in Live /\ pinned'[i] = pinned[i]
  BY <1>1, <1>2 DEF Live
<1>5. QuietMigration'
  BY <1>1, <1>4 DEF InspectorInv, QuietMigration, Exports
<1>6. ASSUME inEditor, ~mixed, NEW i \in registered'
      PROVE  \/ shown'[i] = Exports(pinned'[i])
             \/ exportsChanged /\ Within("retire", i)'
  <2>1. CASE i = Current
    BY <1>1, <1>2, <2>1
  <2>2. CASE i # Current
    <3>1. i \in registered /\ shown'[i] = shown[i] /\ pinned'[i] = pinned[i]
      BY <1>1, <1>2, <1>6, <2>2
    <3>2. Shown(i)
      BY <1>6, <3>1 DEF InspectorInv, ShownInv
    <3> QED BY <1>3, <3>1, <3>2 DEF Shown
  <2> QED BY <2>1, <2>2
<1>7. ShownInv'
  BY <1>1, <1>6 DEF ShownInv, Shown, Exports
<1> QED BY <1>5, <1>7 DEF InspectorInv

\* An instance is moved to the next module: as long as its owner is not told,
\* the previous module's deinit runs, or nothing has changed.
LEMMA InspectorsUpgrade ==
    ASSUME ScriptInv, InspectorInv, UpgradeReturns, UNCHANGED <<exports, views>>
    PROVE  InspectorInv'
<1> USE DEF ScriptInv, RefreshInv, ModuleType, ExportsTypeOK
<1>1. UNCHANGED <<inEditor, module, exports, mixed, pendingRefresh, exportsChanged, shown, registered>>
  BY DEF UpgradeReturns, views, refresh
<1>2. /\ DOMAIN stack = {1} /\ Current = stack[1].instance /\ Current \in Instances
      /\ stack[1].code = "upgrade" /\ stack[1] \in Frames
  BY MigrationReturns DEF UpgradeReturns, Innermost
<1>3. \A i : ~Within("retire", i)
  BY <1>2 DEF Within
<1>4. CASE pinned' = pinned
  BY <1>1, <1>3, <1>4, InspectorsStay DEF Live
<1>5. ASSUME pendingModule # 0, pinned[Current] # 0,
             pinned' = [pinned EXCEPT ![Current] = pendingModule],
             stack' = <<[code |-> "retire", instance |-> Current, module |-> pinned[Current]]>>
      PROVE  InspectorInv'
  <2>1. pendingRefresh /\ pendingModule = module
    BY <1>5 DEF RefreshScheduled
  <2>2. PICK c \in Instances : c = Current
    BY <1>2
  <2>3. Within("retire", c)'
    <3> DEFINE frame == [code |-> "retire", instance |-> Current, module |-> pinned[Current]]
    <3>1. frame.code = "retire" /\ frame.instance = c /\ stack' = <<frame>>
      BY <1>5, <2>2
    <3> HIDE DEF frame
    <3>2. DOMAIN stack' = 1..1 /\ 1 \in 1..1 /\ stack'[1] = frame
      BY <3>1
    <3> QED BY <3>1, <3>2 DEF Within
  <2>4. \A i \in Live' : i \in Live /\ (pinned'[i] = pinned[i] \/ pinned'[i] = module)
    BY <1>2, <1>5, <2>1 DEF Live
  <2>5. QuietMigration'
    BY <1>1, <2>4 DEF InspectorInv, QuietMigration, Exports
  <2>6. ASSUME inEditor, ~mixed, NEW i \in registered
        PROVE  shown[i] = Exports(pinned'[i]) \/ (exportsChanged /\ i = c)
    <3>1. shown[i] = Exports(pinned[i]) /\ i \in Instances
      BY <1>3, <2>6 DEF InspectorInv, ShownInv, Shown
    <3>2. CASE i # c
      BY <1>5, <2>2, <3>1, <3>2
    <3>3. CASE i = c /\ ~exportsChanged
      <4>1. Exports(pinned[i]) = Exports(module)
        BY <1>5, <2>1, <2>2, <2>6, <3>3 DEF InspectorInv, QuietMigration, Live
      <4> QED BY <1>5, <2>1, <2>2, <3>1, <3>3, <4>1
    <3> QED BY <3>2, <3>3
  <2>7. ShownInv'
    BY <1>1, <2>3, <2>6 DEF ShownInv, Shown, Exports
  <2> QED BY <2>5, <2>7 DEF InspectorInv
<1> QED BY <1>4, <1>5 DEF UpgradeReturns

LEMMA InspectorsOther ==
    ASSUME ScriptInv, InspectorInv, OtherStep
    PROVE  InspectorInv'
<1> USE DEF ScriptInv, RefreshInv, ModuleType
<1>1. UNCHANGED <<exports, exportsChanged, shown, mixed>>
  BY DEF OtherStep, views
<1>2. CASE ApplyPendingRefresh \/ ApplyNothing \/ BatchEnds
  BY <1>1, <1>2, InspectorsStay DEF ApplyPendingRefresh, ApplyNothing, BatchEnds, Live, Within
<1>3. CASE Upgrade
  <2>1. PICK n \in Todo : snapshot[n] \in Instances /\ Enter("upgrade", snapshot[n], pendingModule)
                          /\ n \in (index + 1)..Len(snapshot)
    BY <1>3, UpgradeStep
  <2>2. Len(snapshot) # 0
    BY <2>1 DEF BatchType
  <2>3. pendingModule \in 1..MaxModules /\ "upgrade" \in Code
    BY <2>2, ConstantsAssumption DEF EditorOnly, Code, MigrationCode
  <2>4. \A d, j : Within(d, j) => Within(d, j)'
    BY <2>1, <2>3, WithinEntered
  <2>5. UNCHANGED <<inEditor, module, pendingRefresh, pinned, registered>>
    BY <1>3 DEF Upgrade
  <2> QED BY <1>1, <2>4, <2>5, InspectorsStay DEF Live
<1>4. ASSUME NEW i \in Instances, InstanceCreate(i) PROVE InspectorInv'
  <2>1. /\ module \in 1..MaxModules /\ Enter("init", i, module) /\ "init" \in Code
        /\ pinned' = [pinned EXCEPT ![i] = module] /\ pinned[i] = 0
        /\ UNCHANGED <<inEditor, module, pendingRefresh, registered>>
    BY <1>4, ConstantsAssumption DEF InstanceCreate, Code, refresh
  <2>2. \A d, j : Within(d, j) => Within(d, j)'
    BY <2>1, WithinEntered
  <2>3. i \notin registered
    BY <2>1 DEF OwnInv
  <2> QED BY <1>1, <2>1, <2>2, <2>3, InspectorsStay DEF Live
<1>5. ASSUME NEW i \in Instances, InstanceCall(i) PROVE InspectorInv'
  <2>1. /\ pinned[i] \in 1..MaxModules /\ Enter("call", i, pinned[i]) /\ "call" \in Code
        /\ UNCHANGED <<inEditor, module, pendingRefresh, registered, pinned>>
    BY <1>5, ConstantsAssumption DEF InstanceCall, Code, refresh
  <2>2. \A d, j : Within(d, j) => Within(d, j)'
    BY <2>1, WithinEntered
  <2> QED BY <1>1, <2>1, <2>2, InspectorsStay DEF Live
<1>6. CASE CallReturns
  <2>1. \A d, j : Within(d, j) /\ d # "call" => Within(d, j)'
    BY <1>6, WithinLeft DEF CallReturns
  <2>2. UNCHANGED <<inEditor, module, pendingRefresh, registered, pinned>>
    BY <1>6 DEF CallReturns, refresh
  <2> QED BY <1>1, <2>1, <2>2, InspectorsStay DEF Live
<1>7. CASE FreeReturns
  <2>1. \A d, j : Within(d, j) /\ d # "deinit" => Within(d, j)'
    BY <1>7, WithinLeft DEF FreeReturns
  <2>2. /\ UNCHANGED <<inEditor, module, pendingRefresh, registered>>
        /\ pinned' = [pinned EXCEPT ![Current] = 0]
    BY <1>7 DEF FreeReturns, refresh
  <2>3. Current \notin registered
    <3>1. Len(stack) \in DOMAIN stack /\ stack[Len(stack)].code = "deinit"
      BY <1>7, CurrentFrame DEF FreeReturns
    <3> QED BY <3>1 DEF OwnInv, Ends, Current
  <2>4. \A i \in registered' : pinned'[i] = pinned[i]
    BY <2>2, <2>3
  <2>5. \A i \in Live' : i \in Live /\ pinned'[i] = pinned[i]
    BY <2>2 DEF Live
  <2> QED BY <1>1, <2>1, <2>2, <2>4, <2>5, InspectorsStay
<1>8. CASE UpgradeReturns
  BY <1>8, InspectorsUpgrade DEF OtherStep
<1>9. CASE DiscardReturns \/ NotifyReturns
  <2>1. DOMAIN stack = {1} /\ stack[1].code \in {"discard", "notify"}
    BY <1>9, MigrationReturns DEF DiscardReturns, NotifyReturns, Innermost
  <2>2. \A i : ~Within("retire", i)
    BY <2>1 DEF Within
  <2>3. UNCHANGED <<inEditor, module, pendingRefresh, registered, pinned>>
    BY <1>9 DEF DiscardReturns, NotifyReturns, refresh
  <2> QED BY <1>1, <2>2, <2>3, InspectorsStay DEF Live
<1> QED BY <1>2, <1>3, <1>4, <1>5, <1>6, <1>7, <1>8, <1>9 DEF OtherStep

LEMMA InspectorsStep ==
    ASSUME ScriptInv, InspectorInv, [ExportsNext]_exportVars
    PROVE  InspectorInv'
<1> USE DEF ScriptInv, RefreshInv, ModuleType, ExportsTypeOK
<1>1. ASSUME NEW i \in Instances, FreeShown(i) PROVE InspectorInv'
  <2>1. /\ UNCHANGED <<inEditor, module, exports, mixed, pendingRefresh, exportsChanged, pinned>>
        /\ registered' = registered \ {i} /\ shown' = [shown EXCEPT ![i] = NoSchema]
        /\ Enter("deinit", i, pinned[i]) /\ pinned[i] \in 1..MaxModules /\ "deinit" \in Code
    BY <1>1, ConstantsAssumption DEF FreeShown, InstanceFree, OwnInv, Code, refresh
  <2>2. \A d, j : Within(d, j) => Within(d, j)'
    BY <2>1, WithinEntered
  <2>3. QuietMigration'
    BY <2>1 DEF InspectorInv, QuietMigration, Live, Exports
  <2>4. \A j \in registered' : j \in registered /\ shown'[j] = shown[j]
    BY <2>1
  <2>5. ShownInv'
    BY <2>1, <2>2, <2>4 DEF InspectorInv, ShownInv, Shown, Exports
  <2> QED BY <2>3, <2>5 DEF InspectorInv
<1>2. CASE RefreshEndsExports
  <2>1. /\ UNCHANGED <<inEditor, module, exports, mixed, shown, registered, pinned>>
        /\ ~pendingRefresh' /\ stack = <<>>
    BY <1>2 DEF RefreshEndsExports, RefreshEnds, Looping
  <2>2. \A i : ~Within("retire", i)
    BY <2>1 DEF Within
  <2>3. ShownInv'
    BY <2>1, <2>2 DEF InspectorInv, ShownInv, Shown, Exports
  <2> QED BY <2>1, <2>3 DEF InspectorInv, QuietMigration
<1>3. ASSUME UNCHANGED <<vars, exports, exportsChanged, shown, mixed>> PROVE InspectorInv'
  BY <1>3, InspectorsStay DEF vars, refresh, Live, Within
<1>4. ASSUME NEW h \in Placeholders, PlaceholderCreate(h) \/ PlaceholderErased(h)
      PROVE  InspectorInv'
  BY <1>3, <1>4 DEF PlaceholderCreate, PlaceholderErased
<1>5. CASE UNCHANGED exportVars
  BY <1>3, <1>5 DEF exportVars, views
<1> QED BY <1>1, <1>2, <1>4, <1>5, InspectorsPublish, InspectorsRetire, InspectorsCreate,
           InspectorsOther DEF ExportsNext

\* In the editor an inspector shows the exports of the module its instance
\* runs, for any interleaving of publishes, batches, creations, frees and calls
\* in which every publish finds the instances on the script's module and their
\* owners told.
THEOREM InspectorsTheorem == ExportsSpec => []InspectorsCurrent
<1>1. ExportsInit => InspectorInv
  BY DEF ExportsInit, Init, Live, InspectorInv, ShownInv, QuietMigration
<1>2. InspectorInv => InspectorsCurrent
  BY DEF InspectorInv, ShownInv, Shown, InspectorsCurrent
<1> QED BY <1>1, <1>2, InspectorsStep, ScriptInvHolds, PTL DEF ExportsSpec
==============================================================================
