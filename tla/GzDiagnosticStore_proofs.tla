---------------------- MODULE GzDiagnosticStore_proofs ----------------------
(***************************************************************************)
(* Proofs about GzDiagnosticStore for any number of documents, sources,    *)
(* producers and revisions, and about GzDiagnosticPath for paths of any    *)
(* length.  MCGzDiagnosticPath puts the two side by side.                  *)
(***************************************************************************)
EXTENDS MCGzDiagnosticPath, FoldInduction, FiniteSetTheorems, TLAPS

-----------------------------------------------------------------------------
(* The changed-document queue                                              *)

\* Marking keeps the two halves of the queue consistent.
LEMMA MarkedQueue ==
    ASSUME NEW d \in Docs, changedOrder \in Seq(Docs),
           changedSet = Range(changedOrder), IsInjective(changedOrder), MarkChanged(d)
    PROVE  /\ changedSet' = changedSet \cup {d}
           /\ changedOrder' \in Seq(Docs)
           /\ changedSet' = Range(changedOrder')
           /\ IsInjective(changedOrder')
<1>1. CASE d \in changedSet
  BY <1>1 DEF MarkChanged, changed
<1>2. CASE d \notin changedSet
  <2>1. /\ changedSet' = changedSet \cup {d}
        /\ changedOrder' = Append(changedOrder, d)
    BY <1>2 DEF MarkChanged
  <2>2. /\ changedOrder' \in Seq(Docs)
        /\ DOMAIN changedOrder' = 1..(Len(changedOrder) + 1)
        /\ \A i \in 1..Len(changedOrder) : changedOrder'[i] = changedOrder[i]
        /\ changedOrder'[Len(changedOrder) + 1] = d
        /\ DOMAIN changedOrder = 1..Len(changedOrder) /\ Len(changedOrder) \in Nat
    BY <2>1
  <2>3. Range(changedOrder') = Range(changedOrder) \cup {d}
    BY <2>2 DEF Range
  <2>4. IsInjective(changedOrder')
    BY <2>2, <1>2 DEF Range, IsInjective
  <2> QED BY <2>1, <2>2, <2>3, <2>4
<1> QED BY <1>1, <1>2

\* Taking a document out of the order takes out exactly that document.
LEMMA WithoutOne ==
    ASSUME NEW d \in Docs, changedOrder \in Seq(Docs), IsInjective(changedOrder)
    PROVE  /\ Without(d) \in Seq(Docs)
           /\ Range(Without(d)) = Range(changedOrder) \ {d}
           /\ IsInjective(Without(d))
<1>1. CASE d \notin Range(changedOrder)
  BY <1>1 DEF Without, Queued
<1>2. CASE d \in Range(changedOrder)
  <2> DEFINE at == CHOOSE i \in DOMAIN changedOrder : changedOrder[i] = d
             n  == Len(changedOrder)
             W  == [j \in 1..(n - 1) |-> IF j < at THEN changedOrder[j] ELSE changedOrder[j + 1]]
  <2>1. n \in Nat /\ DOMAIN changedOrder = 1..n /\ \A i \in 1..n : changedOrder[i] \in Docs
    OBVIOUS
  <2>2. at \in 1..n /\ changedOrder[at] = d
    BY <1>2, <2>1 DEF Range
  <2>3. Without(d) = W
    BY <1>2 DEF Without, Queued
  <2> HIDE DEF at, n
  <2>4. \A i, j \in 1..n : changedOrder[i] = changedOrder[j] => i = j
    BY <2>1 DEF IsInjective
  <2>5. W \in Seq(Docs) /\ DOMAIN W = 1..(n - 1)
    BY <2>1, <2>2
  <2>6. IsInjective(W)
    BY <2>1, <2>2, <2>4, <2>5 DEF IsInjective
  <2>7. ASSUME NEW x \in Range(W) PROVE x \in Range(changedOrder) \ {d}
    <3>1. PICK j \in 1..(n - 1) : x = W[j]
      BY <2>5 DEF Range
    <3>2. PICK k \in 1..n : k # at /\ x = changedOrder[k]
      BY <3>1, <2>1, <2>2
    <3> QED BY <3>2, <2>1, <2>2, <2>4 DEF Range
  <2>8. ASSUME NEW x \in Range(changedOrder) \ {d} PROVE x \in Range(W)
    <3>1. PICK k \in 1..n : x = changedOrder[k] /\ k # at
      BY <2>1, <2>2, <2>8 DEF Range
    <3>2. CASE k < at
      <4>1. k \in 1..(n - 1) /\ W[k] = x
        BY <3>1, <3>2, <2>1, <2>2
      <4> QED BY <4>1, <2>5 DEF Range
    <3>3. CASE k > at
      <4>1. k - 1 \in 1..(n - 1) /\ W[k - 1] = x
        BY <3>1, <3>3, <2>1, <2>2
      <4> QED BY <4>1, <2>5 DEF Range
    <3> QED BY <3>1, <3>2, <3>3, <2>1, <2>2
  <2> HIDE DEF W
  <2> QED BY <2>3, <2>5, <2>6, <2>7, <2>8
<1> QED BY <1>1, <1>2

\* Appending an ordering of new documents keeps the queue free of duplicates.
LEMMA AppendedOrder ==
    ASSUME NEW S \in SUBSET Docs, IsFiniteSet(S), NEW order \in Orders(S),
           changedOrder \in Seq(Docs), IsInjective(changedOrder),
           S \cap Range(changedOrder) = {}
    PROVE  /\ changedOrder \o order \in Seq(Docs)
           /\ Range(changedOrder \o order) = Range(changedOrder) \cup S
           /\ IsInjective(changedOrder \o order)
<1> DEFINE n == Len(changedOrder)
           m == Cardinality(S)
           C == changedOrder \o order
<1>1. m \in Nat
  BY FS_CardinalityType
<1>2. /\ order \in [1..m -> S] /\ IsInjective(order)
      /\ \A x \in S : \E i \in 1..m : order[i] = x
  BY DEF Orders, Bijection, Injection, Surjection
<1>3. order \in Seq(Docs) /\ Len(order) = m /\ DOMAIN order = 1..m
  BY <1>1, <1>2
<1>4. n \in Nat /\ DOMAIN changedOrder = 1..n
  OBVIOUS
<1> HIDE DEF m, n
<1>5. /\ C \in Seq(Docs) /\ DOMAIN C = 1..(n + m)
      /\ \A i \in 1..n : C[i] = changedOrder[i]
      /\ \A i \in 1..m : C[n + i] = order[i]
  <2>1. C \in Seq(Docs) /\ Len(C) = n + m
    BY <1>1, <1>3, <1>4 DEF n
  <2> QED BY <2>1, <1>1, <1>3, <1>4 DEF n
<1>6. \A i \in 1..(n + m) : i \in 1..n \/ (i - n \in 1..m /\ C[i] = order[i - n])
  <2> SUFFICES ASSUME NEW i \in 1..(n + m), i \notin 1..n
               PROVE  i - n \in 1..m /\ C[i] = order[i - n]
    OBVIOUS
  <2>1. i - n \in 1..m /\ n + (i - n) = i
    BY <1>1, <1>4
  <2>2. C[n + (i - n)] = order[i - n]
    BY <2>1, <1>5
  <2> QED BY <2>1, <2>2
<1>7. Range(C) = Range(changedOrder) \cup S
  <2>1. ASSUME NEW x \in Range(C) PROVE x \in Range(changedOrder) \cup S
    <3>1. PICK i \in 1..(n + m) : x = C[i]
      BY <1>5 DEF Range
    <3>2. CASE i \in 1..n
      BY <3>1, <3>2, <1>4, <1>5 DEF Range
    <3>3. CASE i \notin 1..n
      BY <3>1, <3>3, <1>2, <1>6
    <3> QED BY <3>2, <3>3
  <2>2. ASSUME NEW x \in Range(changedOrder) PROVE x \in Range(C)
    <3>1. PICK i \in 1..n : x = changedOrder[i]
      BY <1>4, <2>2 DEF Range
    <3>2. i \in DOMAIN C /\ C[i] = x
      BY <3>1, <1>1, <1>4, <1>5
    <3> QED BY <3>2 DEF Range
  <2>3. ASSUME NEW x \in S PROVE x \in Range(C)
    <3>1. PICK i \in 1..m : x = order[i]
      BY <1>2
    <3>2. n + i \in DOMAIN C /\ C[n + i] = x
      BY <3>1, <1>1, <1>4, <1>5
    <3> QED BY <3>2 DEF Range
  <2> HIDE DEF C
  <2> QED BY <2>1, <2>2, <2>3
<1>8. IsInjective(C)
  <2> SUFFICES ASSUME NEW i \in 1..(n + m), NEW j \in 1..(n + m), C[i] = C[j]
               PROVE  i = j
    BY <1>5 DEF IsInjective
  <2>1. CASE i \in 1..n /\ j \in 1..n
    BY <2>1, <1>4, <1>5 DEF IsInjective
  <2>2. CASE i \notin 1..n /\ j \notin 1..n
    <3>1. i - n \in 1..m /\ j - n \in 1..m /\ order[i - n] = order[j - n]
      BY <2>2, <1>6
    <3>2. i - n = j - n
      BY <3>1, <1>2, <1>3 DEF IsInjective
    <3> QED BY <3>2, <1>1, <1>4
  <2>3. \A k \in 1..(n + m) : k \in 1..n <=> C[k] \in Range(changedOrder)
    <3> SUFFICES ASSUME NEW k \in 1..(n + m)
                 PROVE  k \in 1..n <=> C[k] \in Range(changedOrder)
      OBVIOUS
    <3>1. k \in 1..n => C[k] \in Range(changedOrder)
      BY <1>4, <1>5 DEF Range
    <3>2. k \notin 1..n => C[k] \in S
      BY <1>2, <1>6
    <3> QED BY <3>1, <3>2
  <2> QED BY <2>1, <2>2, <2>3
<1> QED BY <1>5, <1>7, <1>8

-----------------------------------------------------------------------------
(* Safety                                                                  *)

\* A started analysis carries the generation of a tracked document.
WorkInv == \A p \in Producers : work[p] # Idle => work[p].generation # 0

StoreInv == TypeOK /\ ChangedQueueConsistent /\ WorkInv

\* Every public method of the store, and everything producers and consumer do
\* between two of them, keeps types and queue consistent.
LEMMA StoreStep ==
    ASSUME StoreInv, [Next]_vars
    PROVE  StoreInv'
<1> USE ConstantsAssumption DEF StoreInv, TypeOK, ChangedQueueConsistent, WorkInv, Tracked, NoDiagnostics, Works
<1>1. ASSUME NEW d \in Docs, OpenDocument(d) PROVE StoreInv'
  BY <1>1 DEF OpenDocument, NewContent, changed, consumer
<1>2. ASSUME NEW d \in Docs, AdvanceGeneration(d) PROVE StoreInv'
  BY <1>2 DEF AdvanceGeneration, NewContent, changed, consumer
<1>3. ASSUME NEW d \in Docs, CloseDocument(d) PROVE StoreInv'
  BY <1>3 DEF CloseDocument, changed, consumer
<1>4. ASSUME NEW d \in Docs, RemoveDocument(d) PROVE StoreInv'
  <2>1. /\ Without(d) \in Seq(Docs)
        /\ Range(Without(d)) = Range(changedOrder) \ {d}
        /\ IsInjective(Without(d))
    BY WithoutOne
  <2>2. changedOrder' = Without(d)
    BY <1>4 DEF RemoveDocument
  <2>3. ChangedQueueConsistent'
    BY <1>4, <2>1, <2>2 DEF RemoveDocument
  <2>4. TypeOK'
    BY <1>4, <2>1, <2>2 DEF RemoveDocument, consumer
  <2> QED BY <1>4, <2>3, <2>4 DEF RemoveDocument
<1>5. ASSUME NEW d \in Docs, ClearDocument(d) PROVE StoreInv'
  <2>1. /\ changedSet' = changedSet \cup {d}
        /\ changedOrder' \in Seq(Docs)
        /\ changedSet' = Range(changedOrder')
        /\ IsInjective(changedOrder')
    BY <1>5, MarkedQueue DEF ClearDocument
  <2>2. ChangedQueueConsistent'
    BY <1>5, <2>1 DEF ClearDocument
  <2>3. TypeOK'
    BY <1>5, <2>1 DEF ClearDocument, Store, consumer
  <2> QED BY <1>5, <2>2, <2>3 DEF ClearDocument
<1>6. ASSUME NEW d \in Docs, Show(d) PROVE StoreInv'
  BY <1>6 DEF Show, documents, changed
<1>7. ASSUME NEW d \in Docs, NEW s \in Sources, ClearSource(d, s) PROVE StoreInv'
  <2>1. /\ changedSet' = changedSet \cup {d}
        /\ changedOrder' \in Seq(Docs)
        /\ changedSet' = Range(changedOrder')
        /\ IsInjective(changedOrder')
    BY <1>7, MarkedQueue DEF ClearSource
  <2>2. ChangedQueueConsistent'
    BY <1>7, <2>1 DEF ClearSource
  <2>3. TypeOK'
    BY <1>7, <2>1 DEF ClearSource, Store, consumer
  <2> QED BY <1>7, <2>2, <2>3 DEF ClearSource
<1>8. ASSUME NEW s \in Sources, ClearAllFromSource(s) PROVE StoreInv'
  <2> DEFINE hit == {d \in Docs : Tracked(d) /\ bySource[d][s] # Empty}
  <2>1. PICK order \in Orders(hit \ changedSet) : changedOrder' = changedOrder \o order
    BY <1>8 DEF ClearAllFromSource
  <2>2. hit \in SUBSET Docs /\ \A d \in hit : generation[d] # 0
    OBVIOUS
  <2>3. IsFiniteSet(hit \ changedSet)
    BY <2>2, FS_Subset
  <2>4. changedSet' = changedSet \cup hit
    BY <1>8 DEF ClearAllFromSource
  <2>5. bySource' \in [Docs -> [Sources -> Batches]] /\ madeFor' \in [Docs -> [Sources -> Nat]]
    BY <1>8 DEF ClearAllFromSource
  <2>6. \A d \in Docs : generation[d] = 0 => bySource'[d] = bySource[d]
    BY <1>8 DEF ClearAllFromSource
  <2> HIDE DEF hit
  <2>7. /\ changedOrder' \in Seq(Docs)
        /\ Range(changedOrder') = Range(changedOrder) \cup (hit \ changedSet)
        /\ IsInjective(changedOrder')
    BY <2>1, <2>2, <2>3, AppendedOrder
  <2>8. ChangedQueueConsistent'
    BY <1>8, <2>2, <2>4, <2>7 DEF ClearAllFromSource
  <2>9. TypeOK'
    BY <1>8, <2>2, <2>4, <2>5, <2>6, <2>7 DEF ClearAllFromSource, consumer
  <2> QED BY <1>8, <2>8, <2>9 DEF ClearAllFromSource
<1>9. ASSUME NEW p \in Producers, NEW d \in Docs, NEW s \in Sources, StartWork(p, d, s) PROVE StoreInv'
  BY <1>9 DEF StartWork, documents, changed, consumer
<1>10. ASSUME NEW p \in Producers, NEW batch \in Batches, Submit(p, batch) PROVE StoreInv'
  <2>1. work[p] \in Works /\ work[p].doc \in Docs /\ work[p].source \in Sources
    BY <1>10 DEF Submit
  <2>2. work' \in [Producers -> Works \cup {Idle}] /\ WorkInv'
    BY <1>10 DEF Submit
  <2>3. UNCHANGED <<generation, closed, revision, todo, view>>
    BY <1>10 DEF Submit, consumer
  <2>4. CASE Reject(work[p])
    BY <1>10, <2>2, <2>3, <2>4 DEF Submit, changed
  <2>5. CASE ~Reject(work[p])
    <3>1. generation[work[p].doc] # 0
      BY <1>10, <2>1, <2>5 DEF Reject, Submit
    <3>2. Store(work[p].doc, work[p].source, batch, work[p].revision)
      BY <1>10, <2>5 DEF Submit
    <3>3. UNCHANGED changed \/ MarkChanged(work[p].doc)
      BY <1>10, <2>5 DEF Submit
    <3>4. /\ bySource' \in [Docs -> [Sources -> Batches]]
          /\ madeFor' \in [Docs -> [Sources -> Nat]]
          /\ \A d \in Docs \ {work[p].doc} : bySource'[d] = bySource[d]
      BY <2>1, <3>2 DEF Store
    <3>5. /\ changedSet' \in {changedSet, changedSet \cup {work[p].doc}}
          /\ changedOrder' \in Seq(Docs)
          /\ changedSet' = Range(changedOrder')
          /\ IsInjective(changedOrder')
      BY <2>1, <3>3, MarkedQueue DEF changed
    <3>6. ChangedQueueConsistent'
      BY <2>1, <2>3, <3>1, <3>5
    <3> QED BY <2>1, <2>2, <2>3, <3>1, <3>4, <3>5, <3>6
  <2> QED BY <2>4, <2>5
<1>11. ASSUME TakeChanged PROVE StoreInv'
  <2>1. changedOrder' = <<>> /\ changedSet' = {} /\ todo' = todo \cup changedSet
    BY <1>11 DEF TakeChanged
  <2>2. ChangedQueueConsistent'
    BY <2>1 DEF Range, IsInjective
  <2> QED BY <1>11, <2>1, <2>2 DEF TakeChanged, documents
<1>12. ASSUME UNCHANGED vars PROVE StoreInv'
  BY <1>12 DEF vars, documents, changed, consumer
<1> QED
  BY <1>1, <1>2, <1>3, <1>4, <1>5, <1>6, <1>7, <1>8, <1>9, <1>10, <1>11, <1>12
  DEF Next

\* An empty store is consistent.
LEMMA StoreInit == Init => StoreInv
<1> USE ConstantsAssumption DEF Init, StoreInv, TypeOK, ChangedQueueConsistent, WorkInv, NoDiagnostics, Tracked
<1>1. Init => ChangedQueueConsistent
  BY DEF Range, IsInjective
<1> QED BY <1>1

\* The types, and the agreement of changed_set_ and changed_order_, for every
\* interleaving of producers, consumer and document operations.
THEOREM StoreSafe == Spec => [](TypeOK /\ ChangedQueueConsistent)
<1>1. Init => StoreInv
  BY StoreInit
<1>2. StoreInv /\ [Next]_vars => StoreInv'
  BY StoreStep
<1>3. StoreInv => TypeOK /\ ChangedQueueConsistent
  BY DEF StoreInv
<1> QED BY <1>1, <1>2, <1>3, PTL DEF Spec

-----------------------------------------------------------------------------
(* Nothing late and nothing lost, while removed documents stay removed     *)

\* Generations count contents: they restart only with a document, and without
\* reopening a document starts once.
InStep ==
    /\ \A d \in Docs : generation[d] \in {0, revision[d]}
    /\ \A d \in Docs : revision[d] = 0 => view[d] = NoDiagnostics
    /\ \A p \in Producers : work[p] # Idle => work[p].generation = work[p].revision

\* Without reopening, a generation determines the content it was handed out
\* for, and the consumer shows nothing of a document it has never seen.
LEMMA InStepStep ==
    ASSUME ~MayReopen, StoreInv, InStep, [Next]_vars
    PROVE  InStep'
<1> USE ConstantsAssumption DEF StoreInv, TypeOK, InStep, Tracked, Works
<1>1. ASSUME NEW d \in Docs, OpenDocument(d) PROVE InStep'
  BY <1>1 DEF OpenDocument, NewContent, consumer
<1>2. ASSUME NEW d \in Docs, AdvanceGeneration(d) PROVE InStep'
  BY <1>2 DEF AdvanceGeneration, NewContent, consumer
<1>3. ASSUME NEW d \in Docs, CloseDocument(d) PROVE InStep'
  BY <1>3 DEF CloseDocument, consumer
<1>4. ASSUME NEW d \in Docs, RemoveDocument(d) PROVE InStep'
  BY <1>4 DEF RemoveDocument, consumer
<1>5. ASSUME NEW d \in Docs, ClearDocument(d) PROVE InStep'
  BY <1>5 DEF ClearDocument, consumer
<1>6. ASSUME NEW d \in Docs, Show(d) PROVE InStep'
  BY <1>6 DEF Show, documents
<1>7. ASSUME NEW d \in Docs, NEW s \in Sources, ClearSource(d, s) PROVE InStep'
  BY <1>7 DEF ClearSource, consumer
<1>8. ASSUME NEW s \in Sources, ClearAllFromSource(s) PROVE InStep'
  BY <1>8 DEF ClearAllFromSource, consumer
<1>9. ASSUME NEW p \in Producers, NEW d \in Docs, NEW s \in Sources, StartWork(p, d, s) PROVE InStep'
  BY <1>9 DEF StartWork, documents, consumer
<1>10. ASSUME NEW p \in Producers, NEW batch \in Batches, Submit(p, batch) PROVE InStep'
  BY <1>10 DEF Submit, consumer
<1>11. ASSUME TakeChanged PROVE InStep'
  BY <1>11 DEF TakeChanged, documents
<1>12. ASSUME UNCHANGED vars PROVE InStep'
  BY <1>12 DEF vars, documents, consumer
<1> QED
  BY <1>1, <1>2, <1>3, <1>4, <1>5, <1>6, <1>7, <1>8, <1>9, <1>10, <1>11, <1>12
  DEF Next

\* Whoever changes what a tracked document shows marks it, and what is marked
\* stays marked until it is drained, and drained until it is shown.
LEMMA NoLostStep ==
    ASSUME ~MayReopen, StoreInv, InStep, NoLostChange, [Next]_vars
    PROVE  NoLostChange'
<1> USE ConstantsAssumption DEF StoreInv, TypeOK, ChangedQueueConsistent, InStep, NoLostChange, Tracked, Works
<1>1. ASSUME NEW d \in Docs, OpenDocument(d) PROVE NoLostChange'
  BY <1>1 DEF OpenDocument, NewContent, changed, consumer
<1>2. ASSUME NEW d \in Docs, AdvanceGeneration(d) PROVE NoLostChange'
  BY <1>2 DEF AdvanceGeneration, NewContent, changed, consumer
<1>3. ASSUME NEW d \in Docs, CloseDocument(d) PROVE NoLostChange'
  BY <1>3 DEF CloseDocument, changed, consumer
<1>4. ASSUME NEW d \in Docs, RemoveDocument(d) PROVE NoLostChange'
  BY <1>4 DEF RemoveDocument, consumer
<1>5. ASSUME NEW d \in Docs, ClearDocument(d) PROVE NoLostChange'
  BY <1>5, MarkedQueue DEF ClearDocument, consumer
<1>6. ASSUME NEW d \in Docs, Show(d) PROVE NoLostChange'
  BY <1>6 DEF Show, documents, changed
<1>7. ASSUME NEW d \in Docs, NEW s \in Sources, ClearSource(d, s) PROVE NoLostChange'
  BY <1>7, MarkedQueue DEF ClearSource, Store, consumer
<1>8. ASSUME NEW s \in Sources, ClearAllFromSource(s) PROVE NoLostChange'
  BY <1>8 DEF ClearAllFromSource, consumer
<1>9. ASSUME NEW p \in Producers, NEW d \in Docs, NEW s \in Sources, StartWork(p, d, s) PROVE NoLostChange'
  BY <1>9 DEF StartWork, documents, changed, consumer
<1>10. ASSUME NEW p \in Producers, NEW batch \in Batches, Submit(p, batch) PROVE NoLostChange'
  <2>1. work[p].doc \in Docs /\ work[p].source \in Sources
    BY <1>10 DEF Submit
  <2>2. UNCHANGED <<generation, todo, view>>
    BY <1>10 DEF Submit, consumer
  <2>3. CASE UNCHANGED <<bySource, changed>>
    BY <2>2, <2>3 DEF changed
  <2>4. CASE ~Reject(work[p]) /\ batch = bySource[work[p].doc][work[p].source]
    <3>1. bySource' = [bySource EXCEPT ![work[p].doc][work[p].source] =
                           bySource[work[p].doc][work[p].source]]
      BY <1>10, <2>4 DEF Submit, Store
    <3>2. [bySource[work[p].doc] EXCEPT ![work[p].source] =
               bySource[work[p].doc][work[p].source]] = bySource[work[p].doc]
      BY <2>1
    <3>3. bySource' = bySource
      BY <2>1, <3>1, <3>2
    <3>4. UNCHANGED changed
      BY <1>10, <2>4 DEF Submit
    <3> QED BY <2>3, <3>3, <3>4
  <2>5. CASE ~Reject(work[p]) /\ batch # bySource[work[p].doc][work[p].source]
    <3>1. Store(work[p].doc, work[p].source, batch, work[p].revision) /\ MarkChanged(work[p].doc)
      BY <1>10, <2>5 DEF Submit
    <3>2. changedSet' = changedSet \cup {work[p].doc}
      BY <3>1, <2>1, MarkedQueue
    <3>3. \A d \in Docs \ {work[p].doc} : bySource'[d] = bySource[d]
      BY <3>1, <2>1 DEF Store
    <3> QED BY <2>2, <3>2, <3>3
  <2> QED BY <1>10, <2>3, <2>4, <2>5 DEF Submit
<1>11. ASSUME TakeChanged PROVE NoLostChange'
  BY <1>11 DEF TakeChanged, documents
<1>12. ASSUME UNCHANGED vars PROVE NoLostChange'
  BY <1>12 DEF vars, documents, changed, consumer
<1> QED
  BY <1>1, <1>2, <1>3, <1>4, <1>5, <1>6, <1>7, <1>8, <1>9, <1>10, <1>11, <1>12
  DEF Next

\* No interleaving of producers, consumer and document operations loses a
\* change.
THEOREM NoChangeLost == ASSUME ~MayReopen PROVE Spec => []NoLostChange
<1>1. Init => StoreInv
  BY StoreInit
<1>2. Init => InStep /\ NoLostChange
  BY DEF Init, InStep, NoLostChange, Tracked
<1>3. StoreInv /\ [Next]_vars => StoreInv'
  BY StoreStep
<1>4. StoreInv /\ InStep /\ [Next]_vars => InStep'
  BY InStepStep
<1>5. StoreInv /\ InStep /\ NoLostChange /\ [Next]_vars => NoLostChange'
  BY NoLostStep
<1> QED BY <1>1, <1>2, <1>3, <1>4, <1>5, PTL DEF Spec

\* Only replace() stores a batch, and it takes only the current generation,
\* which without reopening stands for the current content.
LEMMA TimelyStep ==
    ASSUME StoreInv, InStep, [Next]_vars
    PROVE  \A d \in Docs, s \in Sources :
               madeFor'[d][s] # madeFor[d][s] => madeFor'[d][s] \in {0, revision[d]}
<1> DEFINE Timely == \A d \in Docs, s \in Sources :
               madeFor'[d][s] # madeFor[d][s] => madeFor'[d][s] \in {0, revision[d]}
<1> USE ConstantsAssumption DEF StoreInv, TypeOK, WorkInv, InStep, Works
<1>1. ASSUME NEW d \in Docs, OpenDocument(d) PROVE Timely
  BY <1>1 DEF OpenDocument, consumer
<1>2. ASSUME NEW d \in Docs, AdvanceGeneration(d) PROVE Timely
  BY <1>2 DEF AdvanceGeneration, consumer
<1>3. ASSUME NEW d \in Docs, CloseDocument(d) PROVE Timely
  BY <1>3 DEF CloseDocument, consumer
<1>4. ASSUME NEW d \in Docs, RemoveDocument(d) PROVE Timely
  BY <1>4 DEF RemoveDocument, consumer
<1>5. ASSUME NEW d \in Docs, ClearDocument(d) PROVE Timely
  BY <1>5 DEF ClearDocument, consumer
<1>6. ASSUME NEW d \in Docs, Show(d) PROVE Timely
  BY <1>6 DEF Show
<1>7. ASSUME NEW d \in Docs, NEW s \in Sources, ClearSource(d, s) PROVE Timely
  BY <1>7 DEF ClearSource, Store
<1>8. ASSUME NEW s \in Sources, ClearAllFromSource(s) PROVE Timely
  BY <1>8 DEF ClearAllFromSource, consumer
<1>9. ASSUME NEW p \in Producers, NEW d \in Docs, NEW s \in Sources, StartWork(p, d, s) PROVE Timely
  BY <1>9 DEF StartWork, consumer
<1>10. ASSUME NEW p \in Producers, NEW batch \in Batches, Submit(p, batch) PROVE Timely
  <2>1. work[p].doc \in Docs /\ work[p].source \in Sources
    BY <1>10 DEF Submit
  <2>2. CASE UNCHANGED madeFor
    BY <2>2
  <2>3. CASE ~Reject(work[p])
    <3>1. madeFor' = [madeFor EXCEPT ![work[p].doc][work[p].source] = work[p].revision]
      BY <1>10, <2>3 DEF Submit, Store
    <3>2. work[p].revision = revision[work[p].doc]
      BY <1>10, <2>1, <2>3 DEF Submit, Reject
    <3> QED BY <2>1, <3>1, <3>2
  <2> QED BY <1>10, <2>2, <2>3 DEF Submit
<1>11. ASSUME TakeChanged PROVE Timely
  BY <1>11 DEF TakeChanged
<1>12. ASSUME UNCHANGED vars PROVE Timely
  BY <1>12 DEF vars
<1> QED
  BY <1>1, <1>2, <1>3, <1>4, <1>5, <1>6, <1>7, <1>8, <1>9, <1>10, <1>11, <1>12
  DEF Next

\* A batch enters the store only while the document has the content the
\* batch is about, however late its producer submits it.
THEOREM NothingLate == ASSUME ~MayReopen PROVE Spec => LateResultsRejected
<1> DEFINE Timely == \A d \in Docs, s \in Sources :
               madeFor'[d][s] # madeFor[d][s] => madeFor'[d][s] \in {0, revision[d]}
<1>1. Init => StoreInv
  BY StoreInit
<1>2. Init => InStep
  BY DEF Init, InStep
<1>3. StoreInv /\ [Next]_vars => StoreInv'
  BY StoreStep
<1>4. StoreInv /\ InStep /\ [Next]_vars => InStep'
  BY InStepStep
<1>5. StoreInv /\ InStep /\ [Next]_vars => [Timely]_vars
  BY TimelyStep
<1>6. Spec => [][Timely]_vars
  BY <1>1, <1>2, <1>3, <1>4, <1>5, PTL DEF Spec
<1> QED BY <1>6 DEF LateResultsRejected

-----------------------------------------------------------------------------
(* Paths: the three loops over segments                                    *)

\* A segment that is a name is kept as it is.
Names == Segments \ {"", ".", ".."}
Spots == [up : Nat, down : Seq(Names)]

\* What FoldLeft does at a segment.
DecodeStep == [p \in Seq(Segments) \X Segments |-> p[1] \o Decoded(p[2])]
ResolveStep(w) == [p \in Seq(Segments) \X Segments |-> Resolve(w, p[1], p[2])]
WalkStep(anchor) == [p \in Spots \X Segments |-> Walk(anchor, p[1], p[2])]

LEMMA SegmentsAre ==
    Segments = {"", ".", "..", "a", "file:", "res:", "C:", "%2e%2e", "a%2Fa"}
BY DEF Segments, Colons, Encoded

LEMMA DecodedType ==
    ASSUME NEW s \in Segments
    PROVE  Decoded(s) \in Seq(Segments) /\ Decoded(s) # <<>>
<1>1. CASE s = "%2e%2e"
  <2>1. Decoded(s) = <<"..">>
    BY <1>1 DEF Decoded
  <2>2. ".." \in Segments
    BY SegmentsAre
  <2> QED BY <2>1, <2>2
<1>2. CASE s = "a%2Fa"
  <2>1. Decoded(s) = <<"a", "a">>
    BY <1>2 DEF Decoded
  <2>2. "a" \in Segments
    BY SegmentsAre
  <2> QED BY <2>1, <2>2
<1>3. CASE s \notin {"%2e%2e", "a%2Fa"}
  BY <1>3 DEF Decoded
<1> QED BY <1>1, <1>2, <1>3

LEMMA DecodeStepType ==
    /\ \A p \in Seq(Segments) \X Segments : p[1] \o Decoded(p[2]) \in Seq(Segments)
    /\ <<>> \in Seq(Segments)
<1>1. ASSUME NEW p \in Seq(Segments) \X Segments
      PROVE  p[1] \o Decoded(p[2]) \in Seq(Segments)
  <2>1. p[1] \in Seq(Segments) /\ p[2] \in Segments
    OBVIOUS
  <2> QED BY <2>1, DecodedType, ConcatProperties
<1> QED BY <1>1

LEMMA ResolveType ==
    ASSUME NEW w, NEW p \in Seq(Segments) \X Segments
    PROVE  Resolve(w, p[1], p[2]) \in Seq(Segments)
<1>1. p[1] \in Seq(Segments) /\ p[2] \in Segments
  OBVIOUS
<1>2. p[1] # <<>> => Front(p[1]) \in Seq(Segments)
  BY <1>1, FrontProperties
<1>3. Append(p[1], p[2]) \in Seq(Segments)
  BY <1>1
<1> DEFINE removable == /\ p[1] # <<>> /\ Last(p[1]) # ".."
                        /\ ~(Len(p[1]) = 1 /\ HasDrive(w))
<1>4. Resolve(w, p[1], p[2]) \in {p[1], Front(p[1]), Append(p[1], p[2])}
      /\ (Resolve(w, p[1], p[2]) = Front(p[1]) => removable \/ Resolve(w, p[1], p[2]) \in {p[1], Append(p[1], p[2])})
  BY Zenon DEF Resolve
<1> QED BY <1>1, <1>2, <1>3, <1>4

LEMMA ResolveStepType ==
    ASSUME NEW w
    PROVE  /\ \A p \in Seq(Segments) \X Segments : Resolve(w, p[1], p[2]) \in Seq(Segments)
           /\ <<>> \in Seq(Segments)
<1>1. ASSUME NEW p \in Seq(Segments) \X Segments PROVE Resolve(w, p[1], p[2]) \in Seq(Segments)
  BY ResolveType
<1> QED BY <1>1

LEMMA WalkType ==
    ASSUME NEW anchor, NEW at \in Spots, NEW s \in Segments
    PROVE  Walk(anchor, at, s) \in Spots
<1>1. at.up \in Nat /\ at.down \in Seq(Names) /\ at = [up |-> at.up, down |-> at.down]
  BY DEF Spots
<1>2. CASE s \in {"", "."}
  BY <1>2 DEF Walk
<1>3. CASE s = ".." /\ at.down # <<>>
  <2>1. Walk(anchor, at, s) = [at EXCEPT !.down = Front(@)]
    BY <1>3 DEF Walk
  <2>2. Front(at.down) \in Seq(Names)
    BY <1>1, <1>3, FrontProperties
  <2> QED BY <1>1, <2>1, <2>2 DEF Spots
<1>4. CASE s = ".." /\ at.down = <<>>
  <2>1. Walk(anchor, at, s) = IF anchor = "here" THEN [at EXCEPT !.up = @ + 1] ELSE at
    BY <1>4 DEF Walk
  <2> QED BY <1>1, <2>1 DEF Spots
<1>5. CASE s \notin {"", ".", ".."}
  <2>1. Walk(anchor, at, s) = [at EXCEPT !.down = Append(@, s)]
    BY <1>5 DEF Walk
  <2>2. Append(at.down, s) \in Seq(Names)
    <3>1. s \in Names
      BY <1>5 DEF Names
    <3> QED BY <1>1, <3>1
  <2> QED BY <1>1, <2>1, <2>2 DEF Spots
<1> QED BY <1>2, <1>3, <1>4, <1>5

LEMMA WalkStepType ==
    ASSUME NEW anchor
    PROVE  /\ \A p \in Spots \X Segments : Walk(anchor, p[1], p[2]) \in Spots
           /\ [up |-> 0, down |-> <<>>] \in Spots
<1>1. [up |-> 0, down |-> <<>>] \in Spots
  BY DEF Spots
<1>2. ASSUME NEW p \in Spots \X Segments PROVE Walk(anchor, p[1], p[2]) \in Spots
  BY WalkType
<1> QED BY <1>1, <1>2

\* Decode, Parts and Walked are the folds of these steps.
LEMMA DecodeAre ==
    ASSUME NEW s \in Seq(Segments)
    PROVE  \E h \in [SUBSET (1..Len(s)) -> Seq(Segments)] :
              Folds(h, DecodeStep, <<>>, s, Len(s)) /\ Decode(s) = h[1..Len(s)]
<1> DEFINE n == Len(s)
<1>1. n \in Nat /\ s \in [1..n -> Segments] /\ DOMAIN s = 1..n
  BY LenProperties
<1> HIDE DEF n
<1>2. PICK h \in [SUBSET (1..n) -> Seq(Segments)] : Folds(h, DecodeStep, <<>>, s, n)
  <2>1. DecodeStep \in [Seq(Segments) \X Segments -> Seq(Segments)] /\ <<>> \in Seq(Segments)
    BY DecodeStepType DEF DecodeStep
  <2> QED BY <1>1, <2>1, FoldExists
<1>3. h[{}] = <<>>
  BY <1>2 DEF Folds
<1>4. \A S \in SUBSET (1..n) : S # {} => h[S] = h[S \ {Max(S)}] \o Decoded(s[Max(S)])
  <2> SUFFICES ASSUME NEW S \in SUBSET (1..n), S # {}
               PROVE  h[S] = h[S \ {Max(S)}] \o Decoded(s[Max(S)])
    OBVIOUS
  <2>1. Max(S) \in 1..n
    BY <1>1, MaxOf
  <2>2. s[Max(S)] \in Segments /\ h[S \ {Max(S)}] \in Seq(Segments)
    BY <1>1, <2>1
  <2> QED BY <1>2, <2>2 DEF Folds, DecodeStep
<1> DEFINE Step(f) == [S \in SUBSET (1..n) |->
                         IF S = {} THEN <<>>
                         ELSE LET x == Max(S) IN f[S \ {x}] \o Decoded(s[x])]
           iter == CHOOSE f : f = Step(f)
<1>5. Decode(s) = iter[1..n]
  BY <1>1, Zenon DEF Decode, FoldLeft, MapThenFoldSet
<1>6. iter = Step(iter)
  <2>1. h = Step(h)
    BY <1>3, <1>4
  <2> HIDE DEF Step
  <2> QED BY <2>1
<1> HIDE DEF iter
<1> DEFINE G == {S \in SUBSET (1..n) : iter[S] = h[S]}
<1>7. SUBSET (1..n) \subseteq G
  <2>1. {} \in G
    BY <1>3, <1>6
  <2>2. ASSUME NEW S \in SUBSET (1..n), S # {}, S \ {Max(S)} \in G PROVE S \in G
    BY <1>4, <1>6, <2>2
  <2> HIDE DEF G
  <2> QED BY <1>1, <2>1, <2>2, MaxInduction
<1>8. 1..n \in SUBSET (1..n)
  OBVIOUS
<1>9. Decode(s) = h[1..n]
  BY <1>5, <1>7, <1>8
<1> QED BY <1>2, <1>9 DEF n

LEMMA DecodeType ==
    ASSUME NEW s \in Seq(Segments)
    PROVE  Decode(s) \in Seq(Segments)
<1>1. PICK h \in [SUBSET (1..Len(s)) -> Seq(Segments)] : Decode(s) = h[1..Len(s)]
  BY DecodeAre
<1>2. 1..Len(s) \in SUBSET (1..Len(s))
  OBVIOUS
<1>3. h[1..Len(s)] \in Seq(Segments)
  BY <1>2, Zenon
<1> QED BY <1>1, <1>3

LEMMA DecodeEmpty == Decode(<<>>) = <<>>
<1>1. <<>> \in Seq(Segments) /\ Len(<<>>) = 0 /\ 1..0 = {}
  OBVIOUS
<1>2. PICK h : Folds(h, DecodeStep, <<>>, <<>>, Len(<<>>)) /\ Decode(<<>>) = h[1..Len(<<>>)]
  BY <1>1, DecodeAre
<1> QED BY <1>1, <1>2 DEF Folds

LEMMA DecodeAppend ==
    ASSUME NEW s \in Seq(Segments), NEW x \in Segments
    PROVE  Decode(Append(s, x)) = Decode(s) \o Decoded(x)
<1> DEFINE n == Len(s)
           t == Append(s, x)
<1>1. /\ n \in Nat /\ t \in Seq(Segments) /\ Len(t) = n + 1
      /\ (\A y \in 1..n : s[y] = t[y]) /\ t[n + 1] = x
  BY AppendProperties, LenProperties
<1>2. PICK h : Folds(h, DecodeStep, <<>>, s, n) /\ Decode(s) = h[1..n]
  BY DecodeAre
<1>3. PICK j : Folds(j, DecodeStep, <<>>, t, n + 1) /\ Decode(t) = j[1..(n + 1)]
  <2> HIDE DEF n, t
  <2>1. t \in Seq(Segments) /\ Len(t) = n + 1
    BY <1>1
  <2>2. \E j : Folds(j, DecodeStep, <<>>, t, Len(t)) /\ Decode(t) = j[1..Len(t)]
    BY <2>1, DecodeAre
  <2> QED BY <2>1, <2>2
<1> HIDE DEF n, t
<1>4. j[1..(n + 1)] = DecodeStep[<<h[1..n], t[n + 1]>>]
  <2>1. n \in Nat /\ \A y \in 1..n : s[y] = t[y]
    BY <1>1
  <2>2. PICK none : Folds(h, DecodeStep, none, s, n) /\ Folds(j, DecodeStep, none, t, n + 1)
    BY <1>2, <1>3
  <2> QED BY <2>1, <2>2, FoldsAppend
<1>5. Decode(s) \in Seq(Segments)
  BY DecodeType
<1>6. Decode(t) = DecodeStep[<<Decode(s), x>>]
  BY <1>1, <1>2, <1>3, <1>4
<1>7. Decode(t) = Decode(s) \o Decoded(x)
  BY <1>5, <1>6 DEF DecodeStep
<1> QED BY <1>7 DEF t

LEMMA PartsAre ==
    ASSUME NEW w, NEW s \in Seq(Segments)
    PROVE  \E h \in [SUBSET (1..Len(s)) -> Seq(Segments)] :
              Folds(h, ResolveStep(w), <<>>, s, Len(s)) /\ Parts(w, s) = h[1..Len(s)]
<1> DEFINE n == Len(s)
<1>1. n \in Nat /\ s \in [1..n -> Segments] /\ DOMAIN s = 1..n
  BY LenProperties
<1> HIDE DEF n
<1>2. PICK h \in [SUBSET (1..n) -> Seq(Segments)] : Folds(h, ResolveStep(w), <<>>, s, n)
  <2>1. ResolveStep(w) \in [Seq(Segments) \X Segments -> Seq(Segments)] /\ <<>> \in Seq(Segments)
    BY ResolveStepType DEF ResolveStep
  <2> QED BY <1>1, <2>1, FoldExists
<1>3. h[{}] = <<>>
  BY <1>2 DEF Folds
<1>4. \A S \in SUBSET (1..n) : S # {} => h[S] = Resolve(w, h[S \ {Max(S)}], s[Max(S)])
  <2> SUFFICES ASSUME NEW S \in SUBSET (1..n), S # {}
               PROVE  h[S] = Resolve(w, h[S \ {Max(S)}], s[Max(S)])
    OBVIOUS
  <2>1. Max(S) \in 1..n
    BY <1>1, MaxOf
  <2>2. s[Max(S)] \in Segments /\ h[S \ {Max(S)}] \in Seq(Segments)
    BY <1>1, <2>1
  <2> QED BY <1>2, <2>2 DEF Folds, ResolveStep
<1> DEFINE Step(f) == [S \in SUBSET (1..n) |->
                         IF S = {} THEN <<>>
                         ELSE LET x == Max(S) IN Resolve(w, f[S \ {x}], s[x])]
           iter == CHOOSE f : f = Step(f)
<1>5. Parts(w, s) = iter[1..n]
  BY <1>1, Zenon DEF Parts, FoldLeft, MapThenFoldSet
<1>6. iter = Step(iter)
  <2>1. h = Step(h)
    BY <1>3, <1>4
  <2> HIDE DEF Step
  <2> QED BY <2>1
<1> HIDE DEF iter
<1> DEFINE G == {S \in SUBSET (1..n) : iter[S] = h[S]}
<1>7. SUBSET (1..n) \subseteq G
  <2>1. {} \in G
    BY <1>3, <1>6
  <2>2. ASSUME NEW S \in SUBSET (1..n), S # {}, S \ {Max(S)} \in G PROVE S \in G
    BY <1>4, <1>6, <2>2
  <2> HIDE DEF G
  <2> QED BY <1>1, <2>1, <2>2, MaxInduction
<1>8. 1..n \in SUBSET (1..n)
  OBVIOUS
<1>9. Parts(w, s) = h[1..n]
  BY <1>5, <1>7, <1>8
<1> QED BY <1>2, <1>9 DEF n

LEMMA PartsType ==
    ASSUME NEW w, NEW s \in Seq(Segments)
    PROVE  Parts(w, s) \in Seq(Segments)
<1>1. PICK h \in [SUBSET (1..Len(s)) -> Seq(Segments)] : Parts(w, s) = h[1..Len(s)]
  BY PartsAre
<1>2. 1..Len(s) \in SUBSET (1..Len(s))
  OBVIOUS
<1>3. h[1..Len(s)] \in Seq(Segments)
  BY <1>2, Zenon
<1> QED BY <1>1, <1>3

LEMMA PartsEmpty == ASSUME NEW w PROVE Parts(w, <<>>) = <<>>
<1>1. <<>> \in Seq(Segments) /\ Len(<<>>) = 0 /\ 1..0 = {}
  OBVIOUS
<1>2. PICK h : Folds(h, ResolveStep(w), <<>>, <<>>, Len(<<>>)) /\ Parts(w, <<>>) = h[1..Len(<<>>)]
  BY <1>1, PartsAre
<1> QED BY <1>1, <1>2 DEF Folds

LEMMA PartsAppend ==
    ASSUME NEW w, NEW s \in Seq(Segments), NEW x \in Segments
    PROVE  Parts(w, Append(s, x)) = Resolve(w, Parts(w, s), x)
<1> DEFINE n == Len(s)
           t == Append(s, x)
<1>1. /\ n \in Nat /\ t \in Seq(Segments) /\ Len(t) = n + 1
      /\ (\A y \in 1..n : s[y] = t[y]) /\ t[n + 1] = x
  BY AppendProperties, LenProperties
<1>2. PICK h : Folds(h, ResolveStep(w), <<>>, s, n) /\ Parts(w, s) = h[1..n]
  BY PartsAre
<1>3. PICK j : Folds(j, ResolveStep(w), <<>>, t, n + 1) /\ Parts(w, t) = j[1..(n + 1)]
  <2> HIDE DEF n, t
  <2>1. t \in Seq(Segments) /\ Len(t) = n + 1
    BY <1>1
  <2>2. \E j : Folds(j, ResolveStep(w), <<>>, t, Len(t)) /\ Parts(w, t) = j[1..Len(t)]
    BY <2>1, PartsAre
  <2> QED BY <2>1, <2>2
<1> HIDE DEF n, t
<1>4. j[1..(n + 1)] = ResolveStep(w)[<<h[1..n], t[n + 1]>>]
  <2>1. n \in Nat /\ \A y \in 1..n : s[y] = t[y]
    BY <1>1
  <2>2. PICK none : Folds(h, ResolveStep(w), none, s, n) /\ Folds(j, ResolveStep(w), none, t, n + 1)
    BY <1>2, <1>3
  <2> QED BY <2>1, <2>2, FoldsAppend
<1>5. Parts(w, s) \in Seq(Segments)
  BY PartsType
<1>6. Parts(w, t) = ResolveStep(w)[<<Parts(w, s), x>>]
  BY <1>1, <1>2, <1>3, <1>4
<1>7. Parts(w, t) = Resolve(w, Parts(w, s), x)
  BY <1>5, <1>6 DEF ResolveStep
<1> QED BY <1>7 DEF t

LEMMA WalkedAre ==
    ASSUME NEW anchor, NEW s \in Seq(Segments)
    PROVE  \E h \in [SUBSET (1..Len(s)) -> Spots] :
              Folds(h, WalkStep(anchor), [up |-> 0, down |-> <<>>], s, Len(s)) /\ Walked(anchor, s) = h[1..Len(s)]
<1> DEFINE n == Len(s)
<1>1. n \in Nat /\ s \in [1..n -> Segments] /\ DOMAIN s = 1..n
  BY LenProperties
<1> HIDE DEF n
<1>2. PICK h \in [SUBSET (1..n) -> Spots] : Folds(h, WalkStep(anchor), [up |-> 0, down |-> <<>>], s, n)
  <2>1. WalkStep(anchor) \in [Spots \X Segments -> Spots] /\ [up |-> 0, down |-> <<>>] \in Spots
    BY WalkStepType DEF WalkStep
  <2> QED BY <1>1, <2>1, FoldExists
<1>3. h[{}] = [up |-> 0, down |-> <<>>]
  BY <1>2 DEF Folds
<1>4. \A S \in SUBSET (1..n) : S # {} => h[S] = Walk(anchor, h[S \ {Max(S)}], s[Max(S)])
  <2> SUFFICES ASSUME NEW S \in SUBSET (1..n), S # {}
               PROVE  h[S] = Walk(anchor, h[S \ {Max(S)}], s[Max(S)])
    OBVIOUS
  <2>1. Max(S) \in 1..n
    BY <1>1, MaxOf
  <2>2. s[Max(S)] \in Segments /\ h[S \ {Max(S)}] \in Spots
    BY <1>1, <2>1
  <2> QED BY <1>2, <2>2 DEF Folds, WalkStep
<1> DEFINE Step(f) == [S \in SUBSET (1..n) |->
                         IF S = {} THEN [up |-> 0, down |-> <<>>]
                         ELSE LET x == Max(S) IN Walk(anchor, f[S \ {x}], s[x])]
           iter == CHOOSE f : f = Step(f)
<1>5. Walked(anchor, s) = iter[1..n]
  BY <1>1, Zenon DEF Walked, FoldLeft, MapThenFoldSet
<1>6. iter = Step(iter)
  <2>1. h = Step(h)
    BY <1>3, <1>4
  <2> HIDE DEF Step
  <2> QED BY <2>1
<1> HIDE DEF iter
<1> DEFINE G == {S \in SUBSET (1..n) : iter[S] = h[S]}
<1>7. SUBSET (1..n) \subseteq G
  <2>1. {} \in G
    BY <1>3, <1>6
  <2>2. ASSUME NEW S \in SUBSET (1..n), S # {}, S \ {Max(S)} \in G PROVE S \in G
    BY <1>4, <1>6, <2>2
  <2> HIDE DEF G
  <2> QED BY <1>1, <2>1, <2>2, MaxInduction
<1>8. 1..n \in SUBSET (1..n)
  OBVIOUS
<1>9. Walked(anchor, s) = h[1..n]
  BY <1>5, <1>7, <1>8
<1> QED BY <1>2, <1>9 DEF n

LEMMA WalkedType ==
    ASSUME NEW anchor, NEW s \in Seq(Segments)
    PROVE  Walked(anchor, s) \in Spots
<1>1. PICK h \in [SUBSET (1..Len(s)) -> Spots] : Walked(anchor, s) = h[1..Len(s)]
  BY WalkedAre
<1>2. 1..Len(s) \in SUBSET (1..Len(s))
  OBVIOUS
<1>3. h[1..Len(s)] \in Spots
  BY <1>2, Zenon
<1> QED BY <1>1, <1>3

LEMMA WalkedEmpty == ASSUME NEW anchor PROVE Walked(anchor, <<>>) = [up |-> 0, down |-> <<>>]
<1>1. <<>> \in Seq(Segments) /\ Len(<<>>) = 0 /\ 1..0 = {}
  OBVIOUS
<1>2. PICK h : Folds(h, WalkStep(anchor), [up |-> 0, down |-> <<>>], <<>>, Len(<<>>)) /\ Walked(anchor, <<>>) = h[1..Len(<<>>)]
  BY <1>1, WalkedAre
<1> QED BY <1>1, <1>2 DEF Folds

LEMMA WalkedAppend ==
    ASSUME NEW anchor, NEW s \in Seq(Segments), NEW x \in Segments
    PROVE  Walked(anchor, Append(s, x)) = Walk(anchor, Walked(anchor, s), x)
<1> DEFINE n == Len(s)
           t == Append(s, x)
<1>1. /\ n \in Nat /\ t \in Seq(Segments) /\ Len(t) = n + 1
      /\ (\A y \in 1..n : s[y] = t[y]) /\ t[n + 1] = x
  BY AppendProperties, LenProperties
<1>2. PICK h : Folds(h, WalkStep(anchor), [up |-> 0, down |-> <<>>], s, n) /\ Walked(anchor, s) = h[1..n]
  BY WalkedAre
<1>3. PICK j : Folds(j, WalkStep(anchor), [up |-> 0, down |-> <<>>], t, n + 1) /\ Walked(anchor, t) = j[1..(n + 1)]
  <2> HIDE DEF n, t
  <2>1. t \in Seq(Segments) /\ Len(t) = n + 1
    BY <1>1
  <2>2. \E j : Folds(j, WalkStep(anchor), [up |-> 0, down |-> <<>>], t, Len(t)) /\ Walked(anchor, t) = j[1..Len(t)]
    BY <2>1, WalkedAre
  <2> QED BY <2>1, <2>2
<1> HIDE DEF n, t
<1>4. j[1..(n + 1)] = WalkStep(anchor)[<<h[1..n], t[n + 1]>>]
  <2>1. n \in Nat /\ \A y \in 1..n : s[y] = t[y]
    BY <1>1
  <2>2. PICK none : Folds(h, WalkStep(anchor), none, s, n) /\ Folds(j, WalkStep(anchor), none, t, n + 1)
    BY <1>2, <1>3
  <2> QED BY <2>1, <2>2, FoldsAppend
<1>5. Walked(anchor, s) \in Spots
  BY WalkedType
<1>6. Walked(anchor, t) = WalkStep(anchor)[<<Walked(anchor, s), x>>]
  BY <1>1, <1>2, <1>3, <1>4
<1>7. Walked(anchor, t) = Walk(anchor, Walked(anchor, s), x)
  BY <1>5, <1>6 DEF WalkStep
<1> QED BY <1>7 DEF t

-----------------------------------------------------------------------------
(* Paths: the parts are where the path leads                               *)

Ups(k) == [i \in 1..k |-> ".."]

\* The parts that stand for a spot below an anchor.
Stem(anchor, at) == IF anchor = "drive" THEN <<"C:">> ELSE Ups(at.up)
Placed(anchor, at) == Stem(anchor, at) \o at.down

\* Nothing leads up from a root or a drive.
Proper(anchor, at) == at \in Spots /\ (anchor # "here" => at.up = 0)

LEMMA AnchorIs ==
    ASSUME NEW w
    PROVE  /\ Anchor(w) \in {"drive", "root", "here"}
           /\ HasDrive(w) <=> Anchor(w) = "drive"
           /\ Anchor(w) = "root" => Rooted(w)
           /\ Rooted(w) \/ HasDrive(w) <=> Anchor(w) # "here"
<1> DEFINE drive == HasDrive(w)
           root == Rooted(w)
<1>1. drive \in BOOLEAN /\ root \in BOOLEAN
  BY DEF HasDrive, Rooted
<1>2. Anchor(w) = CASE drive -> "drive" [] ~drive /\ root -> "root" [] OTHER -> "here"
  BY DEF Anchor
<1> HIDE DEF drive, root
<1>3. /\ Anchor(w) \in {"drive", "root", "here"}
      /\ drive <=> Anchor(w) = "drive"
      /\ Anchor(w) = "root" => root
      /\ root \/ drive <=> Anchor(w) # "here"
  BY <1>1, <1>2
<1> QED BY <1>3 DEF drive, root

LEMMA UpsAre ==
    ASSUME NEW k \in Nat
    PROVE  /\ Ups(k) \in Seq(Segments) /\ Len(Ups(k)) = k
           /\ \A i \in 1..k : Ups(k)[i] = ".."
           /\ Append(Ups(k), "..") = Ups(k + 1)
           /\ (k = 0 <=> Ups(k) = <<>>)
<1>1. ".." \in Segments
  BY SegmentsAre
<1>2. Ups(k) \in Seq(Segments) /\ Len(Ups(k)) = k /\ \A i \in 1..k : Ups(k)[i] = ".."
  BY <1>1 DEF Ups
<1>3. Append(Ups(k), "..") = Ups(k + 1)
  <2>1. /\ Append(Ups(k), "..") \in Seq(Segments) /\ Len(Append(Ups(k), "..")) = k + 1
        /\ \A i \in 1..k : Append(Ups(k), "..")[i] = Ups(k)[i]
        /\ Append(Ups(k), "..")[k + 1] = ".."
    BY <1>1, <1>2, AppendProperties
  <2>2. Ups(k + 1) \in Seq(Segments) /\ Len(Ups(k + 1)) = k + 1 /\ \A i \in 1..(k + 1) : Ups(k + 1)[i] = ".."
    BY <1>1 DEF Ups
  <2>3. \A i \in 1..(k + 1) : i \in 1..k \/ i = k + 1
    OBVIOUS
  <2>4. \A i \in 1..(k + 1) : Append(Ups(k), "..")[i] = Ups(k + 1)[i]
    BY <1>2, <2>1, <2>2, <2>3
  <2> QED BY <2>1, <2>2, <2>4, SeqEqual
<1>4. k = 0 <=> Ups(k) = <<>>
  BY <1>2, EmptySeq
<1> QED BY <1>2, <1>3, <1>4

\* Taking back and appending reach the second of two texts, unless it is empty.
LEMMA ConcatEnds ==
    ASSUME NEW s \in Seq(Segments), NEW t \in Seq(Segments), t # <<>>
    PROVE  Last(s \o t) = Last(t) /\ Front(s \o t) = s \o Front(t)
<1>1. /\ s \o t \in Seq(Segments) /\ Len(s \o t) = Len(s) + Len(t)
      /\ \A i \in 1..(Len(s) + Len(t)) : (s \o t)[i] = IF i <= Len(s) THEN s[i] ELSE t[i - Len(s)]
  BY ConcatProperties
<1>2. Len(s) \in Nat /\ Len(t) \in Nat /\ Len(t) > 0
  BY EmptySeq, LenProperties
<1>3. s \o t # <<>>
  BY <1>1, <1>2, EmptySeq
<1>4. /\ Front(t) \in Seq(Segments) /\ Len(Front(t)) = Len(t) - 1
      /\ \A i \in 1..(Len(t) - 1) : Front(t)[i] = t[i]
      /\ Last(t) = t[Len(t)]
  BY FrontProperties
<1>5. /\ Front(s \o t) \in Seq(Segments) /\ Len(Front(s \o t)) = Len(s \o t) - 1
      /\ \A i \in 1..(Len(s \o t) - 1) : Front(s \o t)[i] = (s \o t)[i]
      /\ Last(s \o t) = (s \o t)[Len(s \o t)]
  BY <1>1, <1>3, FrontProperties
<1>6. Last(s \o t) = Last(t)
  BY <1>1, <1>2, <1>4, <1>5
<1>7. /\ s \o Front(t) \in Seq(Segments) /\ Len(s \o Front(t)) = Len(s) + Len(Front(t))
      /\ \A i \in 1..(Len(s) + Len(Front(t))) :
            (s \o Front(t))[i] = IF i <= Len(s) THEN s[i] ELSE Front(t)[i - Len(s)]
  BY <1>4, ConcatProperties
<1>8. ASSUME NEW i \in 1..Len(Front(s \o t)) PROVE Front(s \o t)[i] = (s \o Front(t))[i]
  <2>1. /\ i \in 1..(Len(s) + Len(t) - 1) /\ i \in 1..(Len(s) + Len(t)) /\ i \in Nat
        /\ Len(s) + Len(t) - 1 = Len(s) + Len(Front(t))
    BY <1>1, <1>2, <1>4, <1>5
  <2>2. Front(s \o t)[i] = IF i <= Len(s) THEN s[i] ELSE t[i - Len(s)]
    BY <1>1, <1>5, <2>1
  <2>3. (s \o Front(t))[i] = IF i <= Len(s) THEN s[i] ELSE Front(t)[i - Len(s)]
    BY <1>7, <2>1
  <2>4. i > Len(s) => i - Len(s) \in 1..(Len(t) - 1)
    BY <1>2, <2>1
  <2>5. i <= Len(s) \/ i > Len(s)
    BY <1>2, <2>1
  <2> QED BY <1>4, <2>2, <2>3, <2>4, <2>5
<1>9. Len(Front(s \o t)) = Len(s \o Front(t))
  BY <1>1, <1>2, <1>4, <1>5, <1>7
<1> QED BY <1>5, <1>6, <1>7, <1>8, <1>9, SeqEqual

LEMMA StemIs ==
    ASSUME NEW anchor, NEW at, Proper(anchor, at)
    PROVE  /\ at.up \in Nat /\ at.down \in Seq(Names) /\ at.down \in Seq(Segments)
           /\ at = [up |-> at.up, down |-> at.down]
           /\ Stem(anchor, at) \in Seq(Segments)
           /\ anchor = "drive" => Stem(anchor, at) = <<"C:">>
           /\ anchor = "root" => Stem(anchor, at) = <<>>
           /\ anchor = "here" => Stem(anchor, at) = Ups(at.up)
<1>1. at.up \in Nat /\ at.down \in Seq(Names) /\ at = [up |-> at.up, down |-> at.down]
  BY DEF Proper, Spots
<1>2. at.down \in Seq(Segments)
  <2>1. Names \subseteq Segments
    BY DEF Names
  <2> QED BY <1>1, <2>1, SeqMonotonic
<1>3. <<"C:">> \in Seq(Segments)
  <2>1. "C:" \in Segments
    BY SegmentsAre
  <2> QED BY <2>1
<1>4. Ups(at.up) \in Seq(Segments) /\ (at.up = 0 => Ups(at.up) = <<>>)
  BY <1>1, UpsAre
<1>5. anchor # "here" => at.up = 0
  BY DEF Proper
<1> QED BY <1>1, <1>2, <1>3, <1>4, <1>5 DEF Stem

\* One turn of the loop keeps the parts in step with the walk.
LEMMA TurnWalks ==
    ASSUME NEW w, NEW at, Proper(Anchor(w), at), NEW s \in Segments
    PROVE  /\ Proper(Anchor(w), Walk(Anchor(w), at, s))
           /\ Resolve(w, Placed(Anchor(w), at), s) = Placed(Anchor(w), Walk(Anchor(w), at, s))
<1> DEFINE a == Anchor(w)
           next == Walk(a, at, s)
           stem == Stem(a, at)
           down == at.down
           parts == Placed(a, at)
           removable == /\ parts # <<>> /\ Last(parts) # ".."
                        /\ ~(Len(parts) = 1 /\ HasDrive(w))
<1>1. /\ a \in {"drive", "root", "here"}
      /\ HasDrive(w) <=> a = "drive"
      /\ Rooted(w) \/ HasDrive(w) <=> a # "here"
  BY AnchorIs
<1>2. /\ at.up \in Nat /\ down \in Seq(Names) /\ down \in Seq(Segments)
      /\ at = [up |-> at.up, down |-> down] /\ stem \in Seq(Segments)
      /\ a = "drive" => stem = <<"C:">>
      /\ a = "root" => stem = <<>>
      /\ a = "here" => stem = Ups(at.up)
      /\ a # "here" => at.up = 0
  BY StemIs DEF Proper
<1>3. next \in Spots
  BY WalkType DEF Proper
<1>4. parts = stem \o down
  BY DEF Placed
<1>5. Resolve(w, parts, s) =
         CASE s \in {"", "."} -> parts
           [] s = ".." /\ removable -> Front(parts)
           [] s = ".." /\ ~removable ->
                 IF Rooted(w) \/ HasDrive(w) THEN parts ELSE Append(parts, s)
           [] OTHER -> Append(parts, s)
  BY Zenon DEF Resolve
<1> SUFFICES (a # "here" => next.up = 0) /\ Resolve(w, parts, s) = Placed(a, next)
  BY <1>3 DEF Proper
<1>6. CASE s \in {"", "."}
  <2>1. next = at /\ Resolve(w, parts, s) = parts
    BY <1>6, <1>5 DEF Walk
  <2> QED BY <1>2, <2>1
<1>7. CASE s = ".." /\ down # <<>>
  <2>1. next = [up |-> at.up, down |-> Front(down)]
    BY <1>2, <1>7 DEF Walk
  <2>2. Last(parts) = Last(down) /\ Front(parts) = stem \o Front(down)
    <3> HIDE DEF stem, down, parts
    <3> QED BY <1>2, <1>4, <1>7, ConcatEnds
  <2>3. Last(down) \in Names
    <3> HIDE DEF down
    <3> QED BY <1>2, <1>7, FrontProperties
  <2>4. Len(parts) = Len(stem) + Len(down) /\ Len(stem) \in Nat /\ Len(down) \in Nat /\ Len(down) > 0
    <3> HIDE DEF stem, down, parts
    <3> QED BY <1>2, <1>4, <1>7, ConcatProperties, EmptySeq, LenProperties
  <2>5. removable
    <3>1. Last(parts) # ".."
      BY <2>2, <2>3 DEF Names
    <3>2. parts # <<>>
      BY <2>4
    <3>3. a = "drive" => Len(stem) = 1
      BY <1>2
    <3>4. ~(Len(parts) = 1 /\ a = "drive")
      <4> HIDE DEF parts, stem, down, a
      <4> QED BY <2>4, <3>3
    <3> QED BY <1>1, <3>1, <3>2, <3>4
  <2>6. Resolve(w, parts, s) = Front(parts)
    <3> HIDE DEF removable, parts
    <3> QED BY <1>5, <1>7, <2>5
  <2>7. Placed(a, next) = stem \o Front(down)
    <3> HIDE DEF next
    <3>1. next.up = at.up /\ next.down = Front(down)
      BY <2>1
    <3> QED BY <3>1 DEF Placed, Stem
  <2>8. next.up = at.up
    BY <2>1
  <2> QED BY <1>2, <2>2, <2>6, <2>7, <2>8
<1>8. CASE s = ".." /\ down = <<>>
  <2>1. parts = stem
    BY <1>2, <1>4, <1>8, ConcatEmptySeq
  <2>2. CASE a = "here"
    <3>1. next = [up |-> at.up + 1, down |-> <<>>]
      BY <1>2, <1>8, <2>2 DEF Walk
    <3>2. parts = Ups(at.up)
      BY <1>2, <2>1, <2>2
    <3>3. parts = <<>> \/ Last(parts) = ".."
      <4>1. CASE at.up = 0
        BY <3>2, <4>1, UpsAre
      <4>2. CASE at.up # 0
        <5>1. at.up \in 1..at.up /\ Len(Ups(at.up)) = at.up /\ Ups(at.up)[at.up] = ".."
          BY <1>2, <4>2, UpsAre
        <5> QED BY <3>2, <5>1 DEF Last
      <4> QED BY <4>1, <4>2
    <3>4. Resolve(w, parts, s) = Append(parts, "..")
      <4>1. ~removable /\ ~(Rooted(w) \/ HasDrive(w))
        BY <1>1, <2>2, <3>3
      <4> HIDE DEF removable, parts
      <4> QED BY <1>5, <1>8, <4>1
    <3>5. Placed(a, next) = Ups(at.up + 1)
      <4> HIDE DEF next
      <4>1. next.up = at.up + 1 /\ next.down = <<>>
        BY <3>1
      <4>2. Stem(a, next) = Ups(at.up + 1)
        BY <2>2, <4>1 DEF Stem
      <4>3. Ups(at.up + 1) \in Seq(Segments)
        BY <1>2, UpsAre
      <4> QED BY <4>1, <4>2, <4>3, ConcatEmptySeq DEF Placed
    <3>6. Append(parts, "..") = Ups(at.up + 1)
      BY <1>2, <3>2, UpsAre
    <3> QED BY <2>2, <3>4, <3>5, <3>6
  <2>3. CASE a # "here"
    <3>1. next = at
      BY <1>8, <2>3 DEF Walk
    <3>2. parts = <<>> \/ (Len(parts) = 1 /\ HasDrive(w))
      BY <1>1, <1>2, <2>1, <2>3
    <3>3. Resolve(w, parts, s) = parts
      <4>1. ~removable /\ (Rooted(w) \/ HasDrive(w))
        BY <1>1, <2>3, <3>2
      <4> HIDE DEF removable, parts
      <4> QED BY <1>5, <1>8, <4>1
    <3> QED BY <1>2, <3>1, <3>3
  <2> QED BY <2>2, <2>3
<1>9. CASE s \notin {"", ".", ".."}
  <2>1. next = [up |-> at.up, down |-> Append(down, s)]
    BY <1>2, <1>9 DEF Walk
  <2>2. Resolve(w, parts, s) = Append(parts, s)
    <3> HIDE DEF removable, parts
    <3> QED BY <1>5, <1>9
  <2>3. Append(stem \o down, s) = stem \o Append(down, s)
    <3> HIDE DEF stem, down
    <3> QED BY <1>2
  <2>4. Placed(a, next) = stem \o Append(down, s)
    <3> HIDE DEF next
    <3>1. next.up = at.up /\ next.down = Append(down, s)
      BY <2>1
    <3> QED BY <3>1 DEF Placed, Stem
  <2>5. next.up = at.up
    BY <2>1
  <2> QED BY <1>2, <1>4, <2>2, <2>3, <2>4, <2>5
<1> QED BY <1>6, <1>7, <1>8, <1>9

LEMMA ProperStart == ASSUME NEW anchor PROVE Proper(anchor, [up |-> 0, down |-> <<>>])
BY DEF Proper, Spots

\* Without a drive the whole text is walked.
LEMMA PartsPlaced ==
    ASSUME NEW w, ~HasDrive(w), NEW s \in Seq(Segments)
    PROVE  /\ Proper(Anchor(w), Walked(Anchor(w), s))
           /\ Parts(w, s) = Placed(Anchor(w), Walked(Anchor(w), s))
<1> DEFINE a == Anchor(w)
           G == {t \in Seq(Segments) : Proper(a, Walked(a, t)) /\ Parts(w, t) = Placed(a, Walked(a, t))}
<1>1. <<>> \in G
  <2> DEFINE at == [up |-> 0, down |-> <<>>]
  <2>1. Walked(a, <<>>) = at /\ Parts(w, <<>>) = <<>> /\ Proper(a, at)
    BY WalkedEmpty, PartsEmpty, ProperStart
  <2>2. Stem(a, at) = <<>>
    <3>1. a # "drive" /\ Ups(0) = <<>>
      BY AnchorIs, UpsAre
    <3> QED BY <3>1 DEF Stem
  <2>3. Placed(a, at) = <<>>
    BY <2>2 DEF Placed
  <2> HIDE DEF at, a
  <2> QED BY <2>1, <2>3
<1>2. ASSUME NEW t \in Seq(Segments), NEW x \in Segments, t \in G PROVE Append(t, x) \in G
  <2>1. /\ Walked(a, Append(t, x)) = Walk(a, Walked(a, t), x)
        /\ Parts(w, Append(t, x)) = Resolve(w, Parts(w, t), x)
        /\ Append(t, x) \in Seq(Segments)
    BY WalkedAppend, PartsAppend
  <2>2. /\ Proper(a, Walk(a, Walked(a, t), x))
        /\ Resolve(w, Placed(a, Walked(a, t)), x) = Placed(a, Walk(a, Walked(a, t), x))
    BY <1>2, TurnWalks
  <2> HIDE DEF a
  <2> QED BY <1>2, <2>1, <2>2
<1> HIDE DEF G
<1>3. Seq(Segments) \subseteq G
  BY <1>1, <1>2, SeqInduction
<1> QED BY <1>3 DEF G

\* The drive is the first part, and what follows it is walked.
LEMMA DrivePlaced ==
    ASSUME NEW w, HasDrive(w), NEW s \in Seq(Segments)
    PROVE  /\ Proper("drive", Walked("drive", s))
           /\ Parts(w, <<"C:">> \o s) = Placed("drive", Walked("drive", s))
<1> DEFINE G == {t \in Seq(Segments) :
                   /\ Proper("drive", Walked("drive", t))
                   /\ Parts(w, <<"C:">> \o t) = Placed("drive", Walked("drive", t))}
<1>1. Anchor(w) = "drive"
  BY AnchorIs
<1>2. "C:" \in Segments /\ <<"C:">> \in Seq(Segments) /\ <<>> \in Seq(Segments)
  <2>1. "C:" \in Segments
    BY SegmentsAre
  <2> QED BY <2>1
<1>3. <<>> \in G
  <2> DEFINE at == [up |-> 0, down |-> <<>>]
  <2>1. Walked("drive", <<>>) = at /\ Proper("drive", at)
    BY WalkedEmpty, ProperStart
  <2>2. Placed("drive", at) = <<"C:">>
    <3>1. Stem("drive", at) = <<"C:">>
      BY DEF Stem
    <3> QED BY <3>1, <1>2, ConcatEmptySeq DEF Placed
  <2>3. <<"C:">> \o <<>> = Append(<<>>, "C:")
    OBVIOUS
  <2>4. Parts(w, Append(<<>>, "C:")) = Resolve(w, Parts(w, <<>>), "C:") /\ Parts(w, <<>>) = <<>>
    BY <1>2, PartsAppend, PartsEmpty
  <2>5. Resolve(w, <<>>, "C:") = Append(<<>>, "C:")
    BY DEF Resolve
  <2>6. Append(<<>>, "C:") = <<"C:">>
    OBVIOUS
  <2> HIDE DEF at
  <2> QED BY <1>2, <2>1, <2>2, <2>3, <2>4, <2>5, <2>6
<1>4. ASSUME NEW t \in Seq(Segments), NEW x \in Segments, t \in G PROVE Append(t, x) \in G
  <2>1. /\ Walked("drive", Append(t, x)) = Walk("drive", Walked("drive", t), x)
        /\ Append(t, x) \in Seq(Segments) /\ <<"C:">> \o t \in Seq(Segments)
    BY <1>2, WalkedAppend, ConcatProperties
  <2>2. <<"C:">> \o Append(t, x) = Append(<<"C:">> \o t, x)
    OBVIOUS
  <2>3. Parts(w, Append(<<"C:">> \o t, x)) = Resolve(w, Parts(w, <<"C:">> \o t), x)
    BY <2>1, PartsAppend
  <2>4. /\ Proper("drive", Walk("drive", Walked("drive", t), x))
        /\ Resolve(w, Placed("drive", Walked("drive", t)), x)
              = Placed("drive", Walk("drive", Walked("drive", t), x))
    BY <1>1, <1>4, TurnWalks
  <2> QED BY <1>4, <2>1, <2>2, <2>3, <2>4
<1> HIDE DEF G
<1>5. Seq(Segments) \subseteq G
  BY <1>3, <1>4, SeqInduction
<1> QED BY <1>5 DEF G

\* A text with a first segment, all of whose parts are placed where it leads.
LEMMA SpotPlaced ==
    ASSUME NEW w \in Seq(Segments), w # <<>>
    PROVE  /\ Proper(Anchor(w), Spot(w))
           /\ Parts(w, w) = Placed(Anchor(w), Spot(w))
<1>1. CASE ~HasDrive(w)
  BY <1>1, PartsPlaced DEF Spot
<1>2. CASE HasDrive(w)
  <2>1. Anchor(w) = "drive" /\ Spot(w) = Walked("drive", Tail(w))
    BY <1>2, AnchorIs DEF Spot
  <2>2. Tail(w) \in Seq(Segments)
    BY HeadTailProperties
  <2>3. w = <<"C:">> \o Tail(w)
    BY <1>2 DEF HasDrive
  <2> QED BY <1>2, <2>1, <2>2, <2>3, DrivePlaced
<1> QED BY <1>1, <1>2

\* The text that stands for a spot below an anchor.
Text(anchor, at) ==
    IF anchor = "root" THEN <<"">> \o (IF at.down = <<>> THEN <<"">> ELSE at.down)
    ELSE IF Placed(anchor, at) = <<>> THEN <<".">> ELSE Placed(anchor, at)

\* The key of a path is the text of where it leads.
LEMMA KeyIs ==
    ASSUME NEW p, Work(p) \in Seq(Segments), Work(p) # <<>>
    PROVE  Key(p) = Prefix(p) \o Text(Anchor(Work(p)), Spot(Work(p)))
<1> DEFINE w == Work(p)
           a == Anchor(w)
           at == Spot(w)
           parts == Parts(w, w)
<1>1. Proper(a, at) /\ parts = Placed(a, at)
  BY SpotPlaced
<1>2. Key(p) = Prefix(p) \o
          CASE Rooted(w) -> <<"">> \o (IF parts = <<>> THEN <<"">> ELSE parts)
            [] ~Rooted(w) /\ parts = <<>> -> <<".">>
            [] OTHER -> parts
  BY Zenon DEF Key
<1>3. Rooted(w) <=> a = "root"
  <2>1. Rooted(w) => ~HasDrive(w)
    BY DEF Rooted, HasDrive
  <2> QED BY <2>1, AnchorIs
<1>4. a = "root" => parts = at.down
  BY <1>1, StemIs, ConcatEmptySeq DEF Placed
<1>5. Rooted(w) \in BOOLEAN
  BY DEF Rooted
<1> HIDE DEF w, a, at, parts
<1>6. Text(a, at) = CASE Rooted(w) -> <<"">> \o (IF parts = <<>> THEN <<"">> ELSE parts)
                      [] ~Rooted(w) /\ parts = <<>> -> <<".">>
                      [] OTHER -> parts
  BY <1>1, <1>3, <1>4, <1>5 DEF Text
<1> QED BY <1>2, <1>6 DEF a, at, w

-----------------------------------------------------------------------------
(* Paths: a drive or a scheme comes before any name                        *)

\* What putting a segment in front gives.
LEMMA Prepended ==
    ASSUME NEW x \in Segments, NEW s \in Seq(Segments)
    PROVE  /\ <<x>> \o s \in Seq(Segments) /\ <<x>> \o s # <<>> /\ Len(<<x>> \o s) = Len(s) + 1
           /\ (<<x>> \o s)[1] = x
           /\ \A i \in 1..Len(s) : (<<x>> \o s)[i + 1] = s[i]
           /\ \A i \in 1..(Len(s) + 1) : i = 1 \/ (i - 1 \in 1..Len(s) /\ (<<x>> \o s)[i] = s[i - 1])
<1> DEFINE t == <<x>> \o s
           n == Len(s)
<1>1. <<x>> \in Seq(Segments) /\ Len(<<x>>) = 1 /\ <<x>>[1] = x
  OBVIOUS
<1>2. /\ t \in Seq(Segments) /\ Len(t) = 1 + n
      /\ \A i \in 1..(1 + n) : t[i] = IF i <= 1 THEN <<x>>[i] ELSE s[i - 1]
  BY <1>1, ConcatProperties
<1>3. n \in Nat
  BY LenProperties
<1> HIDE DEF t, n
<1>4. 1 \in 1..(1 + n) /\ Len(t) > 0 /\ Len(t) = n + 1
  BY <1>2, <1>3
<1>5. t[1] = x
  <2>1. t[1] = IF 1 <= 1 THEN <<x>>[1] ELSE s[1 - 1]
    BY <1>2, <1>4
  <2> QED BY <1>1, <2>1
<1>6. ASSUME NEW i \in 1..n PROVE t[i + 1] = s[i]
  <2>1. i + 1 \in 1..(1 + n) /\ ~(i + 1 <= 1) /\ (i + 1) - 1 = i
    BY <1>3
  <2>2. t[i + 1] = s[(i + 1) - 1]
    BY <1>2, <2>1
  <2> QED BY <2>1, <2>2
<1>7. ASSUME NEW i \in 1..(n + 1), i # 1 PROVE i - 1 \in 1..n /\ t[i] = s[i - 1]
  <2>1. i \in 1..(1 + n) /\ ~(i <= 1) /\ i - 1 \in 1..n
    BY <1>3, <1>7
  <2> QED BY <1>2, <2>1
<1>8. t # <<>>
  BY <1>2, <1>4, SomeElement
<1> QED BY <1>2, <1>4, <1>5, <1>6, <1>7, <1>8 DEF t, n

Early == Colons \cup {""}
AllEarly(s) == \A i \in 1..Len(s) : s[i] \in Early
Ordered(s) == \A i \in 1..Len(s) : s[i] \in Colons => \A j \in 1..i : s[j] \in Early

LEMMA OrderedAppend ==
    ASSUME NEW s \in Seq(Segments), NEW x \in Segments
    PROVE  /\ Ordered(Append(s, x)) <=> Ordered(s) /\ (x \in Colons => AllEarly(s))
           /\ AllEarly(Append(s, x)) <=> AllEarly(s) /\ x \in Early
<1> DEFINE n == Len(s)
           t == Append(s, x)
<1>1. n \in Nat /\ Len(t) = n + 1 /\ t[n + 1] = x /\ \A i \in 1..n : t[i] = s[i]
  BY AppendProperties, LenProperties
<1> HIDE DEF n, t
<1>2. \A i \in 1..(n + 1) : i \in 1..n \/ i = n + 1
  BY <1>1
<1>3. n + 1 \in 1..(n + 1) /\ (\A i \in 1..n : i \in 1..(n + 1)) /\ (\A i \in 1..n : \A j \in 1..i : j \in 1..n)
  BY <1>1
<1>4. AllEarly(t) <=> AllEarly(s) /\ x \in Early
  BY <1>1, <1>2, <1>3 DEF AllEarly, n
<1>5. ASSUME Ordered(t) PROVE Ordered(s) /\ (x \in Colons => AllEarly(s))
  <2>1. Ordered(s)
    BY <1>1, <1>3, <1>5 DEF Ordered, n
  <2>2. ASSUME x \in Colons PROVE AllEarly(s)
    BY <1>1, <1>3, <1>5, <2>2 DEF Ordered, AllEarly, n
  <2> QED BY <2>1, <2>2
<1>6. ASSUME Ordered(s), x \in Colons => AllEarly(s) PROVE Ordered(t)
  <2> SUFFICES ASSUME NEW i \in 1..(n + 1), t[i] \in Colons, NEW j \in 1..i PROVE t[j] \in Early
    BY <1>1 DEF Ordered
  <2>1. CASE i \in 1..n
    <3>1. s[j] \in Early /\ j \in 1..n
      BY <1>1, <1>3, <1>6, <2>1 DEF Ordered, n
    <3> QED BY <1>1, <3>1
  <2>2. CASE i = n + 1
    <3>1. x \in Colons
      BY <1>1, <2>2
    <3>2. CASE j \in 1..n
      BY <1>1, <1>6, <3>1, <3>2 DEF AllEarly, n
    <3>3. CASE j = n + 1
      BY <1>1, <3>1, <3>3 DEF Early
    <3> QED BY <1>2, <2>2, <3>2, <3>3
  <2> QED BY <1>2, <2>1, <2>2
<1> QED BY <1>4, <1>5, <1>6 DEF t

\* So no drive comes first where a path leads from the current directory.
LEMMA NoDriveHere ==
    ASSUME NEW w \in Seq(Segments), w # <<>>, Anchor(w) = "here", Ordered(w), Spot(w).down # <<>>
    PROVE  Spot(w).down[1] # "C:"
<1> DEFINE Down(t) == Walked("here", t).down
           Fits(t) == Ordered(t) /\ (t # <<>> => t[1] # "C:") /\ (Len(t) > 1 => t[1] # "")
           Good(t) == /\ Down(t) # <<>> => Down(t)[1] # "C:"
                      /\ t # <<>> /\ t[1] # "" /\ AllEarly(t) => Down(t) # <<>>
           G == {t \in Seq(Segments) : Fits(t) => Good(t)}
<1>1. <<>> \in G
  <2>1. Down(<<>>) = <<>>
    BY WalkedEmpty
  <2> QED BY <2>1
<1>2. ASSUME NEW t \in Seq(Segments), NEW x \in Segments, t \in G PROVE Append(t, x) \in G
  <2> DEFINE u == Append(t, x)
             d == Down(t)
             at == Walked("here", t)
  <2> SUFFICES ASSUME Fits(u) PROVE Good(u)
    BY AppendProperties
  <2>1. /\ u # <<>> /\ Len(u) = Len(t) + 1 /\ Len(t) \in Nat
        /\ t = <<>> => u[1] = x
        /\ t # <<>> => u[1] = t[1] /\ Len(t) > 0
    <3>1. /\ u # <<>> /\ Len(u) = Len(t) + 1
          /\ u[1] = IF t = <<>> THEN x ELSE t[1]
      BY Appended
    <3>2. Len(t) \in Nat /\ (t # <<>> => Len(t) > 0)
      BY SomeElement
    <3> HIDE DEF u
    <3> QED BY <3>1, <3>2
  <2>2. /\ Ordered(t) /\ (x \in Colons => AllEarly(t))
        /\ AllEarly(u) <=> AllEarly(t) /\ x \in Early
    BY OrderedAppend
  <2>3. /\ t # <<>> => t[1] # "C:" /\ t[1] # ""
        /\ t = <<>> => x # "C:"
    <3>1. (u # <<>> => u[1] # "C:") /\ (Len(u) > 1 => u[1] # "")
      OBVIOUS
    <3> HIDE DEF u
    <3>2. t # <<>> => Len(u) > 1
      <4>1. Len(u) = Len(t) + 1 /\ Len(t) \in Nat /\ (t # <<>> => Len(t) > 0)
        BY <2>1
      <4> HIDE DEF d, at, Fits, Good
      <4> QED BY <4>1
    <3> QED BY <2>1, <3>1, <3>2
  <2>4. Good(t)
    <3>1. Fits(t) => Good(t)
      BY <1>2
    <3>2. Fits(t)
      <4>1. Len(t) > 1 => t # <<>>
        <5>1. Len(t) \in Nat /\ (t # <<>> <=> Len(t) > 0)
          BY SomeElement
        <5> HIDE DEF u, d, at, Fits, Good
        <5> QED BY <5>1
      <4> QED BY <2>2, <2>3, <4>1
    <3> HIDE DEF Fits, Good
    <3> QED BY <3>1, <3>2
  <2>5. at \in Spots /\ Down(u) = Walk("here", at, x).down
    BY WalkedAppend, WalkedType
  <2>6. d \in Seq(Names) /\ at = [up |-> at.up, down |-> d]
    BY <2>5 DEF Spots
  <2>7. /\ d # <<>> => d[1] # "C:"
        /\ t # <<>> /\ AllEarly(t) => d # <<>>
    BY <2>3, <2>4
  <2>8. CASE x \in {"", "."}
    <3>1. Down(u) = d
      BY <2>5, <2>8 DEF Walk
    <3>2. t = <<>> => u[1] = "" \/ ~AllEarly(u)
      BY <2>1, <2>2, <2>8 DEF Early, Colons
    <3> HIDE DEF Down, u, d
    <3> QED BY <2>2, <2>7, <3>1, <3>2
  <2>9. CASE x = ".."
    <3>1. ~AllEarly(u)
      BY <2>2, <2>9 DEF Early, Colons
    <3>2. CASE d = <<>>
      <4>1. Down(u) = d
        BY <2>5, <2>6, <2>9, <3>2 DEF Walk
      <4> HIDE DEF Down, u, d
      <4> QED BY <3>1, <3>2, <4>1
    <3>3. CASE d # <<>>
      <4>1. Down(u) = Front(d)
        BY <2>5, <2>6, <2>9, <3>3 DEF Walk
      <4>2. /\ Front(d) \in Seq(Names) /\ Len(Front(d)) = Len(d) - 1 /\ Len(d) \in Nat
            /\ \A i \in 1..(Len(d) - 1) : Front(d)[i] = d[i]
        <5> HIDE DEF d
        <5> QED BY <2>6, <3>3, FrontProperties, LenProperties
      <4>3. Front(d) # <<>> => Front(d)[1] = d[1]
        <5> HIDE DEF d
        <5>1. Front(d) # <<>> => Len(Front(d)) > 0
          BY <4>2, SomeElement
        <5>2. Front(d) # <<>> => 1 \in 1..(Len(d) - 1)
          <6>1. Len(d) \in Nat /\ Len(Front(d)) = Len(d) - 1
            BY <4>2
          <6> HIDE DEF u, at, Fits, Good, Down
          <6> QED BY <5>1, <6>1
        <5> QED BY <4>2, <5>2
      <4> HIDE DEF Down, u, d
      <4> QED BY <2>7, <3>1, <3>3, <4>1, <4>3
    <3> QED BY <3>2, <3>3
  <2>10. CASE x \notin {"", ".", ".."}
    <3>1. Down(u) = Append(d, x) /\ x \in Names
      BY <2>5, <2>6, <2>10 DEF Walk, Names
    <3>2. Append(d, x) # <<>> /\ Append(d, x)[1] = IF d = <<>> THEN x ELSE d[1]
      <4>1. d \in Seq(Names) /\ x \in Names
        BY <2>6, <3>1
      <4> HIDE DEF d, u, at, Fits, Good, Down
      <4> QED BY <4>1, Appended
    <3>3. d = <<>> => x # "C:"
      BY <2>2, <2>3, <2>7 DEF Colons
    <3> HIDE DEF Down, u, d
    <3> QED BY <2>7, <3>1, <3>2, <3>3
  <2> QED BY <2>8, <2>9, <2>10
<1> HIDE DEF G
<1>3. Seq(Segments) \subseteq G
  BY <1>1, <1>2, SeqInduction
<1>4. ~HasDrive(w) /\ ~Rooted(w) /\ Spot(w) = Walked("here", w)
  BY AnchorIs DEF Spot
<1>5. Fits(w)
  BY <1>4 DEF HasDrive, Rooted
<1> QED BY <1>3, <1>4, <1>5 DEF G

\* What is left of an ordered text is ordered.
LEMMA OrderedSuffix ==
    ASSUME NEW s \in Seq(Segments), Ordered(s), NEW k \in 1..Len(s)
    PROVE  /\ SubSeq(s, k, Len(s)) \in Seq(Segments) /\ SubSeq(s, k, Len(s)) # <<>>
           /\ Ordered(SubSeq(s, k, Len(s)))
<1> DEFINE n == Len(s)
           t == SubSeq(s, k, n)
<1>1. n \in Nat /\ k \in Int /\ k <= n /\ k >= 1
  BY LenProperties
<1>2. \A i \in k..n : s[i] \in Segments
  BY <1>1, ElementOfSeq
<1>3. t \in Seq(Segments) /\ Len(t) = n - k + 1 /\ \A i \in 1..(n - k + 1) : t[i] = s[k + i - 1]
  <2> HIDE DEF n
  <2> QED BY <1>1, <1>2, SubSeqProperties
<1>4. t # <<>>
  <2>1. Len(t) > 0
    BY <1>1, <1>3
  <2> QED BY <1>3, <2>1, SomeElement
<1>5. Ordered(t)
  <2> SUFFICES ASSUME NEW i \in 1..(n - k + 1), t[i] \in Colons, NEW j \in 1..i PROVE t[j] \in Early
    BY <1>3 DEF Ordered
  <2> HIDE DEF t
  <2>1. /\ k + i - 1 \in 1..n /\ k + j - 1 \in 1..(k + i - 1) /\ j \in 1..(n - k + 1)
    BY <1>1
  <2>2. t[i] = s[k + i - 1] /\ t[j] = s[k + j - 1]
    BY <1>3, <2>1
  <2> QED BY <2>1, <2>2 DEF Ordered
<1> QED BY <1>3, <1>4, <1>5

\* Decoding adds no drive and no scheme.
LEMMA DecodeOrdered ==
    ASSUME NEW s \in Seq(Segments), Ordered(s), s # <<>>
    PROVE  Decode(s) \in Seq(Segments) /\ Decode(s) # <<>> /\ Ordered(Decode(s))
<1> DEFINE Good(t) == /\ t # <<>> => Decode(t) # <<>>
                      /\ Ordered(Decode(t)) /\ (AllEarly(t) => AllEarly(Decode(t)))
           G == {t \in Seq(Segments) : Ordered(t) => Good(t)}
<1>1. <<>> \in G
  <2>1. Decode(<<>>) = <<>> /\ Len(<<>>) = 0
    BY DecodeEmpty
  <2> QED BY <2>1 DEF Ordered, AllEarly
<1>2. ASSUME NEW t \in Seq(Segments), NEW x \in Segments, t \in G PROVE Append(t, x) \in G
  <2> DEFINE d == Decode(t)
             e == Decode(Append(t, x))
  <2> SUFFICES ASSUME Ordered(Append(t, x)) PROVE Good(Append(t, x))
    BY AppendProperties
  <2>1. /\ Ordered(t) /\ (x \in Colons => AllEarly(t))
        /\ AllEarly(Append(t, x)) <=> AllEarly(t) /\ x \in Early
    BY OrderedAppend
  <2>2. d \in Seq(Segments) /\ e = d \o Decoded(x) /\ Ordered(d) /\ (AllEarly(t) => AllEarly(d))
    BY <1>2, <2>1, DecodeAppend, DecodeType
  <2> HIDE DEF d, e
  <2> SUFFICES e # <<>> /\ Ordered(e) /\ (AllEarly(t) /\ x \in Early => AllEarly(e))
    BY <2>1 DEF e
  <2>3. CASE x \notin Encoded
    <3>1. Decoded(x) = <<x>>
      BY <2>3 DEF Decoded, Encoded
    <3>2. e = Append(d, x)
      BY <2>2, <3>1, AppendIsConcat
    <3>3. e # <<>>
      BY <2>2, <3>2, AppendProperties
    <3> QED BY <2>1, <2>2, <3>2, <3>3, OrderedAppend
  <2>4. CASE x = "%2e%2e"
    <3>1. e = d \o <<"..">> /\ ".." \in Segments /\ ".." \notin Colons /\ x \notin Early
      BY <2>2, <2>4, SegmentsAre DEF Decoded, Early, Colons
    <3>2. e = Append(d, "..")
      BY <2>2, <3>1, AppendIsConcat
    <3>3. ".." \in Segments /\ ".." \notin Colons
      BY <3>1
    <3>4. Ordered(e)
      BY <2>2, <3>2, <3>3, OrderedAppend
    <3>5. e # <<>>
      BY <2>2, <3>2, <3>3, Appended
    <3> QED BY <3>1, <3>4, <3>5
  <2>5. CASE x = "a%2Fa"
    <3>1. e = d \o <<"a", "a">> /\ "a" \in Segments /\ "a" \notin Colons /\ x \notin Early
      BY <2>2, <2>5, SegmentsAre DEF Decoded, Early, Colons
    <3>2. Append(d, "a") \in Seq(Segments) /\ Ordered(Append(d, "a"))
      BY <2>2, <3>1, OrderedAppend, AppendProperties
    <3>3. e = Append(Append(d, "a"), "a")
      <4>1. d \o <<"a", "a">> = Append(Append(d, "a"), "a")
        BY <2>2
      <4> QED BY <3>1, <4>1
    <3> DEFINE c == Append(d, "a")
    <3>4. c \in Seq(Segments) /\ Ordered(c) /\ e = Append(c, "a") /\ "a" \in Segments /\ "a" \notin Colons
      BY <3>1, <3>2, <3>3
    <3> HIDE DEF c
    <3>5. Ordered(e)
      BY <3>4, OrderedAppend
    <3>6. e # <<>>
      BY <3>4, Appended
    <3> QED BY <3>1, <3>5, <3>6
  <2> QED BY <2>3, <2>4, <2>5 DEF Encoded
<1> HIDE DEF G
<1>3. Seq(Segments) \subseteq G
  BY <1>1, <1>2, SeqInduction
<1> QED BY <1>3, DecodeType DEF G

\* The text that is resolved has segments, and is ordered if the path is.
LEMMA WorkType ==
    ASSUME NEW p \in Seq(Segments), p # <<>>, Ordered(p)
    PROVE  Work(p) \in Seq(Segments) /\ Work(p) # <<>> /\ Ordered(Work(p))
<1>1. CASE ~HasScheme(p)
  BY <1>1 DEF Work
<1>2. ASSUME HasScheme(p)
      PROVE  AfterScheme(p) \in Seq(Segments) /\ AfterScheme(p) # <<>> /\ Ordered(AfterScheme(p))
  <2>1. 3 \in 1..Len(p)
    <3>1. Len(p) \in Nat /\ Len(p) > 2
      BY <1>2, LenProperties DEF HasScheme
    <3> QED BY <3>1
  <2> QED BY <2>1, OrderedSuffix DEF AfterScheme
<1>3. CASE HasScheme(p) /\ p[1] = "file:"
  <2> DEFINE d == Decode(AfterScheme(p))
  <2>1. d \in Seq(Segments) /\ d # <<>> /\ Ordered(d)
    BY <1>2, <1>3, DecodeOrdered
  <2>2. Work(p) = FromFile(d)
    BY <1>3 DEF Work
  <2> HIDE DEF d
  <2>3. CASE FromFile(d) = d
    BY <2>1, <2>2, <2>3
  <2>4. CASE FromFile(d) # d
    <3>1. FromFile(d) = <<"">> \o d /\ \A n \in DOMAIN d : d[n] \notin Colons
      BY <2>4 DEF FromFile
    <3>2. "" \in Segments /\ "" \notin Colons
      BY SegmentsAre DEF Colons
    <3> DEFINE t == <<"">> \o d
    <3>3. /\ t \in Seq(Segments) /\ t # <<>> /\ Len(t) = Len(d) + 1 /\ t[1] = ""
          /\ \A i \in 1..(Len(d) + 1) : i = 1 \/ (i - 1 \in 1..Len(d) /\ t[i] = d[i - 1])
      BY <2>1, <3>2, Prepended
    <3>4. DOMAIN d = 1..Len(d)
      BY <2>1, SomeElement
    <3> HIDE DEF t
    <3>5. \A i \in 1..Len(t) : t[i] \notin Colons
      BY <3>1, <3>2, <3>3, <3>4
    <3>6. Ordered(t)
      BY <3>5 DEF Ordered
    <3> QED BY <2>2, <3>1, <3>3, <3>6 DEF t
  <2> QED BY <2>3, <2>4
<1>4. CASE HasScheme(p) /\ p[1] # "file:"
  <2> DEFINE s == AfterScheme(p)
  <2>1. s \in Seq(Segments) /\ s # <<>> /\ Ordered(s)
    BY <1>2, <1>4
  <2>2. Work(p) = FromScheme(s)
    BY <1>4 DEF Work
  <2> HIDE DEF s
  <2>3. CASE Len(s) > 1 /\ s[1] = ""
    <3>1. FromScheme(s) = SubSeq(s, 2, Len(s)) /\ 2 \in 1..Len(s)
      <4>1. Len(s) \in Nat /\ Len(s) > 1
        BY <2>1, <2>3, LenProperties
      <4>2. FromScheme(s) = SubSeq(s, 2, Len(s))
        BY <2>1, <2>3, TailIsSubSeq DEF FromScheme
      <4> QED BY <4>1, <4>2
    <3> QED BY <2>1, <2>2, <3>1, OrderedSuffix
  <2>4. CASE ~(Len(s) > 1 /\ s[1] = "")
    BY <2>1, <2>2, <2>4 DEF FromScheme
  <2> QED BY <2>3, <2>4
<1> QED BY <1>1, <1>3, <1>4

-----------------------------------------------------------------------------
(* Paths: the text of a spot leads to it                                   *)

\* Names are walked down.
LEMMA WalkedNames ==
    ASSUME NEW anchor, NEW s \in Seq(Segments), NEW d \in Seq(Names)
    PROVE  Walked(anchor, s \o d) =
              [up |-> Walked(anchor, s).up, down |-> Walked(anchor, s).down \o d]
<1> DEFINE at == Walked(anchor, s)
           G == {t \in Seq(Names) : Walked(anchor, s \o t) = [up |-> at.up, down |-> at.down \o t]}
<1>1. at.up \in Nat /\ at.down \in Seq(Names) /\ at = [up |-> at.up, down |-> at.down]
  BY WalkedType DEF Spots
<1>2. <<>> \in G
  <2>1. s \o <<>> = s /\ at.down \o <<>> = at.down
    BY <1>1, ConcatEmptySeq
  <2>2. Walked(anchor, s \o <<>>) = at
    BY <2>1
  <2>3. <<>> \in Seq(Names)
    OBVIOUS
  <2> HIDE DEF at
  <2> QED BY <1>1, <2>1, <2>2, <2>3
<1>3. ASSUME NEW t \in Seq(Names), NEW x \in Names, t \in G PROVE Append(t, x) \in G
  <2>1. Append(t, x) \in Seq(Names) /\ x \in Segments /\ t \in Seq(Segments) /\ s \o t \in Seq(Segments)
    <3>1. Names \subseteq Segments
      BY DEF Names
    <3>2. t \in Seq(Segments)
      BY <3>1, SeqMonotonic
    <3> QED BY <3>1, <3>2, ConcatProperties
  <2>2. s \o Append(t, x) = Append(s \o t, x)
    BY <2>1
  <2>3. Walked(anchor, Append(s \o t, x)) = Walk(anchor, Walked(anchor, s \o t), x)
    BY <2>1, WalkedAppend
  <2>4. x \notin {"", ".", ".."}
    BY DEF Names
  <2>5. \A v : Walk(anchor, v, x) = [v EXCEPT !.down = Append(@, x)]
    BY <2>4 DEF Walk
  <2>6. at.down \o Append(t, x) = Append(at.down \o t, x)
    <3> DEFINE e == at.down
    <3>1. e \in Seq(Names)
      BY <1>1
    <3> HIDE DEF e
    <3>2. e \o Append(t, x) = Append(e \o t, x)
      BY <3>1, ConcatAppend
    <3> QED BY <3>2 DEF e
  <2>7. Walked(anchor, s \o t) = [up |-> at.up, down |-> at.down \o t]
    BY <1>3
  <2> DEFINE up == at.up
             down == at.down
  <2>8. Walked(anchor, s \o Append(t, x)) = [up |-> up, down |-> down \o Append(t, x)]
    <3> DEFINE e == down \o t
    <3>1. Walked(anchor, s \o Append(t, x)) = Walk(anchor, [up |-> up, down |-> e], x)
      BY <2>2, <2>3, <2>7
    <3>2. down \o Append(t, x) = Append(e, x)
      BY <2>6
    <3> HIDE DEF up, down, e
    <3>3. Walk(anchor, [up |-> up, down |-> e], x) = [up |-> up, down |-> Append(e, x)]
      BY <2>5
    <3> QED BY <3>1, <3>2, <3>3
  <2> HIDE DEF at
  <2> QED BY <2>1, <2>8
<1> HIDE DEF G
<1>4. Seq(Names) \subseteq G
  BY <1>2, <1>3, SeqInduction
<1> QED BY <1>4 DEF G

LEMMA WalkedFrom ==
    ASSUME NEW anchor, NEW s \in Seq(Segments), NEW d \in Seq(Names),
           Walked(anchor, s).down = <<>>
    PROVE  Walked(anchor, s \o d) = [up |-> Walked(anchor, s).up, down |-> d]
<1>2. <<>> \o d = d
  BY ConcatEmptySeq
<1>3. Walked(anchor, s \o d) = [up |-> Walked(anchor, s).up, down |-> Walked(anchor, s).down \o d]
  BY WalkedNames
<1> QED BY <1>2, <1>3

\* Each ".." leads up from the current directory.
LEMMA WalkedUps ==
    ASSUME NEW k \in Nat
    PROVE  Walked("here", Ups(k)) = [up |-> k, down |-> <<>>]
<1> DEFINE G == {t \in Seq({".."}) : Walked("here", t) = [up |-> Len(t), down |-> <<>>]}
<1>1. <<>> \in G
  <2>1. Walked("here", <<>>) = [up |-> 0, down |-> <<>>] /\ Len(<<>>) = 0
    BY WalkedEmpty
  <2> QED BY <2>1
<1>2. ASSUME NEW t \in Seq({".."}), NEW x \in {".."}, t \in G PROVE Append(t, x) \in G
  <2>1. t \in Seq(Segments) /\ x \in Segments
    <3>1. {".."} \subseteq Segments
      BY SegmentsAre
    <3> QED BY <3>1, SeqMonotonic
  <2>2. Walked("here", Append(t, x)) = Walk("here", [up |-> Len(t), down |-> <<>>], x)
    BY <1>2, <2>1, WalkedAppend
  <2>3. Walk("here", [up |-> Len(t), down |-> <<>>], x) = [up |-> Len(t) + 1, down |-> <<>>]
    BY DEF Walk
  <2>4. Len(Append(t, x)) = Len(t) + 1 /\ Append(t, x) \in Seq({".."})
    BY AppendProperties
  <2> QED BY <2>2, <2>3, <2>4
<1> HIDE DEF G
<1>3. Seq({".."}) \subseteq G
  BY <1>1, <1>2, SeqInduction
<1>4. Ups(k) \in Seq({".."}) /\ Len(Ups(k)) = k
  BY DEF Ups
<1> QED BY <1>3, <1>4 DEF G

\* What a text has to be to lead to the spot at below the anchor a.
Leads(t, a, at) ==
    /\ t \in Seq(Segments) /\ t # <<>>
    /\ ~HasScheme(t) /\ Anchor(t) = a /\ Spot(t) = at
    /\ Reduced(t)

LEMMA RootText ==
    ASSUME NEW at, Proper("root", at)
    PROVE  Leads(Text("root", at), "root", at)
<1> DEFINE d == at.down
           rest == IF d = <<>> THEN <<"">> ELSE d
           t == <<"">> \o rest
<1>1. Text("root", at) = t
  BY DEF Text
<1>2. d \in Seq(Names) /\ d \in Seq(Segments) /\ at = [up |-> 0, down |-> d]
  BY StemIs DEF Proper
<1>3. "" \in Segments /\ <<"">> \in Seq(Segments) /\ <<>> \in Seq(Segments)
  <2>1. "" \in Segments
    BY SegmentsAre
  <2>2. <<"">> \in Seq(Segments)
    BY <2>1, Pair
  <2>3. <<>> \in Seq(Segments)
    OBVIOUS
  <2> QED BY <2>1, <2>2, <2>3
<1>4. rest \in Seq(Segments) /\ Len(rest) \in Nat /\ Len(rest) > 0
  <2>1. rest \in Seq(Segments)
    BY <1>2, <1>3
  <2>2. rest # <<>>
    OBVIOUS
  <2> HIDE DEF rest
  <2> QED BY <2>1, <2>2, SomeElement
<1>5. /\ t \in Seq(Segments) /\ t # <<>> /\ Len(t) = Len(rest) + 1 /\ t[1] = ""
      /\ \A i \in 1..(Len(rest) + 1) : i = 1 \/ (i - 1 \in 1..Len(rest) /\ t[i] = rest[i - 1])
  <2> HIDE DEF rest
  <2> QED BY <1>3, <1>4, Prepended
<1>6. ~HasScheme(t) /\ ~HasDrive(t) /\ Rooted(t)
  <2> HIDE DEF t, rest
  <2>1. Len(t) > 1
    <3>1. Len(t) = Len(rest) + 1 /\ Len(rest) \in Nat /\ Len(rest) > 0
      BY <1>4, <1>5
    <3> HIDE DEF d
    <3> QED BY <3>1
  <2> QED BY <1>5, <2>1 DEF HasScheme, HasDrive, Rooted, Colons
<1>7. Anchor(t) = "root" /\ Spot(t) = Walked("root", t)
  <2> HIDE DEF t
  <2>1. Anchor(t) = "root"
    BY <1>6 DEF Anchor
  <2> QED BY <1>6, <2>1 DEF Spot
<1>8. /\ Walked("root", <<"">>) = [up |-> 0, down |-> <<>>]
      /\ Walked("root", <<"", "">>) = [up |-> 0, down |-> <<>>]
  <2> DEFINE here == [up |-> 0, down |-> <<>>]
  <2>1. Walk("root", here, "") = here
    BY DEF Walk
  <2>2. Walked("root", <<>>) = here
    BY WalkedEmpty
  <2>3. Append(<<>>, "") = <<"">> /\ Append(<<"">>, "") = <<"", "">>
    BY <1>3, Pair
  <2>4. Walked("root", Append(<<>>, "")) = Walk("root", Walked("root", <<>>), "")
    BY <1>3, WalkedAppend
  <2>5. Walked("root", Append(<<"">>, "")) = Walk("root", Walked("root", <<"">>), "")
    BY <1>3, WalkedAppend
  <2> HIDE DEF here
  <2>6. Walked("root", <<"">>) = here /\ Walked("root", <<"", "">>) = here
    BY <2>1, <2>2, <2>3, <2>4, <2>5
  <2> QED BY <2>6 DEF here
<1>9. Walked("root", t) = at
  <2>1. CASE d = <<>>
    <3>1. t = <<"", "">>
      <4>1. rest = <<"">>
        BY <2>1
      <4>2. <<"">> \o <<"">> = <<"", "">>
        BY <1>3, Pair
      <4> HIDE DEF rest
      <4> QED BY <4>1, <4>2
    <3> QED BY <1>2, <1>8, <2>1, <3>1
  <2>2. CASE d # <<>>
    <3>1. t = <<"">> \o d
      BY <2>2
    <3>2. Walked("root", <<"">> \o d) = [up |-> 0, down |-> d]
      <4>1. <<"">> \in Seq(Segments) /\ d \in Seq(Names)
        BY <1>2, <1>3
      <4>2. Walked("root", <<"">>).down = <<>> /\ Walked("root", <<"">>).up = 0
        <5> DEFINE at0 == Walked("root", <<"">>)
        <5>1. at0 = [up |-> 0, down |-> <<>>]
          BY <1>8, Zenon
        <5> HIDE DEF d, t, rest, at0
        <5>2. at0.down = <<>> /\ at0.up = 0
          BY <5>1
        <5> QED BY <5>2 DEF at0
      <4> HIDE DEF d
      <4>3. Walked("root", <<"">> \o d) = [up |-> Walked("root", <<"">>).up, down |-> d]
        BY <4>1, <4>2, WalkedFrom
      <4> QED BY <4>2, <4>3
    <3> HIDE DEF t, d
    <3> QED BY <1>2, <3>1, <3>2
  <2> QED BY <2>1, <2>2
<1>10. Reduced(t)
  <2>1. CASE d = <<>>
    <3>1. t = <<"", "">>
      <4>1. rest = <<"">>
        BY <2>1
      <4>2. <<"">> \o <<"">> = <<"", "">>
        BY <1>3, Pair
      <4> HIDE DEF rest
      <4> QED BY <4>1, <4>2
    <3> QED BY <3>1 DEF Reduced
  <2>2. CASE d # <<>>
    <3>1. rest = d
      BY <2>2
    <3>2. DOMAIN t = 1..(Len(d) + 1)
      <4> HIDE DEF t, rest
      <4> QED BY <1>5, <3>1, SomeElement
    <3>3. \A i \in 1..Len(d) : d[i] \in Names
      <4> HIDE DEF d
      <4> QED BY <1>2, ElementOfSeq
    <3>4. \A i \in 1..(Len(d) + 1) : IF i = 1 THEN t[i] = "" ELSE t[i] \in Names
      <4> HIDE DEF t, rest, d
      <4> QED BY <1>5, <3>1, <3>3
    <3> HIDE DEF t, rest, d
    <3> QED BY <3>2, <3>4 DEF Reduced, Names
  <2> QED BY <2>1, <2>2
<1> HIDE DEF t
<1> QED BY <1>1, <1>5, <1>6, <1>7, <1>9, <1>10 DEF Leads

LEMMA DriveText ==
    ASSUME NEW at, Proper("drive", at)
    PROVE  Leads(Text("drive", at), "drive", at)
<1> DEFINE d == at.down
           t == <<"C:">> \o d
<1>1. d \in Seq(Names) /\ d \in Seq(Segments) /\ at = [up |-> 0, down |-> d]
      /\ Placed("drive", at) = t
  BY StemIs DEF Proper, Placed
<1>2. "C:" \in Segments
  BY SegmentsAre
<1>3. Len(d) \in Nat /\ DOMAIN d = 1..Len(d) /\ \A i \in 1..Len(d) : d[i] \in Names
  <2> HIDE DEF d
  <2> QED BY <1>1, SomeElement, ElementOfSeq
<1>4. /\ t \in Seq(Segments) /\ t # <<>> /\ Len(t) = Len(d) + 1 /\ t[1] = "C:"
      /\ \A i \in 1..(Len(d) + 1) : i = 1 \/ (i - 1 \in 1..Len(d) /\ t[i] = d[i - 1])
  <2> HIDE DEF d
  <2> QED BY <1>1, <1>2, Prepended
<1>5. Text("drive", at) = t
  <2> HIDE DEF t
  <2> QED BY <1>1, <1>4 DEF Text
<1>6. DOMAIN t = 1..(Len(d) + 1) /\ \A i \in 1..(Len(d) + 1) : IF i = 1 THEN t[i] = "C:" ELSE t[i] \in Names
  <2> HIDE DEF t, d
  <2> QED BY <1>3, <1>4, SomeElement
<1>7. HasDrive(t) /\ ~HasScheme(t)
  <2> HIDE DEF t, d
  <2>1. Len(t) > 2 => 2 \in 1..(Len(d) + 1)
    BY <1>3, <1>4
  <2>2. Len(t) > 2 => t[2] \in Names
    BY <1>6, <2>1
  <2> QED BY <1>4, <2>2 DEF HasDrive, HasScheme, Names
<1>8. Anchor(t) = "drive"
  BY <1>7, AnchorIs
<1>9. Spot(t) = at
  <2>1. Tail(t) = d
    <3>1. d \in Seq(Segments)
      BY <1>1
    <3> HIDE DEF d
    <3> QED BY <3>1
  <2>2. Walked("drive", <<>> \o d) = [up |-> 0, down |-> d]
    <3>1. Walked("drive", <<>>) = [up |-> 0, down |-> <<>>]
      BY WalkedEmpty
    <3>2. <<>> \in Seq(Segments) /\ Walked("drive", <<>>).down = <<>> /\ Walked("drive", <<>>).up = 0
      BY <3>1
    <3> HIDE DEF d
    <3>3. Walked("drive", <<>> \o d) = [up |-> Walked("drive", <<>>).up, down |-> d]
      BY <1>1, <3>2, WalkedFrom
    <3> QED BY <3>2, <3>3
  <2>3. <<>> \o d = d
    BY <1>1, ConcatEmptySeq
  <2>4. Spot(t) = Walked("drive", Tail(t))
    BY <1>7, <1>8 DEF Spot
  <2>5. at = [up |-> 0, down |-> d]
    BY <1>1
  <2> HIDE DEF t, d
  <2> QED BY <2>1, <2>2, <2>3, <2>4, <2>5
<1>10. Reduced(t)
  <2> HIDE DEF t, d
  <2> QED BY <1>6 DEF Reduced, Names
<1> HIDE DEF t
<1> QED BY <1>4, <1>5, <1>7, <1>8, <1>9, <1>10 DEF Leads

LEMMA HereText ==
    ASSUME NEW at, Proper("here", at), at.down # <<>> => at.down[1] # "C:"
    PROVE  Leads(Text("here", at), "here", at)
<1> DEFINE k == at.up
           d == at.down
           t == Ups(k) \o d
<1>1. /\ k \in Nat /\ d \in Seq(Names) /\ d \in Seq(Segments) /\ at = [up |-> k, down |-> d]
      /\ Placed("here", at) = t
  BY StemIs DEF Placed
<1>2. Len(d) \in Nat /\ \A i \in 1..Len(d) : d[i] \in Names
  <2> HIDE DEF d
  <2> QED BY <1>1, SomeElement, ElementOfSeq
<1>3. /\ Ups(k) \in Seq(Segments) /\ Len(Ups(k)) = k /\ (k = 0 <=> Ups(k) = <<>>)
      /\ \A i \in 1..k : Ups(k)[i] = ".."
  <2> HIDE DEF k
  <2> QED BY <1>1, UpsAre
<1>4. /\ t \in Seq(Segments) /\ Len(t) = k + Len(d)
      /\ \A i \in 1..(k + Len(d)) : t[i] = IF i <= k THEN Ups(k)[i] ELSE d[i - k]
  <2> DEFINE ups == Ups(k)
  <2>1. ups \in Seq(Segments) /\ d \in Seq(Segments) /\ Len(ups) = k
    BY <1>1, <1>3
  <2> HIDE DEF k, d, ups
  <2>2. /\ ups \o d \in Seq(Segments) /\ Len(ups \o d) = Len(ups) + Len(d)
        /\ \A i \in 1..(Len(ups) + Len(d)) :
              (ups \o d)[i] = IF i <= Len(ups) THEN ups[i] ELSE d[i - Len(ups)]
    BY <2>1, ConcatProperties
  <2>3. /\ ups \o d \in Seq(Segments) /\ Len(ups \o d) = k + Len(d)
        /\ \A i \in 1..(k + Len(d)) : (ups \o d)[i] = IF i <= k THEN ups[i] ELSE d[i - k]
    BY <2>1, <2>2
  <2> QED BY <2>3 DEF ups
<1>5. CASE t = <<>>
  <2>1. k = 0 /\ d = <<>>
    <3>1. Len(t) = 0
      BY <1>5
    <3>2. k = 0 /\ Len(d) = 0
      <4>1. k + Len(d) = 0 /\ k \in Nat /\ Len(d) \in Nat
        BY <1>1, <1>2, <1>4, <3>1
      <4> HIDE DEF t, k, d
      <4> QED BY <4>1
    <3> HIDE DEF k, d
    <3> QED BY <1>1, <3>2, SomeElement
  <2>2. Text("here", at) = <<".">>
    <3> HIDE DEF t
    <3> QED BY <1>1, <1>5 DEF Text
  <2>3. "." \in Segments
    BY SegmentsAre
  <2>4. <<".">> \in Seq(Segments) /\ <<".">> # <<>>
    BY <2>3
  <2>5. ~HasScheme(<<".">>) /\ ~HasDrive(<<".">>) /\ ~Rooted(<<".">>)
    BY DEF HasScheme, HasDrive, Rooted, Colons
  <2>6. Anchor(<<".">>) = "here"
    BY <2>5, AnchorIs
  <2>7. Spot(<<".">>) = Walked("here", <<".">>)
    BY <2>5, <2>6 DEF Spot
  <2>8. Walked("here", <<".">>) = [up |-> 0, down |-> <<>>]
    <3>1. <<>> \in Seq(Segments) /\ Append(<<>>, ".") = <<".">>
      OBVIOUS
    <3>2. Walked("here", Append(<<>>, ".")) = Walk("here", Walked("here", <<>>), ".")
      BY <2>3, <3>1, WalkedAppend
    <3>3. Walked("here", <<>>) = [up |-> 0, down |-> <<>>]
      BY WalkedEmpty
    <3>4. Walk("here", [up |-> 0, down |-> <<>>], ".") = [up |-> 0, down |-> <<>>]
      BY DEF Walk
    <3> QED BY <3>1, <3>2, <3>3, <3>4
  <2>9. Reduced(<<".">>)
    BY DEF Reduced
  <2>10. at = [up |-> 0, down |-> <<>>]
    <3> HIDE DEF k, d
    <3> QED BY <1>1, <2>1
  <2> HIDE DEF t, k, d
  <2> QED BY <2>2, <2>4, <2>5, <2>6, <2>7, <2>8, <2>9, <2>10 DEF Leads
<1>6. CASE t # <<>>
  <2>1. Text("here", at) = t
    <3> HIDE DEF t
    <3> QED BY <1>1, <1>6 DEF Text
  <2>2. DOMAIN t = 1..(k + Len(d)) /\ 1 \in 1..(k + Len(d))
    <3> HIDE DEF t, k, d
    <3> QED BY <1>4, <1>6, SomeElement
  <2>3. \A i \in 1..(k + Len(d)) : IF i <= k THEN t[i] = ".." ELSE t[i] \in Names
    <3> SUFFICES ASSUME NEW i \in 1..(k + Len(d)) PROVE IF i <= k THEN t[i] = ".." ELSE t[i] \in Names
      OBVIOUS
    <3> HIDE DEF t, k, d
    <3>1. CASE i <= k
      <4>1. i \in 1..k
        BY <1>1, <3>1
      <4> QED BY <1>3, <1>4, <3>1, <4>1
    <3>2. CASE ~(i <= k)
      <4>1. i - k \in 1..Len(d)
        BY <1>1, <1>2, <3>2
      <4> QED BY <1>2, <1>4, <3>2, <4>1
    <3> QED BY <3>1, <3>2
  <2>4. t[1] # "C:" /\ t[1] # ""
    <3>1. CASE k > 0
      <4> HIDE DEF t, k, d
      <4>1. t[1] = ".."
        BY <1>1, <2>2, <2>3, <3>1
      <4> QED BY <4>1
    <3>2. CASE ~(k > 0)
      <4>1. Ups(k) = <<>> /\ d \in Seq(Segments)
        <5>1. k = 0
          <6> HIDE DEF k
          <6> QED BY <1>1, <3>2
        <5> QED BY <1>1, <1>3, <5>1
      <4>2. t = d
        <5> HIDE DEF d
        <5> QED BY <4>1, ConcatEmptySeq
      <4>3. d # <<>>
        BY <1>6, <4>2
      <4>4. d[1] \in Names
        <5> HIDE DEF d
        <5> QED BY <1>1, <4>3, SomeElement
      <4> HIDE DEF t
      <4> QED BY <4>2, <4>3, <4>4 DEF Names
    <3> QED BY <3>1, <3>2
  <2>5. ~HasDrive(t) /\ ~Rooted(t)
    <3> HIDE DEF t
    <3> QED BY <2>4 DEF HasDrive, Rooted
  <2>6. ~HasScheme(t)
    <3> HIDE DEF t, k, d
    <3>1. Len(t) > 2 => 2 \in 1..(k + Len(d))
      BY <1>1, <1>2, <1>4
    <3>2. Len(t) > 2 => t[2] # ""
      BY <2>3, <3>1 DEF Names
    <3> QED BY <3>2 DEF HasScheme
  <2>7. Anchor(t) = "here"
    BY <2>5, AnchorIs
  <2>8. Spot(t) = at
    <3>1. Spot(t) = Walked("here", t)
      BY <2>5, <2>7 DEF Spot
    <3>2. Walked("here", Ups(k)) = [up |-> k, down |-> <<>>]
      <4> HIDE DEF k
      <4> QED BY <1>1, WalkedUps
    <3>3. Walked("here", t) = [up |-> k, down |-> d]
      <4>1. Ups(k) \in Seq(Segments) /\ d \in Seq(Names)
        BY <1>1, <1>3
      <4>2. Walked("here", Ups(k)).down = <<>> /\ Walked("here", Ups(k)).up = k
        BY <3>2
      <4> HIDE DEF k, d
      <4>3. Walked("here", Ups(k) \o d) = [up |-> Walked("here", Ups(k)).up, down |-> d]
        BY <4>1, <4>2, WalkedFrom
      <4> QED BY <4>2, <4>3
    <3> HIDE DEF t, k, d
    <3> QED BY <1>1, <3>1, <3>3
  <2>9. Reduced(t)
    <3> HIDE DEF t, k, d
    <3>1. \A n \in DOMAIN t :
             /\ t[n] # "." /\ (t[n] = "" => n = 1)
             /\ t[n] = ".." => \A m \in 1..n : t[m] = ".."
      <4> SUFFICES ASSUME NEW n \in 1..(k + Len(d))
                   PROVE  /\ t[n] # "." /\ t[n] # ""
                          /\ t[n] = ".." => \A m \in 1..n : t[m] = ".."
        BY <2>2
      <4>1. CASE n <= k
        <5>1. \A m \in 1..n : m \in 1..(k + Len(d)) /\ m <= k
          BY <1>1, <1>2, <4>1
        <5>2. t[n] = ".."
          BY <2>3, <4>1
        <5> QED BY <2>3, <5>1, <5>2
      <4>2. CASE ~(n <= k)
        BY <2>3, <4>2 DEF Names
      <4> QED BY <4>1, <4>2
    <3> QED BY <3>1 DEF Reduced
  <2> HIDE DEF t
  <2> QED BY <1>4, <1>6, <2>1, <2>6, <2>7, <2>8, <2>9 DEF Leads
<1> QED BY <1>5, <1>6

-----------------------------------------------------------------------------
(* Paths: a key is its own key                                             *)

\* A text after a scheme is the text that is resolved, unless it is rooted.
LEMMA AfterPrefix ==
    ASSUME NEW c \in Colons, c # "file:", NEW t \in Seq(Segments), t # <<>>, ~Rooted(t)
    PROVE  Prefix(<<c, "">> \o t) = <<c, "">> /\ Work(<<c, "">> \o t) = t
<1> DEFINE u == <<c, "">> \o t
           n == Len(t)
<1>1. c \in Segments /\ "" \in Segments
  BY SegmentsAre DEF Segments
<1>2. <<c, "">> \in Seq(Segments) /\ Len(<<c, "">>) = 2 /\ <<c, "">>[1] = c /\ <<c, "">>[2] = ""
  BY <1>1, Pair
<1>3. /\ u \in Seq(Segments) /\ Len(u) = 2 + n
      /\ \A i \in 1..(2 + n) : u[i] = IF i <= 2 THEN <<c, "">>[i] ELSE t[i - 2]
  BY <1>2, ConcatProperties
<1>4. n \in Nat /\ n > 0
  BY SomeElement
<1>5. u[1] = c /\ u[2] = "" /\ Len(u) > 2
  <2> HIDE DEF u, n
  <2>1. Len(u) = 2 + n
    BY <1>3
  <2>2. 1 \in 1..(2 + n) /\ 2 \in 1..(2 + n) /\ 2 + n > 2
    BY <1>4
  <2>3. u[1] = <<c, "">>[1] /\ u[2] = <<c, "">>[2]
    <3> DEFINE pre == <<c, "">>
    <3>1. \A i \in 1..(2 + n) : u[i] = IF i <= 2 THEN pre[i] ELSE t[i - 2]
      BY <1>3
    <3> HIDE DEF pre
    <3>2. u[1] = pre[1] /\ u[2] = pre[2]
      BY <2>2, <3>1
    <3> QED BY <3>2 DEF pre
  <2> QED BY <1>2, <2>1, <2>2, <2>3
<1>6. HasScheme(u) /\ u[1] # "file:"
  <2> HIDE DEF u
  <2> QED BY <1>5 DEF HasScheme
<1>7. AfterScheme(u) = t
  <2> DEFINE v == SubSeq(u, 3, 2 + n)
  <2>1. \A i \in 3..(2 + n) : u[i] \in Segments
    <3> HIDE DEF u, n
    <3>1. \A i \in 3..(2 + n) : i \in 1..(2 + n)
      BY <1>4
    <3>2. \A i \in 1..Len(u) : u[i] \in Segments
      BY <1>3, ElementOfSeq
    <3> QED BY <1>3, <3>1, <3>2
  <2>2. v \in Seq(Segments) /\ Len(v) = n /\ \A i \in 1..n : v[i] = u[i + 2]
    <3> HIDE DEF u, n
    <3>1. /\ v \in Seq(Segments)
          /\ Len(v) = IF 3 <= 2 + n THEN (2 + n) - 3 + 1 ELSE 0
          /\ \A i \in 1..((2 + n) - 3 + 1) : v[i] = u[3 + i - 1]
      BY <1>4, <2>1, SubSeqProperties
    <3> HIDE DEF v
    <3>2. (2 + n) - 3 + 1 = n /\ 3 <= 2 + n /\ \A i \in 1..n : 3 + i - 1 = i + 2
      BY <1>4
    <3> QED BY <3>1, <3>2
  <2> HIDE DEF u, v
  <2>3. \A i \in 1..n : u[i + 2] = t[i]
    <3> SUFFICES ASSUME NEW i \in 1..n PROVE u[i + 2] = t[i]
      OBVIOUS
    <3> HIDE DEF n
    <3>1. i + 2 \in 1..(2 + n) /\ ~(i + 2 <= 2) /\ (i + 2) - 2 = i
      BY <1>4
    <3>2. u[i + 2] = t[(i + 2) - 2]
      BY <1>3, <3>1
    <3> QED BY <3>1, <3>2
  <2>4. \A i \in 1..Len(v) : v[i] = t[i]
    BY <2>2, <2>3
  <2>5. v = t
    <3>1. Len(v) = Len(t)
      BY <2>2
    <3> QED BY <2>2, <2>4, <3>1, SeqEqual
  <2> QED BY <1>3, <2>5 DEF AfterScheme, v
<1>8. FromScheme(t) = t
  BY DEF FromScheme, Rooted
<1> HIDE DEF u
<1>9. Prefix(u) = <<c, "">>
  BY <1>5, <1>6 DEF Prefix
<1>10. Work(u) = t
  BY <1>6, <1>7, <1>8 DEF Work
<1> QED BY <1>9, <1>10 DEF u

LEMMA PrefixIs ==
    ASSUME NEW p
    PROVE  Prefix(p) = <<>> \/ \E c \in Colons : c # "file:" /\ Prefix(p) = <<c, "">>
BY DEF Prefix, HasScheme

\* What OneKey says of one path.
LEMMA KeyLeads ==
    ASSUME NEW p \in Seq(Segments), p # <<>>, Ordered(p), ~RootUnderScheme(p)
    PROVE  /\ Meaning(Key(p)) = Meaning(p)
           /\ Key(Key(p)) = Key(p)
           /\ Reduced(Work(Key(p)))
<1> DEFINE w == Work(p)
           a == Anchor(w)
           at == Spot(w)
           t == Text(a, at)
           k == Key(p)
<1>1. w \in Seq(Segments) /\ w # <<>> /\ Ordered(w)
  BY WorkType
<1>2. Proper(a, at) /\ a \in {"drive", "root", "here"}
  <2> HIDE DEF w
  <2> QED BY <1>1, SpotPlaced, AnchorIs
<1>3. a = "here" => (at.down # <<>> => at.down[1] # "C:")
  <2> HIDE DEF w
  <2> QED BY <1>1, NoDriveHere
<1>4. Leads(t, a, at)
  <2> HIDE DEF a, at
  <2> QED BY <1>2, <1>3, RootText, DriveText, HereText
<1>5. k = Prefix(p) \o t
  BY <1>1, KeyIs
<1>6. Prefix(k) = Prefix(p) /\ Work(k) = t
  <2>1. t \in Seq(Segments) /\ t # <<>> /\ ~HasScheme(t) /\ Anchor(t) = a
    BY <1>4 DEF Leads
  <2>2. CASE Prefix(p) = <<>>
    <3> HIDE DEF t, k
    <3>1. k = t
      BY <1>5, <2>1, <2>2, ConcatEmptySeq
    <3> QED BY <2>1, <2>2, <3>1 DEF Prefix, Work
  <2>3. ASSUME NEW c \in Colons, c # "file:", Prefix(p) = <<c, "">>
        PROVE  Prefix(k) = Prefix(p) /\ Work(k) = t
    <3>1. ~Rooted(w)
      <4>1. Prefix(p) # <<>>
        <5>1. "" \in Segments /\ c \in Segments
          BY SegmentsAre DEF Segments
        <5> QED BY <2>3, <5>1, Pair
      <4> QED BY <4>1 DEF RootUnderScheme
    <3>2. a # "root"
      BY <3>1, AnchorIs
    <3>3. ~Rooted(t)
      <4> HIDE DEF t, a
      <4>1. Rooted(t) => ~HasDrive(t)
        BY DEF Rooted, HasDrive
      <4> QED BY <2>1, <3>2, <4>1 DEF Anchor
    <3>4. Prefix(<<c, "">> \o t) = <<c, "">> /\ Work(<<c, "">> \o t) = t
      <4> HIDE DEF t
      <4> QED BY <2>1, <2>3, <3>3, AfterPrefix
    <3> HIDE DEF t, k
    <3> QED BY <1>5, <2>3, <3>4
  <2> QED BY <2>2, <2>3, PrefixIs
<1>7. /\ t \in Seq(Segments) /\ t # <<>>
      /\ Anchor(t) = a /\ Spot(t) = at /\ Reduced(t)
  BY <1>4 DEF Leads
<1>8. Key(k) = Prefix(k) \o Text(Anchor(t), Spot(t))
  <2> HIDE DEF t, k
  <2> QED BY <1>6, <1>7, KeyIs
<1>9. Key(k) = k
  <2>1. Text(Anchor(t), Spot(t)) = t
    BY <1>7
  <2> HIDE DEF t, k, a, at
  <2> QED BY <1>5, <1>6, <1>8, <2>1
<1>10. Meaning(k) = Meaning(p)
  <2> HIDE DEF t, k
  <2> QED BY <1>6, <1>7 DEF Meaning
<1> HIDE DEF t
<1> QED BY <1>6, <1>7, <1>9, <1>10 DEF k

\* The paths that producers write.
PathInv == path \in Seq(Segments) /\ path # <<>> /\ Ordered(path)

\* A key leads where its path leads, is its own key and has nothing left to
\* resolve: what gz_normalize_document_path() gives for a path of any length.
THEOREM OneKeyTheorem == PathSpec => []OneKey
<1>1. PathInit => PathInv
  <2> SUFFICES ASSUME NEW s \in Segments, path = <<s>> PROVE PathInv
    BY DEF PathInit
  <2>1. path \in Seq(Segments) /\ path # <<>> /\ Len(path) = 1 /\ path[1] = s
    OBVIOUS
  <2>2. \A i \in 1..1 : i = 1
    OBVIOUS
  <2>3. Ordered(path)
    BY <2>1, <2>2 DEF Ordered, Early
  <2> QED BY <2>1, <2>3 DEF PathInv
<1>2. PathInv /\ [PathNext]_path => PathInv'
  <2> SUFFICES ASSUME PathInv, [PathNext]_path PROVE PathInv'
    OBVIOUS
  <2>1. CASE UNCHANGED path
    BY <2>1 DEF PathInv
  <2>2. ASSUME NEW s \in Segments, Extend(s) PROVE PathInv'
    <3>1. path' = Append(path, s) /\ (s \in Colons => AllEarly(path))
      <4>1. DOMAIN path = 1..Len(path)
        BY SomeElement DEF PathInv
      <4> QED BY <2>2, <4>1 DEF Extend, AllEarly, Early
    <3>2. Append(path, s) \in Seq(Segments) /\ Append(path, s) # <<>>
      BY Appended DEF PathInv
    <3>3. Ordered(Append(path, s))
      BY <3>1, OrderedAppend DEF PathInv
    <3> QED BY <3>1, <3>2, <3>3 DEF PathInv
  <2> QED BY <2>1, <2>2 DEF PathNext
<1>3. PathInv => OneKey
  BY KeyLeads DEF PathInv, OneKey
<1> QED BY <1>1, <1>2, <1>3, PTL DEF PathSpec

-----------------------------------------------------------------------------
(* The two parts of the diagnostics                                        *)

\* A behaviour that store_safety checks is one of the store and one of the
\* paths: every theorem about them holds of it.
THEOREM PartsTheorem == DiagnosticsSpec => Spec /\ PathSpec
<1>1. DiagnosticsInit => Init /\ PathInit
  <2>1. "a" \in Segments
    BY SegmentsAre
  <2> QED BY <2>1 DEF DiagnosticsInit, PathInit
<1>2. [DiagnosticsNext]_<<part, vars, path>> => [Next]_vars /\ [PathNext]_path
  BY DEF DiagnosticsNext
<1> QED BY <1>1, <1>2, PTL DEF DiagnosticsSpec, Spec, PathSpec

=============================================================================
