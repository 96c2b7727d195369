-------------------------- MODULE GzDiagnosticStore --------------------------
(***************************************************************************)
(* src/diagnostics/gz_diagnostic_store.cpp: the store of compiler and      *)
(* language-server diagnostics, its producer threads and the one consumer  *)
(* that its threading contract names, the Godot main thread.  Every public *)
(* method takes the store's mutex, so each is one action; what a producer  *)
(* does between asking for the current generation and submitting its batch *)
(* is not covered by any lock, and neither is what the consumer does       *)
(* between draining the changed-document queue and taking the snapshots.   *)
(* The repository has no such consumer yet: nothing is assumed of when it  *)
(* drains or draws, if it ever does.                                       *)
(*                                                                         *)
(* A normalized, sorted batch is a member of Batches.  revision counts the *)
(* contents a document has had, across removals: it is what the producers' *)
(* results are really about.                                               *)
(***************************************************************************)
EXTENDS Integers, Sequences, FiniteSets, Functions

CONSTANTS
    Docs,           \* normalized document keys
    Sources,        \* GzDiagnosticSource
    Batches,        \* normalized diagnostic batches
    Empty,          \* the batch without diagnostics
    Producers,      \* producer threads
    Idle,           \* a producer without work
    MayReopen,      \* whether a removed document may be opened again
    MaxRevision     \* bound on the contents of a document

ASSUME ConstantsAssumption ==
    /\ Empty \in Batches
    /\ MayReopen \in BOOLEAN
    /\ MaxRevision \in Nat
    /\ IsFiniteSet(Docs)
    /\ Idle \notin [doc : Docs, source : Sources, generation : Nat, revision : Nat]

VARIABLES
    generation,     \* [Docs -> Nat], 0 when the document is not tracked
    closed,         \* [Docs -> BOOLEAN]
    bySource,       \* [Docs -> [Sources -> Batches]]
    changedSet,     \* changed_set_
    changedOrder,   \* changed_order_
    revision,       \* history: contents so far, per document
    madeFor,        \* history: the revision each stored batch is about
    work,           \* [Producers -> a started analysis or Idle]
    todo,           \* documents the consumer drained and has not shown yet
    view            \* [Docs -> [Sources -> Batches]]: what the consumer shows

documents == <<generation, closed, bySource>>
changed   == <<changedSet, changedOrder>>
consumer  == <<todo, view>>
vars      == <<documents, changed, revision, madeFor, work, consumer>>

Works == [doc : Docs, source : Sources, generation : Nat, revision : Nat]

NoDiagnostics == [s \in Sources |-> Empty]

Init ==
    /\ generation = [d \in Docs |-> 0]
    /\ closed = [d \in Docs |-> FALSE]
    /\ bySource = [d \in Docs |-> NoDiagnostics]
    /\ changedSet = {}
    /\ changedOrder = <<>>
    /\ revision = [d \in Docs |-> 0]
    /\ madeFor = [d \in Docs |-> [s \in Sources |-> 0]]
    /\ work = [p \in Producers |-> Idle]
    /\ todo = {}
    /\ view = [d \in Docs |-> NoDiagnostics]

-----------------------------------------------------------------------------
(* Helpers                                                                 *)

Tracked(d) == generation[d] # 0

\* mark_changed_locked(): a key already queued keeps its place
MarkChanged(d) ==
    IF d \in changedSet
    THEN UNCHANGED changed
    ELSE /\ changedSet' = changedSet \cup {d}
         /\ changedOrder' = Append(changedOrder, d)

Queued(d) == d \in Range(changedOrder)

\* std::remove of a key from a queue that holds it at most once
Without(d) ==
    LET at == CHOOSE i \in DOMAIN changedOrder : changedOrder[i] = d
    IN  IF Queued(d)
        THEN [j \in 1..(Len(changedOrder) - 1) |->
                 IF j < at THEN changedOrder[j] ELSE changedOrder[j + 1]]
        ELSE changedOrder

NewContent(d) ==
    /\ revision[d] < MaxRevision
    /\ revision' = [revision EXCEPT ![d] = @ + 1]

Store(d, s, batch, r) ==
    /\ bySource' = [bySource EXCEPT ![d][s] = batch]
    /\ madeFor' = [madeFor EXCEPT ![d][s] = r]

-----------------------------------------------------------------------------
(* Documents                                                               *)

\* open_document(): a new document starts at generation 1
OpenDocument(d) ==
    /\ ~Tracked(d)
    /\ revision[d] = 0 \/ MayReopen
    /\ generation' = [generation EXCEPT ![d] = 1]
    /\ NewContent(d)
    /\ UNCHANGED <<closed, bySource, changed, madeFor, work, consumer>>

\* advance_generation(): the content changed
AdvanceGeneration(d) ==
    /\ Tracked(d)
    /\ generation' = [generation EXCEPT ![d] = @ + 1]
    /\ NewContent(d)
    /\ UNCHANGED <<closed, bySource, changed, madeFor, work, consumer>>

\* close_document(): open_document() does not clear the flag again
CloseDocument(d) ==
    /\ Tracked(d)
    /\ closed' = [closed EXCEPT ![d] = TRUE]
    /\ UNCHANGED <<generation, bySource, changed, revision, madeFor, work, consumer>>

\* mutant: the key stays in the order
RemoveKeepsOrder(d) ==
    /\ Tracked(d)
    /\ generation' = [generation EXCEPT ![d] = 0]
    /\ closed' = [closed EXCEPT ![d] = FALSE]
    /\ bySource' = [bySource EXCEPT ![d] = NoDiagnostics]
    /\ madeFor' = [madeFor EXCEPT ![d] = [s \in Sources |-> 0]]
    /\ changedSet' = changedSet \ {d}
    /\ UNCHANGED <<changedOrder, revision, work, consumer>>

\* remove_document(): forgets the document and takes it out of the queue
RemoveDocument(d) ==
    /\ Tracked(d)
    /\ generation' = [generation EXCEPT ![d] = 0]
    /\ closed' = [closed EXCEPT ![d] = FALSE]
    /\ bySource' = [bySource EXCEPT ![d] = NoDiagnostics]
    /\ madeFor' = [madeFor EXCEPT ![d] = [s \in Sources |-> 0]]
    /\ changedSet' = changedSet \ {d}
    /\ changedOrder' = Without(d)
    /\ UNCHANGED <<revision, work, consumer>>

\* mutant: the consumer is not told
ClearSourceSilently(d, s) ==
    /\ Tracked(d) /\ bySource[d][s] # Empty
    /\ Store(d, s, Empty, 0)
    /\ UNCHANGED <<generation, closed, changed, revision, work, consumer>>

\* clear_source(): only a non-empty batch is cleared and reported
ClearSource(d, s) ==
    /\ Tracked(d) /\ bySource[d][s] # Empty
    /\ Store(d, s, Empty, 0)
    /\ MarkChanged(d)
    /\ UNCHANGED <<generation, closed, revision, work, consumer>>

\* clear_document(): every source at once
ClearDocument(d) ==
    /\ Tracked(d) /\ bySource[d] # NoDiagnostics
    /\ bySource' = [bySource EXCEPT ![d] = NoDiagnostics]
    /\ madeFor' = [madeFor EXCEPT ![d] = [s \in Sources |-> 0]]
    /\ MarkChanged(d)
    /\ UNCHANGED <<generation, closed, revision, work, consumer>>

\* the sequences that hold every member of S once
Orders(S) == Bijection(1..Cardinality(S), S)

\* clear_all_from_source(): documents_ is an unordered_map, so the documents
\* that become changed are queued in any order
ClearAllFromSource(s) ==
    LET hit == {d \in Docs : Tracked(d) /\ bySource[d][s] # Empty}
    IN  /\ hit # {}
        /\ bySource' = [d \in Docs |->
                           IF d \in hit THEN [bySource[d] EXCEPT ![s] = Empty] ELSE bySource[d]]
        /\ madeFor' = [d \in Docs |->
                           IF d \in hit THEN [madeFor[d] EXCEPT ![s] = 0] ELSE madeFor[d]]
        /\ changedSet' = changedSet \cup hit
        /\ \E order \in Orders(hit \ changedSet) : changedOrder' = changedOrder \o order
        /\ UNCHANGED <<generation, closed, revision, work, consumer>>

-----------------------------------------------------------------------------
(* Producers                                                               *)

\* a producer asks for the current generation and starts to analyse the text
StartWork(p, d, s) ==
    /\ work[p] = Idle /\ Tracked(d)
    /\ work' = [work EXCEPT ![p] = [doc |-> d, source |-> s,
                   generation |-> generation[d], revision |-> revision[d]]]
    /\ UNCHANGED <<documents, changed, revision, madeFor, consumer>>

\* mutant: only unknown documents and future generations are rejected
RejectFuture(w) == generation[w.doc] < w.generation

\* replace() of an unknown document, a stale or a future generation
Reject(w) == generation[w.doc] # w.generation

\* replace(): the batch is submitted, at once or much later
Submit(p, batch) ==
    /\ work[p] # Idle
    /\ work' = [work EXCEPT ![p] = Idle]
    /\ LET w == work[p] IN
          IF Reject(w)
          THEN UNCHANGED <<bySource, madeFor, changed>>
          ELSE /\ Store(w.doc, w.source, batch, w.revision)
               /\ IF batch = bySource[w.doc][w.source]
                  THEN UNCHANGED changed
                  ELSE MarkChanged(w.doc)
    /\ UNCHANGED <<generation, closed, revision, consumer>>

-----------------------------------------------------------------------------
(* The consumer of the threading contract                                  *)

\* take_changed_documents()
TakeChanged ==
    /\ changedOrder # <<>>
    /\ todo' = todo \cup Range(changedOrder)
    /\ changedSet' = {}
    /\ changedOrder' = <<>>
    /\ UNCHANGED <<documents, revision, madeFor, work, view>>

\* the consumer takes the snapshot() of a drained document; one no longer
\* tracked has no diagnostics
Show(d) ==
    /\ d \in todo
    /\ todo' = todo \ {d}
    /\ view' = [view EXCEPT ![d] = bySource[d]]
    /\ UNCHANGED <<documents, changed, revision, madeFor, work>>

-----------------------------------------------------------------------------

Next ==
    \/ \E d \in Docs :
          \/ OpenDocument(d) \/ AdvanceGeneration(d) \/ CloseDocument(d)
          \/ RemoveDocument(d) \/ ClearDocument(d)
          \/ Show(d)
    \/ \E d \in Docs, s \in Sources : ClearSource(d, s)
    \/ \E s \in Sources : ClearAllFromSource(s)
    \/ \E p \in Producers, d \in Docs, s \in Sources : StartWork(p, d, s)
    \/ \E p \in Producers, batch \in Batches : Submit(p, batch)
    \/ TakeChanged

Spec == Init /\ [][Next]_vars

-----------------------------------------------------------------------------
(* Properties                                                              *)

\* The variables have their types, and an untracked document holds nothing.
TypeOK ==
    /\ generation \in [Docs -> Nat]
    /\ closed \in [Docs -> BOOLEAN]
    /\ bySource \in [Docs -> [Sources -> Batches]]
    /\ changedSet \subseteq Docs
    /\ changedOrder \in Seq(Docs)
    /\ revision \in [Docs -> Nat]
    /\ madeFor \in [Docs -> [Sources -> Nat]]
    /\ work \in [Producers -> Works \cup {Idle}]
    /\ todo \subseteq Docs
    /\ view \in [Docs -> [Sources -> Batches]]
    /\ \A d \in Docs : ~Tracked(d) => bySource[d] = NoDiagnostics

\* The two halves of the changed queue agree: the order holds every member of
\* the set exactly once, and only documents that are still tracked
\* (mark_changed_locked, remove_document, take_changed_documents).
ChangedQueueConsistent ==
    /\ changedSet = Range(changedOrder)
    /\ IsInjective(changedOrder)
    /\ \A d \in changedSet : Tracked(d)

\* No change is lost: a consumer that draws what it drains shows exactly what
\* the store holds for every tracked document that is neither queued nor drained.
NoLostChange ==
    \A d \in Docs :
        Tracked(d) /\ d \notin changedSet \cup todo => view[d] = bySource[d]

\* "late async results can never overwrite newer state": a batch that enters
\* the store is about the content the document has at that moment.
LateResultsRejected ==
    [][\A d \in Docs, s \in Sources :
          madeFor'[d][s] # madeFor[d][s] => madeFor'[d][s] \in {0, revision[d]}]_vars

=============================================================================
