--------------------------- MODULE GzScriptExports ---------------------------
(***************************************************************************)
(* What the editor shows of a script's exports while modules are published *)
(* and instances migrate (GzScript): the placeholders that stand for       *)
(* instances of a script that never compiled, and the property lists that  *)
(* inspectors have read from the owners of instances.                      *)
(***************************************************************************)
EXTENDS GzScript

CONSTANTS
    Placeholders,   \* placeholder instances
    Schemas,        \* what has_same_exports() tells apart: properties, their
                    \* metadata and defaults, and the Inspector's layout
    NoSchema

ASSUME ExportsConstants == NoSchema \notin Schemas

VARIABLES
    exports,        \* [modules -> exports of its descriptor]
    exportsChanged, \* pending_exports_changed
    shown,          \* [Instances -> exports an inspector read of its owner]
    placeholders,   \* GzScript::placeholders
    given,          \* [Placeholders -> exports it was last updated with]
    mixed           \* history: a publish came while live instances did not all
                    \* have the script's module, or while a migration had yet to
                    \* notify an owner

views      == <<exportsChanged, shown, placeholders, given, mixed>>
exportVars == <<vars, exports, views>>

\* the script's exports; a script without a module has none
Exports(m) == IF m = 0 THEN NoSchema ELSE exports[m]

ExportsInit ==
    /\ Init
    /\ exports \in [1..MaxModules -> Schemas]
    /\ exportsChanged = FALSE
    /\ shown = [i \in Instances |-> NoSchema]
    /\ placeholders = {}
    /\ given = [h \in Placeholders |-> NoSchema]
    /\ mixed = FALSE

-----------------------------------------------------------------------------

\* _update_exports() with module m
UpdateExports(m) ==
    given' = [h \in Placeholders |->
                 IF h \in placeholders THEN Exports(m) ELSE given[h]]

Mixes ==
    \/ \E i \in Live : pinned[i] # module
    \/ \E i \in Instances : Within("retire", i)

\* mutant: only the editor's placeholders are told
PublishTellsEditor ==
    /\ PublishInGame \/ PublishInEditor
    /\ LET changed == Exports(module') # Exports(module)
       IN  /\ IF changed /\ inEditor THEN UpdateExports(module') ELSE UNCHANGED given
           /\ exportsChanged' = (inEditor /\ changed /\ pendingRefresh')
           /\ mixed' = (mixed \/ Mixes)
    /\ UNCHANGED <<exports, shown, placeholders>>

\* mutant: the comparison is made with the module that is published
PublishComparesLate ==
    /\ PublishInGame \/ PublishInEditor
    /\ LET changed == Exports(module') # Exports(module)
       IN  /\ IF changed THEN UpdateExports(module') ELSE UNCHANGED given
           /\ exportsChanged' = FALSE
           /\ mixed' = (mixed \/ Mixes)
    /\ UNCHANGED <<exports, shown, placeholders>>

\* publish_module(): placeholders are updated at once and only when the exports
\* differ from those of the script's former module
PublishExports ==
    /\ PublishInGame \/ PublishInEditor
    /\ LET changed == Exports(module') # Exports(module)
       IN  /\ IF changed THEN UpdateExports(module') ELSE UNCHANGED given
           /\ exportsChanged' = (inEditor /\ changed /\ pendingRefresh')
           /\ mixed' = (mixed \/ Mixes)
    /\ UNCHANGED <<exports, shown, placeholders>>

\* an instance has migrated: notify_property_list_changed() on its owner if the
\* exports changed, as pending_exports_changed has it by now, and inspectors
\* read the property list again
RetireShown ==
    /\ RetireReturns
    /\ IF exportsChanged
       THEN /\ stack' # <<>>
            /\ shown' = [shown EXCEPT ![Current] = Exports(pinned[Current])]
       ELSE stack' = <<>> /\ UNCHANGED shown
    /\ UNCHANGED <<exports, exportsChanged, placeholders, given, mixed>>

\* the migration ends
RefreshEndsExports ==
    /\ RefreshEnds
    /\ exportsChanged' = FALSE
    /\ UNCHANGED <<exports, shown, placeholders, given, mixed>>

\* an inspector reads the property list of an owner when it shows it
CreateShown ==
    /\ CreateReturns
    /\ shown' = [shown EXCEPT ![Current] = Exports(pinned'[Current])]
    /\ UNCHANGED <<exports, exportsChanged, placeholders, given, mixed>>

\* its owner is freed or gets another script
FreeShown(i) ==
    /\ InstanceFree(i)
    /\ shown' = [shown EXCEPT ![i] = NoSchema]
    /\ UNCHANGED <<exports, exportsChanged, placeholders, given, mixed>>

\* _placeholder_instance_create()
PlaceholderCreate(h) ==
    /\ ~Looping /\ h \notin placeholders
    /\ placeholders' = placeholders \cup {h}
    /\ given' = [given EXCEPT ![h] = Exports(module)]
    /\ UNCHANGED <<vars, exports, exportsChanged, shown, mixed>>

\* _placeholder_erased()
PlaceholderErased(h) ==
    /\ ~Looping /\ h \in placeholders
    /\ placeholders' = placeholders \ {h}
    /\ given' = [given EXCEPT ![h] = NoSchema]
    /\ UNCHANGED <<vars, exports, exportsChanged, shown, mixed>>

\* the steps of GzScript that no view of the exports takes part in
OtherStep ==
    /\ \/ ApplyPendingRefresh \/ ApplyNothing \/ Upgrade \/ BatchEnds
       \/ \E i \in Instances : InstanceCreate(i) \/ InstanceCall(i)
       \/ CallReturns \/ FreeReturns
       \/ UpgradeReturns \/ DiscardReturns \/ NotifyReturns
    /\ UNCHANGED <<exports, views>>

ExportsNext ==
    \/ PublishExports \/ RetireShown \/ RefreshEndsExports \/ CreateShown \/ OtherStep
    \/ \E i \in Instances : FreeShown(i)
    \/ \E h \in Placeholders : PlaceholderCreate(h) \/ PlaceholderErased(h)

ExportsSpec == ExportsInit /\ [][ExportsNext]_exportVars /\ Fairness

-----------------------------------------------------------------------------
(* Properties                                                              *)

\* The variables have their types.
ExportsTypeOK ==
    /\ exports \in [1..MaxModules -> Schemas]
    /\ exportsChanged \in BOOLEAN
    /\ shown \in [Instances -> Schemas \cup {NoSchema}]
    /\ placeholders \subseteq Placeholders
    /\ given \in [Placeholders -> Schemas \cup {NoSchema}]
    /\ mixed \in BOOLEAN

\* A placeholder always has the exports of the script's module, although it is
\* told only when two modules in a row differ and when it is created.
PlaceholdersCurrent ==
    \A h \in placeholders : given[h] = Exports(module)

\* In the editor the inspector of every registered instance shows the exports
\* of the module it runs, but for the moment between an instance's migration and
\* the end of the previous module's deinit, although owners are notified only
\* when the exports changed.  This needs every publish to find the instances on
\* the script's module and their owners notified, for it compares with that
\* module only and forgets whether the exports had changed before.
InspectorsCurrent ==
    inEditor /\ ~mixed =>
        \A i \in registered : Within("retire", i) \/ shown[i] = Exports(pinned[i])

=============================================================================
