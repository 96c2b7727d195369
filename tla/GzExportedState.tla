--------------------------- MODULE GzExportedState ---------------------------
(***************************************************************************)
(* The exported properties of one script instance (gz_script.cpp): the    *)
(* values its Zig code holds, and InstanceData::retained_objects, the     *)
(* references the host keeps for it.  Zig code knows an object only by    *)
(* its id, so a RefCounted object that only an export names lives as long *)
(* as the host retains it.  Calls change exports freely; when a call      *)
(* returns, sync_retained_objects() walks over the properties in the      *)
(* order of the descriptor.  migrate_editor_instance() copies the exports *)
(* to an instance of another module and builds the retained objects anew. *)
(***************************************************************************)
EXTENDS Integers, FiniteSets

CONSTANTS
    NumProperties,  \* property names; a descriptor lists them in this order
    Objects,        \* ids of RefCounted objects; an id is never used again
    Narrow,         \* the objects of the class that narrow exports ask for
    Nil,            \* no object, id 0
    MaxCalls        \* bound on nested calls

ASSUME StateConstants ==
    /\ NumProperties \in Nat \ {0} /\ MaxCalls \in Nat
    /\ IsFiniteSet(Objects) /\ Narrow \subseteq Objects
    /\ Nil \notin Objects /\ Nil \notin Int

Properties == 1..NumProperties

\* what a descriptor says of a name, absent ("none") names included: a narrow
\* number rejects 1, as an i8 rejects 1000; a narrow object has a class name;
\* Zig gives an optional object the value null, others always name an object
Kinds == [type : {"none"}, narrow : {FALSE}, optional : {FALSE}]
    \cup [type : {"int"}, narrow : BOOLEAN, optional : {FALSE}]
    \cup [type : {"object"}, narrow : BOOLEAN, optional : BOOLEAN]
Layouts == [Properties -> Kinds]
Numbers == 0..1
Values == Numbers \cup Objects \cup {Nil}

VARIABLES
    layout,     \* the descriptor of InstanceData::module
    field,      \* the values in the Zig instance
    retained,   \* InstanceData::retained_objects
    kept,       \* previous_retained of a migration that is going on
    others,     \* objects that something else holds a reference to
    cursor,     \* the loop of sync_retained_objects(), 0 outside of it
    calls       \* calls of the instance's code that have not returned

stateVars == <<layout, field, retained, kept, others, cursor, calls>>

\* reference counting: an object exists while anything refers to it
Alive == (others \cup kept \cup {retained[p] : p \in Properties}) \ {Nil}

\* setProperty of the module: fromValue() finds a value of the field's type
Accepts(kind, v) ==
    CASE kind.type = "int" -> v \in Numbers /\ (kind.narrow => v = 0)
      [] kind.type = "object" -> v \in Objects \/ (v = Nil /\ kind.optional)
      [] OTHER -> FALSE

\* is_class() of the expected class
Conforms(kind, v) == v \in Objects /\ kind.narrow => v \in Narrow

\* what Script.init() may leave in the fields of a new instance
Defaults(l) ==
    {f \in [Properties -> {0} \cup others \cup {Nil}] : \A p \in Properties :
        IF l[p].type = "none" THEN f[p] = Nil
        ELSE Accepts(l[p], f[p]) /\ Conforms(l[p], f[p])}

StateInit ==
    /\ layout \in Layouts
    /\ others = Objects
    /\ field \in Defaults(layout)
    /\ retained = [p \in Properties |-> Nil]
    /\ kept = {}
    /\ cursor = 1       \* _instance_create() syncs the new instance
    /\ calls = 0

-----------------------------------------------------------------------------

Idle == cursor = 0

\* instance_call() or instance_notification() enters the module's code
StateCall ==
    /\ Idle /\ calls < MaxCalls
    /\ calls' = calls + 1
    /\ UNCHANGED <<layout, field, retained, kept, others, cursor>>

\* the code assigns a field; a wrapper made from an id it kept can name an
\* object of another class, or one that is gone
ScriptAssign(p, v) ==
    /\ Idle /\ calls > 0
    /\ Accepts(layout[p], v)
    /\ field' = [field EXCEPT ![p] = v]
    /\ UNCHANGED <<layout, retained, kept, others, cursor, calls>>

\* the call returns and sync_retained_objects() begins
StateReturn ==
    /\ Idle /\ calls > 0
    /\ calls' = calls - 1
    /\ cursor' = 1
    /\ UNCHANGED <<layout, field, retained, kept, others>>

Advance == cursor' = cursor + 1

\* nothing to do for a property that is not an object
SkipProperty ==
    /\ cursor \in Properties
    /\ layout[cursor].type # "object"
    /\ Advance
    /\ UNCHANGED <<layout, field, retained, kept, others, calls>>

\* what ObjectDB::get_instance() makes of the property's id
Exported(p) == IF field[p] \in Alive THEN field[p] ELSE Nil

\* mutant: an object of any class is taken over
RetainAnyClass ==
    /\ cursor \in Properties
    /\ layout[cursor].type = "object"
    /\ retained' = [retained EXCEPT ![cursor] = Exported(cursor)]
    /\ Advance
    /\ UNCHANGED <<layout, field, kept, others, calls>>

\* mutant: only an empty entry is filled
RetainOnce ==
    /\ cursor \in Properties
    /\ layout[cursor].type = "object"
    /\ Conforms(layout[cursor], Exported(cursor))
    /\ retained' = [retained EXCEPT ![cursor] =
                       IF @ = Nil THEN Exported(cursor) ELSE @]
    /\ Advance
    /\ UNCHANGED <<layout, field, kept, others, calls>>

\* retained_objects[i] = object lets the entry's former object go at once
RetainProperty ==
    /\ cursor \in Properties
    /\ layout[cursor].type = "object"
    /\ Conforms(layout[cursor], Exported(cursor))
    /\ retained' = [retained EXCEPT ![cursor] = Exported(cursor)]
    /\ Advance
    /\ UNCHANGED <<layout, field, kept, others, calls>>

\* an incompatible object is replaced by the one retained before, if the
\* field takes it: the status of this set_property is not looked at
RestoreProperty ==
    /\ cursor \in Properties
    /\ layout[cursor].type = "object"
    /\ ~Conforms(layout[cursor], Exported(cursor))
    /\ field' = IF Accepts(layout[cursor], retained[cursor])
                THEN [field EXCEPT ![cursor] = retained[cursor]] ELSE field
    /\ Advance
    /\ UNCHANGED <<layout, retained, kept, others, calls>>

\* the loop is over; a migration releases previous_retained
EndSync ==
    /\ cursor = NumProperties + 1
    /\ cursor' = 0
    /\ kept' = {}
    /\ UNCHANGED <<layout, field, retained, others, calls>>

\* instance_set() that succeeds; everything else returns before it changes
\* anything
InstanceSet(p, v) ==
    /\ Idle /\ layout[p].type # "none"
    /\ layout[p].type = "object" =>
          v \in {Nil} \cup Alive /\ Conforms(layout[p], v)
    /\ Accepts(layout[p], v)
    /\ field' = [field EXCEPT ![p] = v]
    /\ retained' = IF layout[p].type = "object"
                   THEN [retained EXCEPT ![p] = v] ELSE retained
    /\ UNCHANGED <<layout, kept, others, cursor, calls>>

\* the properties whose values migrate: the same name and type in both modules
Common(next) == {p \in Properties :
    layout[p].type # "none" /\ layout[p].type = next[p].type}

\* mutant: the new instance is taken over with the old one's fields
MigrateKeepsFields(next) ==
    /\ Idle /\ calls = 0
    /\ layout' = next
    /\ kept' = {retained[p] : p \in Properties} \ {Nil}
    /\ retained' = [p \in Properties |-> Nil]
    /\ cursor' = 1
    /\ UNCHANGED <<field, others, calls>>

\* mutant: the retained objects are released before the new ones are found
MigrateReleases(next) ==
    /\ Idle /\ calls = 0
    /\ \A p \in Common(next) : Accepts(next[p], field[p])
    /\ layout' = next
    /\ \E defaults \in Defaults(next) :
          field' = [p \in Properties |->
              IF p \in Common(next) THEN field[p] ELSE defaults[p]]
    /\ retained' = [p \in Properties |-> Nil]
    /\ cursor' = 1
    /\ UNCHANGED <<kept, others, calls>>

\* migrate_editor_instance(): when a value does not fit, or the new instance
\* cannot be created, the instance stays as it is
Migrate(next) ==
    /\ Idle /\ calls = 0
    /\ \A p \in Common(next) : Accepts(next[p], field[p])
    /\ layout' = next
    /\ \E defaults \in Defaults(next) :
          field' = [p \in Properties |->
              IF p \in Common(next) THEN field[p] ELSE defaults[p]]
    /\ kept' = {retained[p] : p \in Properties} \ {Nil}
    /\ retained' = [p \in Properties |-> Nil]
    /\ cursor' = 1
    /\ UNCHANGED <<others, calls>>

\* something else takes a reference to an object, or lets it go, at any time
Take(o) ==
    /\ o \in Alive
    /\ others' = others \cup {o}
    /\ UNCHANGED <<layout, field, retained, kept, cursor, calls>>

Release(o) ==
    /\ others' = others \ {o}
    /\ UNCHANGED <<layout, field, retained, kept, cursor, calls>>

StateNext ==
    \/ StateCall \/ StateReturn
    \/ SkipProperty \/ RetainProperty \/ RestoreProperty \/ EndSync
    \/ \E p \in Properties, v \in Values : ScriptAssign(p, v) \/ InstanceSet(p, v)
    \/ \E next \in Layouts : Migrate(next)
    \/ \E o \in Objects : Take(o) \/ Release(o)

StateSpec == StateInit /\ [][StateNext]_stateVars

-----------------------------------------------------------------------------
(* Properties                                                              *)

\* The variables have their types, and fields hold what their types admit.
StateTypeOK ==
    /\ layout \in Layouts
    /\ field \in [Properties -> Values]
    /\ \A p \in Properties : layout[p].type # "none" => Accepts(layout[p], field[p])
    /\ retained \in [Properties -> Objects \cup {Nil}]
    /\ kept \subseteq Objects /\ others \subseteq Objects
    /\ cursor \in 0..NumProperties + 1
    /\ calls \in 0..MaxCalls

AtRest == Idle /\ calls = 0

\* Between calls every object that an export names is retained by the host,
\* and nothing else is: an export never lives only by somebody else's grace,
\* and an object no export names is let go.
RetentionMatches ==
    AtRest => \A p \in Properties :
        /\ retained[p] \in {field[p], Nil}
        /\ layout[p].type = "object" /\ field[p] \in Alive
              /\ Conforms(layout[p], field[p]) => retained[p] = field[p]

\* Whatever the script assigned and whichever module it was migrated to,
\* between calls an export names an object of its class, unless the field
\* cannot be null and there was nothing to restore.
ExportsConform ==
    AtRest => \A p \in Properties :
        layout[p].type = "object" /\ field[p] \in Alive =>
            \/ Conforms(layout[p], field[p])
            \/ ~layout[p].optional /\ retained[p] = Nil

\* "Keep old RefCounted exports alive until the new retention set is built":
\* from its first step to its last, a migration destroys no object that was
\* retained before it and that an export of the new module still names.
MigrationKeepsObjects ==
    [][layout' # layout \/ kept # {} =>
          \A p \in Properties :
             LET held == field'[p] \in kept \cup {retained[q] : q \in Properties}
             IN  layout'[p].type = "object" /\ held /\ Conforms(layout'[p], field'[p])
                    => field'[p] \in Alive' \cup {Nil}]_stateVars

\* "Script-side object assignment did not retain its value": when a call has
\* returned, taking over the exports destroys no object that is exported.
SyncKeepsExports ==
    [][RetainProperty => \A p \in Properties :
          layout[p].type = "object" /\ field[p] \in Alive
             => field[p] \in Alive']_stateVars

=============================================================================
