--------------------------- MODULE GzModule_proofs ---------------------------
(***************************************************************************)
(* Proofs about one compiled module: the exported state of an instance     *)
(* that runs it (GzExportedState), for any number of properties, objects   *)
(* and nested calls, and how it is loaded (GzCompiledModule), for any      *)
(* descriptor; and about MCGzScriptExports, whose behaviours are           *)
(* behaviours of both and of a script.                                     *)
(***************************************************************************)
EXTENDS MCGzScriptExports, GzScript_proofs

-----------------------------------------------------------------------------
(* Values and objects                                                      *)

\* A field of an object type takes objects, and null if it is optional.
LEMMA AcceptsObject ==
    ASSUME NEW kind, NEW v, kind.type = "object"
    PROVE  Accepts(kind, v) <=> v \in Objects \/ (v = Nil /\ kind.optional)
BY DEF Accepts

\* What a field accepts is a value, and no object is of a class it lacks.
LEMMA AcceptedValue ==
    ASSUME NEW kind \in Kinds, NEW v, Accepts(kind, v)
    PROVE  v \in Values /\ (kind.type = "object" => v \in Objects \cup {Nil})
BY DEF Accepts, Values, Kinds

LEMMA NilConforms == \A kind : Conforms(kind, Nil)
BY StateConstants DEF Conforms

\* The types of a layout and of the host's references.
RefsType ==
    /\ layout \in Layouts
    /\ retained \in [Properties -> Objects \cup {Nil}]
    /\ kept \subseteq Objects /\ others \subseteq Objects
FieldType ==
    /\ field \in [Properties -> Values]
    /\ \A p \in Properties : layout[p].type # "none" => Accepts(layout[p], field[p])
CursorType == cursor \in 0..NumProperties + 1 /\ calls \in 0..MaxCalls

LEMMA AliveObjects == RefsType => Alive \subseteq Objects
BY DEF RefsType, Alive

\* The host retains for an object property only what its class admits.
RetainedInv == \A p \in Properties :
    IF layout[p].type = "object" THEN Conforms(layout[p], retained[p])
    ELSE retained[p] = Nil

\* A migration keeps its old objects while it syncs the new instance, which
\* retains nothing of the properties that it has not come to.
KeptInv ==
    kept # {} => /\ cursor # 0
                 /\ \A p \in Properties : p >= cursor => retained[p] = Nil

\* What sync_retained_objects() has established of a property it has passed.
Synced(p) ==
    /\ retained[p] \in {field[p], Nil}
    /\ layout[p].type = "object" /\ field[p] \in Alive
          /\ Conforms(layout[p], field[p]) => retained[p] = field[p]
Conforming(p) ==
    layout[p].type = "object" /\ field[p] \in Alive =>
        \/ Conforms(layout[p], field[p])
        \/ ~layout[p].optional /\ retained[p] = Nil

SyncInv == \A p \in Properties :
    p < cursor \/ AtRest => Synced(p) /\ Conforming(p)

StateInv == RefsType /\ FieldType /\ CursorType /\ RetainedInv /\ KeptInv /\ SyncInv

LEMMA StateInvMeaning ==
    StateInv => StateTypeOK /\ RetentionMatches /\ ExportsConform
BY DEF StateInv, RefsType, FieldType, CursorType, StateTypeOK, SyncInv, Synced,
       Conforming, RetentionMatches, ExportsConform

\* Fields of a new instance have their types.
LEMMA DefaultFields ==
    ASSUME others \subseteq Objects, NEW l \in Layouts, NEW f \in Defaults(l)
    PROVE  /\ f \in [Properties -> Values]
           /\ \A p \in Properties : l[p].type # "none" => Accepts(l[p], f[p])
BY DEF Defaults, Values, Numbers

LEMMA StateInitInv == StateInit => StateInv
<1> SUFFICES ASSUME StateInit PROVE StateInv
  OBVIOUS
<1>1. RefsType
  BY StateConstants DEF StateInit, RefsType
<1>2. FieldType
  BY DefaultFields DEF StateInit, FieldType
<1>3. CursorType
  BY StateConstants DEF StateInit, CursorType
<1>4. RetainedInv
  BY NilConforms DEF StateInit, RetainedInv
<1>5. KeptInv
  BY DEF StateInit, KeptInv
<1>6. SyncInv
  BY StateConstants DEF StateInit, SyncInv, AtRest, Idle, Properties
<1> QED BY <1>1, <1>2, <1>3, <1>4, <1>5, <1>6 DEF StateInv

-----------------------------------------------------------------------------
(* The steps of sync_retained_objects()                                    *)

\* What a synced property keeps when objects go and its own entry stays.
LEMMA SyncedStays ==
    ASSUME NEW p \in Properties, Synced(p), Conforming(p), Alive' \subseteq Alive,
           layout'[p] = layout[p], field'[p] = field[p], retained'[p] = retained[p]
    PROVE  Synced(p)' /\ Conforming(p)'
BY DEF Synced, Conforming

\* The cursor passes a property that it leaves synced, and the others stay.
LEMMA CursorAdvances ==
    ASSUME StateInv, NEW c \in Properties, cursor = c, Advance,
           Alive' \subseteq Alive, UNCHANGED <<layout, calls>>,
           Synced(c)', Conforming(c)',
           \A p \in Properties : p # c => field'[p] = field[p] /\ retained'[p] = retained[p]
    PROVE  SyncInv' /\ CursorType'
<1> USE DEF StateInv, CursorType, Properties, Advance
<1>1. cursor' # 0 /\ cursor' = cursor + 1
  BY StateConstants
<1>2. ASSUME NEW p \in Properties, p < cursor' PROVE Synced(p)' /\ Conforming(p)'
  <2>1. CASE p = c
    BY <2>1
  <2>2. CASE p # c
    <3>1. p < cursor
      BY <1>1, <1>2, <2>2, StateConstants
    <3>2. Synced(p) /\ Conforming(p)
      BY <3>1 DEF SyncInv
    <3> QED BY <2>2, <3>2, SyncedStays
  <2> QED BY <2>1, <2>2
<1>3. SyncInv'
  BY <1>1, <1>2 DEF SyncInv, AtRest, Idle
<1>4. CursorType'
  BY <1>1, StateConstants
<1> QED BY <1>3, <1>4

\* The steps of the loop change no module, no call and nothing outside.
LEMMA SkipKeeps == StateInv /\ SkipProperty => StateInv'
<1> SUFFICES ASSUME StateInv, SkipProperty PROVE StateInv'
  OBVIOUS
<1>1. PICK c \in Properties : c = cursor
  BY DEF SkipProperty
<1>2. /\ layout[c].type # "object" /\ Advance
      /\ UNCHANGED <<layout, field, retained, kept, others, calls>>
  BY <1>1 DEF SkipProperty
<1>3. RefsType' /\ FieldType' /\ RetainedInv' /\ Alive' = Alive
  BY <1>2 DEF StateInv, RefsType, FieldType, RetainedInv, Alive
<1>4. Synced(c)' /\ Conforming(c)'
  BY <1>2 DEF StateInv, RetainedInv, Synced, Conforming
<1>5. SyncInv' /\ CursorType'
  BY <1>1, <1>2, <1>3, <1>4, CursorAdvances
<1>6. KeptInv'
  BY <1>2, StateConstants DEF StateInv, CursorType, KeptInv, Advance, Properties
<1> QED BY <1>3, <1>5, <1>6 DEF StateInv

LEMMA RetainKeeps == StateInv /\ RetainProperty => StateInv'
<1> SUFFICES ASSUME StateInv, RetainProperty PROVE StateInv'
  OBVIOUS
<1>1. PICK c \in Properties : c = cursor
  BY DEF RetainProperty
<1>2. /\ layout[c].type = "object" /\ Advance
      /\ Conforms(layout[c], Exported(c))
      /\ retained' = [retained EXCEPT ![c] = Exported(c)]
      /\ UNCHANGED <<layout, field, kept, others, calls>>
  BY <1>1 DEF RetainProperty
<1>3. Exported(c) \in Alive \cup {Nil} /\ Alive \subseteq Objects
  BY AliveObjects DEF Exported, StateInv
<1>4. RefsType' /\ FieldType' /\ RetainedInv'
  BY <1>2, <1>3 DEF StateInv, RefsType, FieldType, RetainedInv
<1>5. Alive' \subseteq Alive
  <2>1. \A p \in Properties : retained'[p] \in Alive \cup {Nil}
    BY <1>2, <1>3 DEF StateInv, RefsType, Alive
  <2>2. others' = others /\ kept' = kept
    BY <1>2
  <2> QED BY <2>1, <2>2 DEF Alive
<1>6. Synced(c)' /\ Conforming(c)'
  <2>1. retained'[c] = IF field[c] \in Alive THEN field[c] ELSE Nil
    BY <1>2 DEF Exported, StateInv, RefsType
  <2>2. layout' = layout /\ field' = field
    BY <1>2
  <2>3. field[c] \in Alive => Conforms(layout[c], field[c])
    BY <1>2 DEF Exported
  <2> QED BY <1>5, <2>1, <2>2, <2>3 DEF Synced, Conforming
<1>7. SyncInv' /\ CursorType'
  BY <1>1, <1>2, <1>5, <1>6, CursorAdvances DEF StateInv, RefsType
<1>8. KeptInv'
  BY <1>1, <1>2, StateConstants DEF StateInv, RefsType, CursorType, KeptInv, Advance, Properties
<1> QED BY <1>4, <1>7, <1>8 DEF StateInv

LEMMA RestoreKeeps == StateInv /\ RestoreProperty => StateInv'
<1> SUFFICES ASSUME StateInv, RestoreProperty PROVE StateInv'
  OBVIOUS
<1>1. PICK c \in Properties : c = cursor
  BY DEF RestoreProperty
<1>2. /\ layout[c].type = "object" /\ Advance
      /\ ~Conforms(layout[c], Exported(c))
      /\ field' = IF Accepts(layout[c], retained[c])
                  THEN [field EXCEPT ![c] = retained[c]] ELSE field
      /\ UNCHANGED <<layout, retained, kept, others, calls>>
  BY <1>1 DEF RestoreProperty
<1>3. RefsType' /\ RetainedInv' /\ Alive' = Alive
  BY <1>2 DEF StateInv, RefsType, RetainedInv, Alive
<1>4. FieldType'
  <2>1. retained[c] \in Values
    BY DEF StateInv, RefsType, Values
  <2> QED BY <1>2, <2>1 DEF StateInv, FieldType
<1>5. Synced(c)' /\ Conforming(c)'
  <2>1. Conforms(layout[c], retained[c]) /\ retained[c] \in Objects \cup {Nil}
    BY <1>2 DEF StateInv, RetainedInv, RefsType
  <2>2. CASE Accepts(layout[c], retained[c])
    <3>1. field'[c] = retained[c]
      BY <1>2, <2>2 DEF StateInv, FieldType
    <3> QED BY <1>2, <2>1, <3>1 DEF Synced, Conforming
  <2>3. CASE ~Accepts(layout[c], retained[c])
    <3>1. retained[c] = Nil /\ ~layout[c].optional /\ field' = field
      BY <1>2, <2>1, <2>3, AcceptsObject
    <3>2. field[c] \in Alive => ~Conforms(layout[c], field[c])
      BY <1>2 DEF Exported
    <3> QED BY <1>2, <1>3, <3>1, <3>2 DEF Synced, Conforming
  <2> QED BY <2>2, <2>3
<1>6. SyncInv' /\ CursorType'
  BY <1>1, <1>2, <1>3, <1>5, CursorAdvances DEF StateInv, FieldType
<1>7. KeptInv'
  BY <1>1, <1>2, StateConstants DEF StateInv, CursorType, KeptInv, Advance, Properties
<1> QED BY <1>3, <1>4, <1>6, <1>7 DEF StateInv

\* The end of the loop: every property is synced, and what only a migration
\* still kept may go.
LEMMA EndKeeps == StateInv /\ EndSync => StateInv'
<1> SUFFICES ASSUME StateInv, EndSync PROVE StateInv'
  OBVIOUS
<1>1. /\ cursor = NumProperties + 1 /\ cursor' = 0 /\ kept' = {}
      /\ UNCHANGED <<layout, field, retained, others, calls>>
  BY DEF EndSync
<1>2. Alive' \subseteq Alive
  BY <1>1 DEF Alive
<1>3. \A p \in Properties : Synced(p) /\ Conforming(p)
  BY <1>1, StateConstants DEF StateInv, SyncInv, Properties
<1>4. SyncInv'
  BY <1>1, <1>2, <1>3, SyncedStays DEF SyncInv
<1>5. RefsType' /\ FieldType' /\ RetainedInv' /\ KeptInv' /\ CursorType'
  BY <1>1, StateConstants DEF StateInv, RefsType, FieldType, RetainedInv, KeptInv, CursorType
<1> QED BY <1>4, <1>5 DEF StateInv

-----------------------------------------------------------------------------
(* The steps outside of the loop                                           *)

\* A call is entered or returns.
LEMMA CallKeeps == StateInv /\ (StateCall \/ StateReturn) => StateInv'
<1> SUFFICES ASSUME StateInv, StateCall \/ StateReturn PROVE StateInv'
  OBVIOUS
<1>1. UNCHANGED <<layout, field, retained, kept, others>> /\ cursor = 0
  BY DEF StateCall, StateReturn, Idle
<1>2. RefsType' /\ FieldType' /\ RetainedInv' /\ kept = {}
  BY <1>1 DEF StateInv, RefsType, FieldType, RetainedInv, KeptInv
<1>3. \/ cursor' = 0 /\ calls' # 0 /\ calls' \in 0..MaxCalls
      \/ cursor' = 1 /\ calls' \in 0..MaxCalls
  BY <1>1, StateConstants DEF StateInv, CursorType, StateCall, StateReturn
<1>4. CursorType' /\ KeptInv'
  BY <1>1, <1>2, <1>3, StateConstants DEF CursorType, KeptInv
<1>5. SyncInv'
  BY <1>1, <1>3, StateConstants DEF SyncInv, AtRest, Idle, Properties
<1> QED BY <1>2, <1>4, <1>5 DEF StateInv

\* Zig code assigns a field, which puts the exports out of step until the
\* call returns.
LEMMA AssignKeeps ==
    ASSUME StateInv, NEW p \in Properties, NEW v \in Values, ScriptAssign(p, v)
    PROVE  StateInv'
<1>1. /\ cursor = 0 /\ calls > 0 /\ Accepts(layout[p], v)
      /\ field' = [field EXCEPT ![p] = v]
      /\ UNCHANGED <<layout, retained, kept, others, cursor, calls>>
  BY DEF ScriptAssign, Idle
<1>2. RefsType' /\ RetainedInv' /\ KeptInv' /\ CursorType'
  BY <1>1 DEF StateInv, RefsType, RetainedInv, KeptInv, CursorType
<1>3. FieldType'
  BY <1>1 DEF StateInv, FieldType
<1>4. SyncInv'
  BY <1>1, StateConstants DEF SyncInv, AtRest, Idle, Properties, StateInv, CursorType
<1> QED BY <1>2, <1>3, <1>4 DEF StateInv

\* A property is set from outside, which retains its object at once.
LEMMA SetKeeps ==
    ASSUME StateInv, NEW p \in Properties, NEW v \in Values, InstanceSet(p, v)
    PROVE  StateInv'
<1>1. /\ cursor = 0 /\ layout[p].type # "none" /\ Accepts(layout[p], v)
      /\ layout[p].type = "object" => v \in {Nil} \cup Alive /\ Conforms(layout[p], v)
      /\ field' = [field EXCEPT ![p] = v]
      /\ retained' = IF layout[p].type = "object"
                     THEN [retained EXCEPT ![p] = v] ELSE retained
      /\ UNCHANGED <<layout, kept, others, cursor, calls>>
  BY DEF InstanceSet, Idle
<1>2. Alive \subseteq Objects
  BY AliveObjects DEF StateInv
<1>3. RefsType' /\ FieldType' /\ RetainedInv'
  BY <1>1, <1>2 DEF StateInv, RefsType, FieldType, RetainedInv
<1>4. KeptInv' /\ CursorType'
  BY <1>1 DEF StateInv, KeptInv, CursorType
<1>5. Alive' \subseteq Alive
  <2>1. \A q \in Properties : retained'[q] \in Alive \cup {Nil}
    BY <1>1 DEF StateInv, RefsType, Alive
  <2>2. others' = others /\ kept' = kept
    BY <1>1
  <2> QED BY <2>1, <2>2 DEF Alive
<1>6. ASSUME AtRest, NEW q \in Properties PROVE Synced(q)' /\ Conforming(q)'
  <2>1. Synced(q) /\ Conforming(q)
    BY <1>6 DEF StateInv, SyncInv
  <2>2. CASE q # p
    <3>1. layout'[q] = layout[q] /\ field'[q] = field[q] /\ retained'[q] = retained[q]
      BY <1>1, <2>2 DEF StateInv, RefsType, FieldType
    <3> QED BY <1>5, <2>1, <3>1, SyncedStays
  <2>3. CASE q = p /\ layout[p].type = "object"
    <3>1. layout'[q] = layout[q] /\ field'[q] = v /\ retained'[q] = v
      BY <1>1, <2>3 DEF StateInv, RefsType, FieldType
    <3> QED BY <1>1, <2>3, <3>1 DEF Synced, Conforming
  <2>4. CASE q = p /\ layout[p].type # "object"
    <3>1. layout'[q] = layout[q] /\ retained'[q] = Nil
      BY <1>1, <2>4 DEF StateInv, RetainedInv
    <3> QED BY <2>4, <3>1 DEF Synced, Conforming
  <2> QED BY <2>2, <2>3, <2>4
<1>7. SyncInv'
  <2>1. \A q \in Properties : ~(q < cursor')
    BY <1>1, StateConstants DEF Properties
  <2>2. AtRest' => AtRest
    BY <1>1 DEF AtRest, Idle
  <2> QED BY <1>6, <2>1, <2>2 DEF SyncInv
<1> QED BY <1>3, <1>4, <1>7 DEF StateInv

\* An instance is moved to another module: its retained objects are put aside
\* and the sync begins anew.
LEMMA MigrateKeeps ==
    ASSUME StateInv, NEW next \in Layouts, Migrate(next)
    PROVE  StateInv'
<1>1. /\ layout' = next /\ cursor' = 1 /\ UNCHANGED <<others, calls>>
      /\ \A p \in Common(next) : Accepts(next[p], field[p])
      /\ kept' = {retained[p] : p \in Properties} \ {Nil}
      /\ retained' = [p \in Properties |-> Nil]
  BY DEF Migrate
<1>2. PICK defaults \in Defaults(next) :
         field' = [p \in Properties |->
             IF p \in Common(next) THEN field[p] ELSE defaults[p]]
  BY DEF Migrate
<1>3. /\ defaults \in [Properties -> Values]
      /\ \A p \in Properties : next[p].type # "none" => Accepts(next[p], defaults[p])
  BY DefaultFields DEF StateInv, RefsType
<1>4. FieldType'
  BY <1>1, <1>2, <1>3 DEF StateInv, FieldType
<1>5. RefsType'
  BY <1>1 DEF StateInv, RefsType
<1>6. RetainedInv'
  BY <1>1, NilConforms DEF RetainedInv
<1>7. KeptInv' /\ CursorType'
  BY <1>1, StateConstants DEF StateInv, KeptInv, CursorType
<1>8. SyncInv'
  BY <1>1, StateConstants DEF SyncInv, AtRest, Idle, Properties
<1> QED BY <1>4, <1>5, <1>6, <1>7, <1>8 DEF StateInv

\* Objects are taken and released by others: none comes back to life.
LEMMA OthersKeep ==
    ASSUME StateInv, NEW o \in Objects, Take(o) \/ Release(o)
    PROVE  StateInv'
<1>1. UNCHANGED <<layout, field, retained, kept, cursor, calls>>
  BY DEF Take, Release
<1>2. Alive' \subseteq Alive /\ others' \subseteq Objects
  BY DEF Take, Release, Alive, StateInv, RefsType
<1>3. RefsType' /\ FieldType' /\ RetainedInv' /\ KeptInv' /\ CursorType'
  BY <1>1, <1>2 DEF StateInv, RefsType, FieldType, RetainedInv, KeptInv, CursorType
<1>4. SyncInv'
  BY <1>1, <1>2, SyncedStays DEF StateInv, SyncInv, AtRest, Idle
<1> QED BY <1>3, <1>4 DEF StateInv

LEMMA StateStep == StateInv /\ [StateNext]_stateVars => StateInv'
<1>1. StateInv /\ UNCHANGED stateVars => StateInv'
  BY DEF stateVars, StateInv, RefsType, FieldType, CursorType, RetainedInv, KeptInv,
         SyncInv, Synced, Conforming, AtRest, Idle, Alive
<1> QED BY <1>1, SkipKeeps, RetainKeeps, RestoreKeeps, EndKeeps, CallKeeps, AssignKeeps,
           SetKeeps, MigrateKeeps, OthersKeep DEF StateNext

LEMMA StateInvHolds == StateSpec => []StateInv
BY StateInitInv, StateStep, PTL DEF StateSpec

\* Types hold, and fields hold what their types admit.
THEOREM StateTypesTheorem == StateSpec => []StateTypeOK
BY StateInvHolds, StateInvMeaning, PTL

\* Between calls the host retains exactly the objects that exports name.
THEOREM RetentionTheorem == StateSpec => []RetentionMatches
BY StateInvHolds, StateInvMeaning, PTL

\* Between calls an export names an object of its class, or cannot be null
\* and had nothing to be restored.
THEOREM ConformTheorem == StateSpec => []ExportsConform
BY StateInvHolds, StateInvMeaning, PTL

\* A migration destroys no object that was retained before it and that an
\* export of the new module names.
THEOREM MigrationTheorem == StateSpec => MigrationKeepsObjects
<1> DEFINE Held(p) == field'[p] \in kept \cup {retained[q] : q \in Properties}
           Safe == layout' # layout \/ kept # {} =>
              \A p \in Properties :
                 layout'[p].type = "object" /\ Held(p) /\ Conforms(layout'[p], field'[p])
                    => field'[p] \in Alive' \cup {Nil}
<1>1. StateInv /\ StateNext => Safe
  <2> SUFFICES ASSUME StateInv, StateNext, layout' # layout \/ kept # {},
                      NEW p \in Properties, layout'[p].type = "object", Held(p),
                      Conforms(layout'[p], field'[p])
               PROVE  field'[p] \in Alive' \cup {Nil}
    OBVIOUS
  <2> USE DEF StateInv
  <2>1. ASSUME NEW next \in Layouts, Migrate(next) PROVE field'[p] \in Alive' \cup {Nil}
    <3>1. kept = {} /\ kept' = {retained[q] : q \in Properties} \ {Nil}
      BY <2>1 DEF Migrate, KeptInv, Idle
    <3> QED BY <3>1 DEF Alive
  <2>2. CASE ~\E next \in Layouts : Migrate(next)
    <3>1. layout' = layout
      BY <2>2 DEF StateNext, StateCall, StateReturn, SkipProperty, RetainProperty,
                  RestoreProperty, EndSync, ScriptAssign, InstanceSet, Take, Release
    <3>2. cursor # 0 /\ \A q \in Properties : q >= cursor => retained[q] = Nil
      BY <3>1 DEF KeptInv
    <3>3. CASE kept' = kept /\ retained' = retained
      BY <3>3 DEF Alive
    <3>4. CASE RetainProperty
      <4>1. /\ kept' = kept /\ field' = field /\ cursor \in Properties
            /\ retained' = [retained EXCEPT ![cursor] = Exported(cursor)]
        BY <3>4 DEF RetainProperty
      <4>2. retained[cursor] = Nil
        BY <3>2, <4>1, StateConstants DEF Properties
      <4>3. \A q \in Properties : q # cursor => retained'[q] = retained[q]
        BY <4>1 DEF RefsType
      <4> QED BY <4>1, <4>2, <4>3 DEF Alive
    <3>5. CASE EndSync
      <4>1. /\ UNCHANGED <<layout, field, retained>> /\ cursor = NumProperties + 1
        BY <3>5 DEF EndSync
      <4>2. Synced(p)
        BY <4>1, StateConstants DEF SyncInv, Properties
      <4>3. field[p] \in Alive \cup {Nil}
        BY <4>1 DEF Alive
      <4>4. retained[p] = field[p] \/ field[p] = Nil
        BY <3>1, <4>1, <4>2, <4>3 DEF Synced
      <4> QED BY <4>1, <4>4 DEF Alive
    <3> QED BY <2>2, <3>2, <3>3, <3>4, <3>5
            DEF StateNext, StateCall, StateReturn, SkipProperty, RestoreProperty,
                ScriptAssign, InstanceSet, Take, Release, Idle
  <2> QED BY <2>1, <2>2
<1>2. StateInv /\ [StateNext]_stateVars => [Safe]_stateVars
  BY <1>1
<1>3. StateSpec => [][Safe]_stateVars
  BY <1>2, StateInvHolds, PTL DEF StateSpec
<1> QED BY <1>3 DEF MigrationKeepsObjects

-----------------------------------------------------------------------------
(* Loading: descriptors and checks                                         *)

\* A descriptor's names and entries are sequences of a bounded length.
LEMMA DescriptorType ==
    ASSUME NEW d \in Descriptors
    PROVE  /\ d.names \in Seq(Names) /\ Len(d.names) \in 0..MaxProperties
           /\ DOMAIN d.names = 1..Len(d.names)
           /\ d.entries \in Seq(Entries) /\ Len(d.entries) \in 0..MaxEntries
           /\ DOMAIN d.entries = 1..Len(d.entries)
<1>1. d.names \in UpTo(MaxProperties, Names) /\ d.entries \in UpTo(MaxEntries, Entries)
  BY DEF Descriptors
<1>2. PICK m \in 0..MaxProperties : d.names \in [1..m -> Names]
  BY <1>1 DEF UpTo
<1>3. PICK n \in 0..MaxEntries : d.entries \in [1..n -> Entries]
  BY <1>1 DEF UpTo
<1> QED BY <1>2, <1>3, LoaderConstants

\* The number an entry gives.
LEMMA EntryType ==
    ASSUME NEW e \in Entries
    PROVE  e.property \in Nat /\ (e.kind = "property" => e = [kind |-> "property", property |-> e.property])
BY LoaderConstants DEF Entries

\* The check that follows another one.
LEMMA AfterChecks ==
    /\ After("symbol") = "init" /\ After("init") = "abi"
    /\ After("abi") = "incomplete" /\ After("incomplete") = "metadata"
    /\ After("metadata") = "entries"
<1> DEFINE number(check) == CHOOSE m \in DOMAIN Checks : Checks[m] = check
<1>1. DOMAIN Checks = 1..6 /\ Len(Checks) = 6
  BY DEF Checks
<1>2. /\ Checks[1] = "library" /\ Checks[2] = "symbol" /\ Checks[3] = "init"
      /\ Checks[4] = "abi" /\ Checks[5] = "incomplete" /\ Checks[6] = "metadata"
  BY DEF Checks
<1>3. number("symbol") = 2
  BY <1>1, <1>2
<1>4. number("init") = 3
  BY <1>1, <1>2
<1>5. number("abi") = 4
  BY <1>1, <1>2
<1>6. number("incomplete") = 5
  BY <1>1, <1>2
<1>7. number("metadata") = 6
  BY <1>1, <1>2
<1> QED BY <1>1, <1>2, <1>3, <1>4, <1>5, <1>6, <1>7 DEF After

Remaining(check) ==
    CASE check = "library" -> {"library", "symbol", "init", "abi", "incomplete", "metadata"}
      [] check = "symbol" -> {"symbol", "init", "abi", "incomplete", "metadata"}
      [] check = "init" -> {"init", "abi", "incomplete", "metadata"}
      [] check = "abi" -> {"abi", "incomplete", "metadata"}
      [] check = "incomplete" -> {"incomplete", "metadata"}
      [] check = "metadata" -> {"metadata"}
      [] OTHER -> {}

\* The checks in the middle of load(), each followed by what remains.
LEMMA MiddleChecks ==
    /\ {Checks[n] : n \in 2..Len(Checks)} = Remaining("symbol")
    /\ {Checks[n] : n \in DOMAIN Checks} = Remaining("library")
    /\ \A check \in Remaining("symbol") :
          /\ Remaining(After(check)) = Remaining(check) \ {check}
          /\ After(check) \in Remaining("symbol") \cup {"entries"}
<1>1. DOMAIN Checks = 1..6 /\ Len(Checks) = 6
  BY DEF Checks
<1>2. /\ Checks[1] = "library" /\ Checks[2] = "symbol" /\ Checks[3] = "init"
      /\ Checks[4] = "abi" /\ Checks[5] = "incomplete" /\ Checks[6] = "metadata"
  BY DEF Checks
<1>3. {Checks[n] : n \in 2..Len(Checks)} = Remaining("symbol")
  BY <1>1, <1>2 DEF Remaining
<1>4. {Checks[n] : n \in DOMAIN Checks} = Remaining("library")
  BY <1>1, <1>2 DEF Remaining
<1>5. ASSUME NEW check \in Remaining("symbol")
      PROVE  /\ Remaining(After(check)) = Remaining(check) \ {check}
             /\ After(check) \in Remaining("symbol") \cup {"entries"}
  BY AfterChecks DEF Remaining
<1> QED BY <1>3, <1>4, <1>5

-----------------------------------------------------------------------------
(* Loading: what each part of load() has established                       *)

Before == Remaining("library")

Lists(n, p) == descriptor.entries[n].kind = "property" /\ descriptor.entries[n].property = p

\* The first k entries are markers or list a property each, and no two the
\* same.
EntriesRead(k) ==
    /\ \A n \in 1..k : \/ descriptor.entries[n].kind = "marker"
                       \/ \E p \in 0..(Count - 1) : Lists(n, p)
    /\ listed = {p \in 0..(Count - 1) : \E n \in 1..k : Lists(n, p)}
    /\ \A p \in 0..(Count - 1) : \A m, n \in 1..k : Lists(m, p) /\ Lists(n, p) => m = n

\* The first k names are different and have their numbers.
NamesRead(k) ==
    /\ indices = {<<descriptor.names[n], n - 1>> : n \in 1..k}
    /\ \A m, n \in 1..k : descriptor.names[m] = descriptor.names[n] => m = n

CheckInv ==
    /\ place \in Before =>
          /\ position = 1 /\ listed = {} /\ indices = {}
          /\ descriptor.broken \in Remaining(place) \cup {"nothing"}
    /\ place \in {"entries", "names", "loaded", "destroyed"} => descriptor.broken = "nothing"

EntryInv ==
    /\ place = "entries" =>
          /\ position \in 1..(Len(descriptor.entries) + 1)
          /\ EntriesRead(position - 1) /\ indices = {}
    /\ place \in {"names", "loaded", "destroyed"} =>
          EntriesRead(Len(descriptor.entries)) /\ listed = 0..(Count - 1)

NameInv ==
    /\ place = "names" => position \in 1..(Count + 1) /\ NamesRead(position - 1)
    /\ place \in {"loaded", "destroyed"} => NamesRead(Count)

LoaderInv == LoaderTypeOK /\ CheckInv /\ EntryInv /\ NameInv /\ ClosedOnce

LEMMA PlacesAre ==
    Places = Before \cup {"entries", "names", "loaded", "failed", "destroyed"}
BY MiddleChecks DEF Places, Before

LEMMA LoaderInitInv == LoaderInit => LoaderInv
<1> SUFFICES ASSUME LoaderInit PROVE LoaderInv
  OBVIOUS
<1>1. "library" \in Before
  BY DEF Before, Remaining
<1>2. LoaderTypeOK
  BY <1>1, PlacesAre, LoaderConstants DEF LoaderInit, LoaderTypeOK
<1>3. descriptor.broken \in Before \cup {"nothing"}
  BY MiddleChecks DEF LoaderInit, Descriptors, Before
<1>4. CheckInv
  BY <1>3 DEF LoaderInit, CheckInv, Before
<1> QED BY <1>2, <1>4 DEF LoaderInit, LoaderInv, EntryInv, NameInv, ClosedOnce

\* What was read stays so while the descriptor and the results do.
LEMMA ReadStays ==
    ASSUME NEW k, UNCHANGED <<descriptor, listed, indices>>
    PROVE  /\ EntriesRead(k) => EntriesRead(k)'
           /\ NamesRead(k) => NamesRead(k)'
<1>1. Count' = Count /\ \A n, p : Lists(n, p)' <=> Lists(n, p)
  BY DEF Count, Lists
<1> QED BY <1>1 DEF EntriesRead, NamesRead

\* The library is opened, or cannot be.
LEMMA OpenKeeps == LoaderInv /\ OpenLibrary => LoaderInv'
<1> SUFFICES ASSUME LoaderInv, OpenLibrary PROVE LoaderInv'
  OBVIOUS
<1>1. /\ place = "library" /\ UNCHANGED <<descriptor, listed, position, indices, elsewhere>>
      /\ \/ place' = "failed" /\ opens' = opens
         \/ place' = "symbol" /\ opens' = opens + 1 /\ descriptor.broken # "library"
  BY DEF OpenLibrary
<1>2. "library" \in Before /\ "symbol" \in Before /\ "failed" \notin Before
      /\ Remaining("symbol") = Before \ {"library"}
  BY DEF Before, Remaining
<1>3. LoaderTypeOK'
  BY <1>1, <1>2, PlacesAre DEF LoaderInv, LoaderTypeOK
<1>4. CheckInv'
  BY <1>1, <1>2 DEF LoaderInv, CheckInv, Before
<1>5. EntryInv' /\ NameInv'
  BY <1>1 DEF EntryInv, NameInv
<1>6. ClosedOnce'
  BY <1>1 DEF LoaderInv, LoaderTypeOK, ClosedOnce
<1> QED BY <1>3, <1>4, <1>5, <1>6 DEF LoaderInv

\* A check that fails closes the library; one that does not is never at fault
\* later.
LEMMA CheckKeeps == LoaderInv /\ CheckDescriptor => LoaderInv'
<1> SUFFICES ASSUME LoaderInv, CheckDescriptor PROVE LoaderInv'
  OBVIOUS
<1>1. /\ place \in Remaining("symbol")
      /\ UNCHANGED <<descriptor, listed, position, indices, elsewhere>>
      /\ \/ place' = "failed" /\ opens' = opens - 1
         \/ place' = After(place) /\ opens' = opens /\ descriptor.broken # place
  BY MiddleChecks DEF CheckDescriptor, CloseAndFail
<1>2. /\ Remaining("symbol") = Before \ {"library"}
      /\ {"library", "entries", "failed", "names", "loaded", "destroyed"}
            \cap Remaining("symbol") = {}
      /\ Remaining("entries") = {} /\ "failed" \notin Before
  BY DEF Before, Remaining
<1>3. /\ Remaining(After(place)) = Remaining(place) \ {place}
      /\ After(place) \in Remaining("symbol") \cup {"entries"}
  BY <1>1, MiddleChecks
<1>4. LoaderTypeOK'
  BY <1>1, <1>2, <1>3, PlacesAre DEF LoaderInv, LoaderTypeOK
<1>5. /\ position = 1 /\ listed = {} /\ indices = {}
      /\ descriptor.broken \in Remaining(place) \cup {"nothing"}
  BY <1>1, <1>2 DEF LoaderInv, CheckInv
<1>6. CheckInv'
  BY <1>1, <1>2, <1>3, <1>5 DEF CheckInv
<1>7. Len(descriptor.entries) \in Nat
  BY DescriptorType DEF LoaderInv, LoaderTypeOK
<1>8. EntryInv' /\ NameInv'
  BY <1>1, <1>2, <1>3, <1>5, <1>7 DEF EntryInv, NameInv, EntriesRead
<1>9. ClosedOnce'
  BY <1>1, <1>2, <1>3 DEF LoaderInv, LoaderTypeOK, ClosedOnce
<1> QED BY <1>4, <1>6, <1>8, <1>9 DEF LoaderInv

\* An entry that is not valid closes the library.
LEMMA EntryKeeps == LoaderInv /\ ReadEntry => LoaderInv'
<1> SUFFICES ASSUME LoaderInv, ReadEntry PROVE LoaderInv'
  OBVIOUS
<1> DEFINE entry == descriptor.entries[position]
           valid == \/ entry.kind = "marker"
                    \/ /\ entry.kind = "property"
                       /\ entry.property < Count /\ entry.property \notin listed
<1>1. /\ place = "entries" /\ position <= Len(descriptor.entries)
      /\ position' = position + 1 /\ UNCHANGED <<descriptor, indices, elsewhere>>
      /\ listed' = IF valid /\ entry.kind = "property"
                   THEN listed \cup {entry.property} ELSE listed
      /\ IF valid THEN UNCHANGED <<place, opens>> ELSE place' = "failed" /\ opens' = opens - 1
  BY DEF ReadEntry, CloseAndFail
<1>2. /\ Len(descriptor.entries) \in 0..MaxEntries /\ Count \in 0..MaxProperties
      /\ descriptor.entries \in Seq(Entries)
  BY DescriptorType DEF LoaderInv, LoaderTypeOK, Count
<1>3. /\ position \in 1..Len(descriptor.entries)
      /\ EntriesRead(position - 1) /\ indices = {} /\ descriptor.broken = "nothing"
  BY <1>1, <1>2 DEF LoaderInv, EntryInv, CheckInv
<1>4. entry \in Entries /\ entry.property \in Nat
  BY <1>2, <1>3, EntryType
<1>5. "entries" \notin Before /\ "failed" \notin Before
  BY DEF Before, Remaining
<1>6. LoaderTypeOK'
  <2>1. listed' \subseteq 0..(MaxProperties - 1)
    <3>1. listed \subseteq 0..(MaxProperties - 1)
      BY DEF LoaderInv, LoaderTypeOK
    <3>2. valid /\ entry.kind = "property" => entry.property \in 0..(MaxProperties - 1)
      BY <1>2, <1>4, LoaderConstants
    <3> QED BY <1>1, <3>1, <3>2
  <2>2. position' \in 1..(MaxEntries + MaxProperties + 2)
    BY <1>1, <1>2, <1>3, LoaderConstants
  <2> QED BY <1>1, <2>1, <2>2, PlacesAre DEF LoaderInv, LoaderTypeOK
<1>7. CheckInv'
  BY <1>1, <1>3, <1>5 DEF CheckInv
<1>8. EntryInv' /\ NameInv'
  <2>1. CASE ~valid
    BY <1>1, <2>1 DEF EntryInv, NameInv
  <2>2. CASE valid
    <3>1. PICK k \in 1..Len(descriptor.entries) : k = position
      BY <1>3
    <3>2. /\ position' = k + 1 /\ place' = "entries" /\ indices' = {}
          /\ entry = descriptor.entries[k]
          /\ UNCHANGED descriptor
      BY <1>1, <1>3, <2>2, <3>1
    <3>3. \A n \in 1..k : n \in 1..(k - 1) \/ n = k
      BY <3>1
    <3>4. EntriesRead(k - 1)
      BY <1>3, <3>1
    <3>5. \A p : Lists(k, p) => p \in 0..(Count - 1) /\ p \notin listed
      BY <1>2, <1>4, <2>2, <3>2 DEF Lists
    <3>6. entry.kind # "marker" => Lists(k, entry.property)
      BY <2>2, <3>2 DEF Lists
    <3>7. \A n \in 1..k : \/ descriptor.entries[n].kind = "marker"
                          \/ \E p \in 0..(Count - 1) : Lists(n, p)
      BY <3>2, <3>3, <3>4, <3>5, <3>6 DEF EntriesRead
    <3>8. listed' = {p \in 0..(Count - 1) : \E n \in 1..k : Lists(n, p)}
      <4>1. \A p \in 0..(Count - 1) :
               (\E n \in 1..k : Lists(n, p)) <=> p \in listed \/ Lists(k, p)
        BY <3>1, <3>3, <3>4 DEF EntriesRead
      <4>2. \A p : p \in listed' <=> p \in listed \/ Lists(k, p)
        BY <1>1, <2>2, <3>2 DEF Lists
      <4>3. listed \subseteq 0..(Count - 1)
        BY <3>4 DEF EntriesRead
      <4> QED BY <3>5, <4>1, <4>2, <4>3
    <3>9. \A p \in 0..(Count - 1) : \A m, n \in 1..k : Lists(m, p) /\ Lists(n, p) => m = n
      <4>1. \A p \in 0..(Count - 1) : \A m \in 1..(k - 1) : Lists(m, p) => ~Lists(k, p)
        BY <3>4, <3>5 DEF EntriesRead
      <4> QED BY <3>3, <3>4, <4>1 DEF EntriesRead
    <3>10. EntriesRead(k)'
      <4>1. Count' = Count /\ \A n, p : Lists(n, p)' <=> Lists(n, p)
        BY <3>2 DEF Count, Lists
      <4> QED BY <3>2, <3>7, <3>8, <3>9, <4>1 DEF EntriesRead
    <3>11. position' - 1 = k /\ position' \in 1..(Len(descriptor.entries) + 1)
      BY <1>2, <3>1, <3>2
    <3> QED BY <3>2, <3>10, <3>11 DEF EntryInv, NameInv
  <2> QED BY <2>1, <2>2
<1>9. ClosedOnce'
  BY <1>1 DEF LoaderInv, LoaderTypeOK, ClosedOnce
<1> QED BY <1>6, <1>7, <1>8, <1>9 DEF LoaderInv

\* The layout lists every property, or the library is closed.
LEMMA ListedKeeps == LoaderInv /\ CheckListed => LoaderInv'
<1> SUFFICES ASSUME LoaderInv, CheckListed PROVE LoaderInv'
  OBVIOUS
<1>1. /\ place = "entries" /\ position > Len(descriptor.entries) /\ position' = 1
      /\ UNCHANGED <<descriptor, listed, indices, elsewhere>>
      /\ \/ listed = 0..(Count - 1) /\ place' = "names" /\ opens' = opens
         \/ place' = "failed" /\ opens' = opens - 1
  BY DEF CheckListed, CloseAndFail
<1>2. Len(descriptor.entries) \in Nat /\ Count \in Nat
  BY DescriptorType DEF LoaderInv, LoaderTypeOK, Count
<1>3. /\ position - 1 = Len(descriptor.entries) /\ EntriesRead(position - 1)
      /\ indices = {} /\ descriptor.broken = "nothing"
  BY <1>1, <1>2 DEF LoaderInv, EntryInv, CheckInv
<1>4. "names" \notin Before /\ "failed" \notin Before
  BY DEF Before, Remaining
<1>5. LoaderTypeOK'
  BY <1>1, <1>4, PlacesAre, LoaderConstants DEF LoaderInv, LoaderTypeOK
<1>6. CheckInv'
  BY <1>1, <1>3, <1>4 DEF CheckInv
<1>7. EntriesRead(Len(descriptor.entries))'
  <2>1. PICK k \in Nat : k = Len(descriptor.entries)
    BY <1>2
  <2>2. EntriesRead(k)'
    BY <1>1, <1>3, <2>1, ReadStays
  <2> QED BY <1>1, <2>1, <2>2
<1>8. EntryInv'
  BY <1>1, <1>7 DEF EntryInv, Count
<1>9. NameInv'
  BY <1>1, <1>2, <1>3 DEF NameInv, NamesRead, Count
<1>10. ClosedOnce'
  BY <1>1 DEF LoaderInv, LoaderTypeOK, ClosedOnce
<1> QED BY <1>5, <1>6, <1>8, <1>9, <1>10 DEF LoaderInv

\* The steps after the layout's leave the entries as they were read.
LEMMA LayoutStays ==
    ASSUME LoaderInv, place \in {"names", "loaded"},
           UNCHANGED <<descriptor, listed>>, place' \notin Before \cup {"entries"}
    PROVE  CheckInv' /\ EntryInv'
<1>1. CheckInv'
  BY DEF LoaderInv, CheckInv
<1>2. EntriesRead(Len(descriptor.entries))' /\ listed' = 0..(Count' - 1)
  BY DEF LoaderInv, EntryInv, EntriesRead, Lists, Count
<1> QED BY <1>1, <1>2 DEF EntryInv

\* A name gets its number; one that is there already closes the library twice.
LEMMA NameKeeps == LoaderInv /\ AddName => LoaderInv'
<1> SUFFICES ASSUME LoaderInv, AddName PROVE LoaderInv'
  OBVIOUS
<1>1. PICK k \in Int : k = position
  BY DEF LoaderInv, LoaderTypeOK
<1> DEFINE name == descriptor.names[k]
<1>2. /\ place = "names" /\ k <= Count /\ position' = k + 1
      /\ UNCHANGED <<descriptor, listed, elsewhere>>
      /\ \/ /\ \E pair \in indices : pair[1] = name
            /\ place' = "failed" /\ opens' = opens - 2 /\ indices' = indices
         \/ /\ ~\E pair \in indices : pair[1] = name
            /\ place' = "names" /\ opens' = opens
            /\ indices' = indices \cup {<<name, k - 1>>}
  BY <1>1 DEF AddName
<1>3. /\ Count \in 0..MaxProperties /\ descriptor.names \in Seq(Names)
      /\ DOMAIN descriptor.names = 1..Count
  BY DescriptorType DEF LoaderInv, LoaderTypeOK, Count
<1>4. k \in 1..Count /\ NamesRead(k - 1)
  BY <1>1, <1>2, <1>3 DEF LoaderInv, NameInv
<1>5. "names" \notin Before /\ "failed" \notin Before
  BY DEF Before, Remaining
<1>6. CheckInv' /\ EntryInv'
  BY <1>2, <1>5, LayoutStays
<1>7. LoaderTypeOK'
  <2>1. name \in Names /\ k - 1 \in 0..(MaxProperties - 1)
    BY <1>3, <1>4, LoaderConstants
  <2>2. position' \in 1..(MaxEntries + MaxProperties + 2)
    BY <1>2, <1>3, <1>4, LoaderConstants
  <2> QED BY <1>2, <2>1, <2>2, PlacesAre DEF LoaderInv, LoaderTypeOK
<1>8. \A n \in 1..k : n \in 1..(k - 1) \/ n = k
  BY <1>4
<1>9. NameInv'
  <2>1. CASE place' = "failed"
    BY <2>1 DEF NameInv
  <2>2. CASE place' = "names"
    <3>1. /\ \A pair \in indices : pair[1] # name
          /\ indices' = indices \cup {<<name, k - 1>>}
      BY <1>2, <2>2
    <3>2. indices' = {<<descriptor.names[n], n - 1>> : n \in 1..k}
      BY <1>4, <1>8, <3>1 DEF NamesRead
    <3>3. \A n \in 1..(k - 1) : descriptor.names[n] # name
      <4>1. \A n \in 1..(k - 1) : <<descriptor.names[n], n - 1>> \in indices
        BY <1>4 DEF NamesRead
      <4> QED BY <3>1, <4>1
    <3>4. \A m, n \in 1..k : descriptor.names[m] = descriptor.names[n] => m = n
      BY <1>4, <1>8, <3>3 DEF NamesRead
    <3>5. NamesRead(k)'
      BY <1>2, <3>2, <3>4 DEF NamesRead
    <3>6. position' - 1 = k /\ position' \in 1..(Count' + 1)
      BY <1>2, <1>3, <1>4 DEF Count
    <3> QED BY <2>2, <3>5, <3>6 DEF NameInv
  <2> QED BY <1>2, <2>1, <2>2
<1>10. ClosedOnce'
  <2>1. CASE place' = "names"
    BY <1>2, <2>1 DEF LoaderInv, LoaderTypeOK, ClosedOnce
  <2>2. CASE \E pair \in indices : pair[1] = name
    <3>1. PICK n \in 1..(k - 1) : descriptor.names[n] = name
      BY <1>4, <2>2 DEF NamesRead
    <3>2. n # k /\ n \in 1..Count
      BY <1>3, <1>4
    <3>3. ~IsInjective(descriptor.names)
      BY <1>3, <1>4, <3>1, <3>2 DEF IsInjective
    <3> QED BY <1>2, <3>3 DEF ClosedOnce
  <2> QED BY <1>2, <2>1, <2>2
<1> QED BY <1>6, <1>7, <1>9, <1>10 DEF LoaderInv

\* A module is returned and destroyed, which closes its library.
LEMMA ModuleKeeps == LoaderInv /\ (ModuleReturned \/ ModuleDestroyed) => LoaderInv'
<1> SUFFICES ASSUME LoaderInv, ModuleReturned \/ ModuleDestroyed PROVE LoaderInv'
  OBVIOUS
<1>1. /\ UNCHANGED <<descriptor, listed, position, indices, elsewhere>>
      /\ \/ /\ place = "names" /\ position > Count /\ place' = "loaded" /\ opens' = opens
         \/ /\ place = "loaded" /\ place' = "destroyed" /\ opens' = opens - 1
  BY DEF ModuleReturned, ModuleDestroyed
<1>2. {"loaded", "destroyed"} \cap (Before \cup {"entries"}) = {}
  BY DEF Before, Remaining
<1>3. CheckInv' /\ EntryInv'
  BY <1>1, <1>2, LayoutStays
<1>4. LoaderTypeOK'
  BY <1>1, PlacesAre DEF LoaderInv, LoaderTypeOK
<1>5. Count \in Nat
  BY DescriptorType DEF LoaderInv, LoaderTypeOK, Count
<1>6. NamesRead(Count)
  <2>1. CASE place = "loaded"
    BY <2>1 DEF LoaderInv, NameInv
  <2>2. CASE place = "names"
    <3>1. position - 1 = Count /\ NamesRead(position - 1)
      BY <1>1, <1>5, <2>2 DEF LoaderInv, NameInv
    <3> QED BY <3>1
  <2> QED BY <1>1, <2>1, <2>2
<1>7. NameInv'
  BY <1>1, <1>6 DEF NameInv, NamesRead, Count
<1>8. ClosedOnce'
  BY <1>1 DEF LoaderInv, LoaderTypeOK, ClosedOnce
<1> QED BY <1>3, <1>4, <1>7, <1>8 DEF LoaderInv

LEMMA LoaderInvHolds == LoaderSpec => []LoaderInv
<1>1. LoaderInv /\ UNCHANGED loaderVars => LoaderInv'
  <2> SUFFICES ASSUME LoaderInv, UNCHANGED loaderVars PROVE LoaderInv'
    OBVIOUS
  <2>1. UNCHANGED <<descriptor, place, listed, position, indices, elsewhere, opens>>
    BY DEF loaderVars
  <2>2. \A k : /\ EntriesRead(k) => EntriesRead(k)'
               /\ NamesRead(k) => NamesRead(k)'
    BY <2>1, ReadStays
  <2>3. LoaderTypeOK' /\ CheckInv' /\ ClosedOnce'
    BY <2>1 DEF LoaderInv, LoaderTypeOK, CheckInv, ClosedOnce
  <2>4. PICK k, l, m : k = position - 1 /\ l = Len(descriptor.entries) /\ m = Count
    OBVIOUS
  <2>5. EntryInv'
    BY <2>1, <2>2, <2>4 DEF LoaderInv, EntryInv, Count
  <2>6. NameInv'
    BY <2>1, <2>2, <2>4 DEF LoaderInv, NameInv, Count
  <2> QED BY <2>3, <2>5, <2>6 DEF LoaderInv
<1>2. LoaderInv /\ [LoaderNext]_loaderVars => LoaderInv'
  BY <1>1, OpenKeeps, CheckKeeps, EntryKeeps, ListedKeeps, NameKeeps, ModuleKeeps
     DEF LoaderNext
<1> QED BY <1>2, LoaderInitInv, PTL DEF LoaderSpec

\* The variables of load() keep their types.
THEOREM LoaderTypesTheorem == LoaderSpec => []LoaderTypeOK
<1>1. LoaderInv => LoaderTypeOK
  BY DEF LoaderInv
<1> QED BY <1>1, LoaderInvHolds, PTL

\* Whichever check of whichever descriptor fails, the library is closed as
\* often as it was opened, unless names are repeated.
THEOREM ClosedTheorem == LoaderSpec => []ClosedOnce
<1>1. LoaderInv => ClosedOnce
  BY DEF LoaderInv
<1> QED BY <1>1, LoaderInvHolds, PTL

-----------------------------------------------------------------------------
(* Loading: what a loaded module can be relied on for                      *)

\* In a module that was loaded every entry is a marker or lists a property,
\* every property is listed once, and every name is there once.
LEMMA LoadedFacts ==
    ASSUME LoaderInv, place = "loaded"
    PROVE  /\ descriptor.broken = "nothing" /\ Count \in Nat
           /\ DOMAIN descriptor.entries = 1..Len(descriptor.entries)
           /\ descriptor.entries \in Seq(Entries) /\ Len(descriptor.entries) \in Nat
           /\ EntriesRead(Len(descriptor.entries)) /\ listed = 0..(Count - 1)
           /\ NamesRead(Count) /\ DOMAIN descriptor.names = 1..Count
BY DescriptorType DEF LoaderInv, LoaderTypeOK, CheckInv, EntryInv, NameInv, Count

LEMMA ListingIs ==
    ASSUME LoaderInv, place = "loaded", NEW n \in DOMAIN descriptor.entries, NEW p \in Nat
    PROVE  n \in Listings(p) <=> Lists(n, p)
<1>1. descriptor.entries[n] \in Entries
  BY LoadedFacts
<1> QED BY <1>1, EntryType DEF Listings, Lists

\* A module that is loaded lists each property exactly once and nothing else,
\* and each name has its own number.
THEOREM ConsistentTheorem == LoaderSpec => []LoadedConsistent
<1>1. LoaderInv => LoadedConsistent
  <2> SUFFICES ASSUME LoaderInv, place = "loaded" PROVE LoadedConsistent
    BY DEF LoadedConsistent
  <2> DEFINE entries == descriptor.entries
  <2>1. ASSUME NEW p \in 0..(Count - 1) PROVE Cardinality(Listings(p)) = 1
    <3>1. PICK n \in 1..Len(entries) : Lists(n, p)
      BY LoadedFacts DEF EntriesRead
    <3>2. \A m \in 1..Len(entries) : Lists(m, p) => m = n
      BY <3>1, LoadedFacts DEF EntriesRead
    <3>3. Listings(p) = {n}
      <4>1. p \in Nat
        BY LoadedFacts
      <4>2. Listings(p) \subseteq DOMAIN entries
        BY DEF Listings
      <4> QED BY <3>1, <3>2, <4>1, <4>2, LoadedFacts, ListingIs
    <3> QED BY <3>3, FS_Singleton
  <2>2. ASSUME NEW n \in DOMAIN entries
        PROVE  /\ entries[n].kind # "invalid"
               /\ entries[n].kind = "property" => entries[n].property < Count
    <3>1. \/ entries[n].kind = "marker"
          \/ \E p \in 0..(Count - 1) : Lists(n, p)
      BY LoadedFacts DEF EntriesRead
    <3> QED BY <3>1, LoadedFacts DEF Lists
  <2>3. indices = {<<descriptor.names[n], n - 1>> : n \in 1..Count}
    BY LoadedFacts DEF NamesRead
  <2>4. ASSUME NEW i \in indices, NEW j \in indices, i[1] = j[1] PROVE i = j
    <3>1. PICK m \in 1..Count : i = <<descriptor.names[m], m - 1>>
      BY <2>3
    <3>2. PICK n \in 1..Count : j = <<descriptor.names[n], n - 1>>
      BY <2>3
    <3>3. m = n
      BY <2>4, <3>1, <3>2, LoadedFacts DEF NamesRead
    <3> QED BY <3>1, <3>2, <3>3
  <2> QED BY <2>1, <2>2, <2>3, <2>4, LoadedFacts DEF LoadedConsistent
<1> QED BY <1>1, LoaderInvHolds, PTL

\* Two descriptors that load() accepts and that have the same names look the
\* same in the Inspector exactly when has_same_exports() says so.
LEMMA SameExportsMeaning ==
    ASSUME NEW a \in Descriptors, WellFormed(a),
           NEW b \in Descriptors, WellFormed(b), a.names = b.names
    PROVE  SameExports(a, b) <=> Inspector(a) = Inspector(b)
<1>1. /\ DOMAIN a.entries = 1..Len(a.entries) /\ Len(a.entries) \in Nat
      /\ DOMAIN b.entries = 1..Len(b.entries) /\ Len(b.entries) \in Nat
      /\ a.entries \in Seq(Entries) /\ b.entries \in Seq(Entries)
      /\ DOMAIN a.names = 1..Len(a.names) /\ Len(a.names) \in Nat
  BY DescriptorType
<1> DEFINE Shows(d, n) ==
        IF d.entries[n].kind = "property"
        THEN [usage |-> "default", name |-> d.names[d.entries[n].property + 1]]
        ELSE [usage |-> "marker"]
<1>2. /\ Inspector(a) = [n \in 1..Len(a.entries) |-> Shows(a, n)]
      /\ Inspector(b) = [n \in 1..Len(b.entries) |-> Shows(b, n)]
  BY <1>1 DEF Inspector
<1>3. ASSUME SameExports(a, b) PROVE Inspector(a) = Inspector(b)
  <2>1. Len(a.entries) = Len(b.entries)
    BY <1>3 DEF SameExports
  <2>2. ASSUME NEW n \in 1..Len(a.entries) PROVE Shows(a, n) = Shows(b, n)
    BY <1>1, <1>3 DEF SameExports
  <2> QED BY <1>2, <2>1, <2>2
<1>4. ASSUME Inspector(a) = Inspector(b) PROVE SameExports(a, b)
  <2>1. 1..Len(a.entries) = 1..Len(b.entries)
    BY <1>2, <1>4
  <2>2. Len(a.entries) = Len(b.entries)
    BY <1>1, <2>1
  <2>3. ASSUME NEW n \in 1..Len(a.entries)
        PROVE  /\ a.entries[n].kind = b.entries[n].kind
               /\ a.entries[n].kind = "property" =>
                     a.entries[n].property = b.entries[n].property
    <3>1. Shows(a, n) = Shows(b, n)
      BY <1>2, <1>4, <2>1
    <3>2. /\ a.entries[n] \in Entries /\ b.entries[n] \in Entries
          /\ a.entries[n].kind # "invalid" /\ b.entries[n].kind # "invalid"
      BY <1>1, <2>1 DEF WellFormed
    <3>3. a.entries[n].kind \in {"property", "marker"} /\ b.entries[n].kind \in {"property", "marker"}
      BY <3>2 DEF Entries
    <3>4. Shows(a, n).usage = (IF a.entries[n].kind = "property" THEN "default" ELSE "marker")
      OBVIOUS
    <3>5. Shows(b, n).usage = (IF b.entries[n].kind = "property" THEN "default" ELSE "marker")
      OBVIOUS
    <3>6. a.entries[n].kind = b.entries[n].kind
      BY <3>1, <3>3, <3>4, <3>5
    <3>7. ASSUME a.entries[n].kind = "property"
          PROVE  a.entries[n].property = b.entries[n].property
      <4>1. /\ Shows(a, n).name = a.names[a.entries[n].property + 1]
            /\ Shows(b, n).name = a.names[b.entries[n].property + 1]
        BY <3>6, <3>7
      <4>2. /\ a.entries[n].property \in Nat /\ a.entries[n].property < Len(a.names)
            /\ b.entries[n].property \in Nat /\ b.entries[n].property < Len(a.names)
        BY <1>1, <2>1, <3>2, <3>6, <3>7, EntryType DEF WellFormed
      <4>3. /\ a.entries[n].property + 1 \in DOMAIN a.names
            /\ b.entries[n].property + 1 \in DOMAIN a.names
        <5>1. \A k, l \in Nat : k < l => k + 1 \in 1..l
          OBVIOUS
        <5> QED BY <1>1, <4>2, <5>1
      <4>4. a.entries[n].property + 1 = b.entries[n].property + 1
        BY <3>1, <4>1, <4>3 DEF WellFormed, IsInjective
      <4> QED BY <4>2, <4>4
    <3> QED BY <3>6, <3>7
  <2> QED BY <1>1, <2>2, <2>3 DEF SameExports
<1> QED BY <1>3, <1>4

\* What load() has accepted is well formed.
LEMMA LoadedWellFormed == LoaderInv /\ place = "loaded" => WellFormed(descriptor)
<1> SUFFICES ASSUME LoaderInv, place = "loaded" PROVE WellFormed(descriptor)
  OBVIOUS
<1>1. IsInjective(descriptor.names)
  BY LoadedFacts DEF NamesRead, IsInjective
<1>2. ASSUME NEW n \in DOMAIN descriptor.entries
      PROVE  /\ descriptor.entries[n].kind # "invalid"
             /\ descriptor.entries[n].kind = "property" =>
                   descriptor.entries[n].property < Len(descriptor.names)
  <2>1. \/ descriptor.entries[n].kind = "marker"
        \/ \E p \in 0..(Count - 1) : Lists(n, p)
    BY LoadedFacts DEF EntriesRead
  <2> QED BY <2>1, LoadedFacts DEF Lists, Count
<1> QED BY <1>1, <1>2 DEF WellFormed

\* Whichever module was published before a loaded one, views of the exports
\* are left alone exactly when there is no difference to see.
THEOREM UnseenTheorem == LoaderSpec => []SameExportsUnseen
<1>1. LoaderInv => SameExportsUnseen
  <2> SUFFICES ASSUME LoaderInv, place = "loaded", NEW d \in Descriptors, WellFormed(d)
               PROVE  SameExports(descriptor, d) <=>
                         descriptor.names = d.names /\ Inspector(descriptor) = Inspector(d)
    BY DEF SameExportsUnseen
  <2>1. descriptor \in Descriptors /\ WellFormed(descriptor)
    BY LoadedWellFormed DEF LoaderInv, LoaderTypeOK
  <2>2. SameExports(descriptor, d) => descriptor.names = d.names
    BY DEF SameExports
  <2> QED BY <2>1, <2>2, SameExportsMeaning
<1> QED BY <1>1, LoaderInvHolds, PTL

-----------------------------------------------------------------------------
(* The three parts of a script                                             *)

\* A behaviour that script_instances checks is one of the script whose exports
\* are shown, one of an instance's exported state, and one of the loader,
\* fairness included: every theorem about them holds of it.
THEOREM PartsTheorem == PartsSpec => ExportsSpec /\ StateSpec /\ LoaderSpec
<1>1. PartsInit => ExportsInit /\ StateInit /\ LoaderInit
  BY DEF PartsInit, ExportsParked, StateParked, LoadParked
<1>2. [PartsNext]_partVars =>
         [ExportsNext]_exportVars /\ [StateNext]_stateVars /\ [LoaderNext]_loaderVars
  BY DEF PartsNext, partVars
<1> QED BY <1>1, <1>2, PTL DEF PartsSpec, ExportsSpec, StateSpec, LoaderSpec

\* The variables of all parts keep their types.
THEOREM AllTypesTheorem == PartsSpec => []TypesOK
BY PartsTheorem, ExportsTypesTheorem, StateTypesTheorem, LoaderTypesTheorem, PTL DEF TypesOK
=============================================================================
