-------------------------- MODULE GzCompiledModule --------------------------
(***************************************************************************)
(* GzCompiledModule::load(): opens a compiled module's library, checks its *)
(* descriptor check by check, reads the Inspector's layout and the names   *)
(* of the properties, and gives the library to a GzCompiledModule, whose   *)
(* destructor closes it.  dlopen() counts: a library that a second module  *)
(* was loaded from stays open until each open has been closed.             *)
(***************************************************************************)
EXTENDS Integers, Sequences, FiniteSets, Functions

CONSTANTS
    Names,          \* property names
    MaxProperties,  \* bound on property_count
    MaxEntries      \* bound on inspector_entry_count

ASSUME LoaderConstants ==
    /\ IsFiniteSet(Names)
    /\ MaxProperties \in Nat /\ MaxEntries \in Nat

\* what is checked before the layout, in this order, each with an early return
Checks == <<"library", "symbol", "init", "abi", "incomplete", "metadata">>

\* an entry lists a property by its number or is a marker: a category, group
\* or subgroup, whose number means nothing
Entries == [kind : {"property"}, property : 0..MaxProperties]
    \cup [kind : {"marker"}, property : 0..1]
    \cup [kind : {"invalid"}, property : {0}]

UpTo(n, S) == UNION {[1..m -> S] : m \in 0..n}

Descriptors ==
    [broken  : {"nothing"} \cup {Checks[n] : n \in DOMAIN Checks},
     names   : UpTo(MaxProperties, Names),
     entries : UpTo(MaxEntries, Entries)]

VARIABLES
    descriptor, \* what gzscript_script_init() returns, and what is wrong with it
    place,      \* a check of load(), or how it ended
    listed,     \* listed_properties
    position,   \* the loop over entries, and then the one over properties
    indices,    \* property_indices
    elsewhere,  \* opens of the same library by other modules
    opens       \* opens of the library, all together

loaderVars == <<descriptor, place, listed, position, indices, elsewhere, opens>>

Places == {Checks[n] : n \in DOMAIN Checks}
              \cup {"entries", "names", "loaded", "failed", "destroyed"}

LoaderInit ==
    /\ descriptor \in Descriptors
    /\ elsewhere \in 0..1
    /\ opens = elsewhere
    /\ place = "library"
    /\ listed = {}
    /\ position = 1
    /\ indices = {}

-----------------------------------------------------------------------------

Count == Len(descriptor.names)

\* close_library() and return without a module
CloseAndFail ==
    /\ opens' = opens - 1
    /\ place' = "failed"

OpenLibrary ==
    /\ place = "library"
    /\ IF descriptor.broken = "library"
       THEN place' = "failed" /\ UNCHANGED opens
       ELSE place' = "symbol" /\ opens' = opens + 1
    /\ UNCHANGED <<descriptor, listed, position, indices, elsewhere>>

After(check) ==
    LET n == CHOOSE m \in DOMAIN Checks : Checks[m] = check
    IN  IF n = Len(Checks) THEN "entries" ELSE Checks[n + 1]

\* mutant: the library stays open after a failed check
CheckLeaks ==
    /\ place \in {Checks[n] : n \in 2..Len(Checks)}
    /\ place' = IF descriptor.broken = place THEN "failed" ELSE After(place)
    /\ UNCHANGED <<descriptor, listed, position, indices, elsewhere, opens>>

\* the symbol, init(), the ABI's version and size, the functions and arrays,
\* and validate_descriptor()
CheckDescriptor ==
    /\ place \in {Checks[n] : n \in 2..Len(Checks)}
    /\ IF descriptor.broken = place
       THEN CloseAndFail
       ELSE place' = After(place) /\ UNCHANGED opens
    /\ UNCHANGED <<descriptor, listed, position, indices, elsewhere>>

\* mutant: an entry may list a property again
ReadEntryTwice ==
    /\ place = "entries" /\ position <= Len(descriptor.entries)
    /\ LET entry == descriptor.entries[position]
           valid == \/ entry.kind = "marker"
                    \/ entry.kind = "property" /\ entry.property < Count
       IN  /\ IF valid THEN UNCHANGED <<place, opens>> ELSE CloseAndFail
           /\ listed' = IF valid /\ entry.kind = "property"
                        THEN listed \cup {entry.property} ELSE listed
    /\ position' = position + 1
    /\ UNCHANGED <<descriptor, indices, elsewhere>>

\* an entry is a marker or lists a property for the first time
ReadEntry ==
    /\ place = "entries" /\ position <= Len(descriptor.entries)
    /\ LET entry == descriptor.entries[position]
           valid == \/ entry.kind = "marker"
                    \/ /\ entry.kind = "property"
                       /\ entry.property < Count /\ entry.property \notin listed
       IN  /\ IF valid THEN UNCHANGED <<place, opens>> ELSE CloseAndFail
           /\ listed' = IF valid /\ entry.kind = "property"
                        THEN listed \cup {entry.property} ELSE listed
    /\ position' = position + 1
    /\ UNCHANGED <<descriptor, indices, elsewhere>>

\* the layout must not omit a property; then the library has an owner
CheckListed ==
    /\ place = "entries" /\ position > Len(descriptor.entries)
    /\ IF listed = 0..(Count - 1)
       THEN place' = "names" /\ UNCHANGED opens
       ELSE CloseAndFail
    /\ position' = 1
    /\ UNCHANGED <<descriptor, listed, indices, elsewhere>>

\* a name that is there already is an error: the library is closed, and then
\* the owner's destructor closes it again
AddName ==
    /\ place = "names" /\ position <= Count
    /\ LET name == descriptor.names[position]
       IN  IF \E pair \in indices : pair[1] = name
           THEN /\ place' = "failed" /\ opens' = opens - 2
                /\ UNCHANGED indices
           ELSE /\ indices' = indices \cup {<<name, position - 1>>}
                /\ UNCHANGED <<place, opens>>
    /\ position' = position + 1
    /\ UNCHANGED <<descriptor, listed, elsewhere>>

\* the Inspector's properties are built and the module is returned
ModuleReturned ==
    /\ place = "names" /\ position > Count
    /\ place' = "loaded"
    /\ UNCHANGED <<descriptor, listed, position, indices, elsewhere, opens>>

\* ~GzCompiledModule(), when the last shared_ptr is gone
ModuleDestroyed ==
    /\ place = "loaded"
    /\ place' = "destroyed"
    /\ opens' = opens - 1
    /\ UNCHANGED <<descriptor, listed, position, indices, elsewhere>>

\* mutant: the numbers of the listed properties are not compared
SameExportsAnyIndex(a, b) ==
    /\ a.names = b.names
    /\ Len(a.entries) = Len(b.entries)
    /\ \A n \in DOMAIN a.entries : a.entries[n].kind = b.entries[n].kind

\* has_same_exports() of two descriptors
SameExports(a, b) ==
    /\ a.names = b.names
    /\ Len(a.entries) = Len(b.entries)
    /\ \A n \in DOMAIN a.entries :
          /\ a.entries[n].kind = b.entries[n].kind
          /\ a.entries[n].kind = "property" =>
                a.entries[n].property = b.entries[n].property

\* get_script_property_list(): what the editor is given of a loaded module;
\* the usage tells a property from a marker, whatever their names
Inspector(d) == [n \in DOMAIN d.entries |->
    LET entry == d.entries[n]
    IN  IF entry.kind = "property"
        THEN [usage |-> "default", name |-> d.names[entry.property + 1]]
        ELSE [usage |-> "marker"]]

LoaderNext ==
    \/ OpenLibrary \/ CheckDescriptor \/ ReadEntry \/ CheckListed
    \/ AddName \/ ModuleReturned \/ ModuleDestroyed

LoaderSpec == LoaderInit /\ [][LoaderNext]_loaderVars

-----------------------------------------------------------------------------
(* Properties                                                              *)

\* The variables have their types.
LoaderTypeOK ==
    /\ descriptor \in Descriptors
    /\ place \in Places
    /\ listed \subseteq 0..(MaxProperties - 1)
    /\ position \in 1..(MaxEntries + MaxProperties + 2)
    /\ indices \subseteq Names \X (0..(MaxProperties - 1))
    /\ elsewhere \in 0..1
    /\ opens \in Int

\* "dlclose()/FreeLibrary() runs exactly once": whichever check fails, load()
\* leaves as many opens as it found; a module that was loaded holds one more,
\* until it is destroyed.  Repeated names are excepted, which no struct of Zig
\* fields has: the library is then closed twice, under the feet of another
\* module of the same file.
ClosedOnce ==
    IsInjective(descriptor.names) =>
        opens = elsewhere + (IF place \in {"library", "failed", "destroyed"} THEN 0 ELSE 1)

Listings(p) == {n \in DOMAIN descriptor.entries :
    descriptor.entries[n] = [kind |-> "property", property |-> p]}

\* Every place that indexes a descriptor by a property's number relies on it:
\* in a loaded module the Inspector lists each property exactly once and
\* nothing else, and find_property() gives each name its own number.
LoadedConsistent ==
    place = "loaded" =>
        /\ descriptor.broken = "nothing"
        /\ \A p \in 0..(Count - 1) : Cardinality(Listings(p)) = 1
        /\ \A n \in DOMAIN descriptor.entries :
              LET entry == descriptor.entries[n]
              IN  entry.kind # "invalid"
                     /\ (entry.kind = "property" => entry.property < Count)
        /\ indices = {<<descriptor.names[n], n - 1>> : n \in 1..Count}
        /\ \A i, j \in indices : i[1] = j[1] => i = j

\* a descriptor that load() can have accepted before
WellFormed(d) ==
    /\ IsInjective(d.names)
    /\ \A n \in DOMAIN d.entries :
          /\ d.entries[n].kind # "invalid"
          /\ d.entries[n].kind = "property" => d.entries[n].property < Len(d.names)

\* publish_module() leaves placeholders and inspectors alone when the exports
\* are the same; nobody can see the difference then, and an update is not
\* made when there is nothing to see.
SameExportsUnseen ==
    place = "loaded" => \A d \in Descriptors :
        WellFormed(d) => (SameExports(descriptor, d) <=>
            descriptor.names = d.names /\ Inspector(descriptor) = Inspector(d))

=============================================================================
