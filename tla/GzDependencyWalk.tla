-------------------------- MODULE GzDependencyWalk --------------------------
(***************************************************************************)
(* append_dependencies() of gz_build_manager.cpp: from the script's source *)
(* it follows @import and @embedFile to the files whose hashes go into the *)
(* cache key.  Imports can form cycles, and one file can be embedded here  *)
(* and imported there.  If anything cannot be read, prepare() fingerprints *)
(* the script's whole directory instead.                                   *)
(***************************************************************************)
EXTENDS FiniteSets, Naturals, Sequences, Functions

CONSTANTS
    Files,          \* the files a text can name
    ZigFiles,       \* those with the extension zig
    Root,           \* the script's source
    MaxReferences   \* bound on the references of one file

ASSUME WalkConstants ==
    /\ IsFiniteSet(Files) /\ ZigFiles \subseteq Files
    /\ Root \in ZigFiles /\ MaxReferences \in Nat

\* @embedFile, @import of a path with a slash, and @import of a bare name.  A
\* name without a file (the module "std") is no reference: nothing is read.
References == [file : Files, kind : {"embed", "path", "name"}]

\* SourceDependency: a file and whether it is imported or embedded
Nodes == [file : Files, import : BOOLEAN]
Node(r) == [file |-> r.file, import |-> r.kind # "embed"]
Start == [file |-> Root, import |-> TRUE]

VARIABLES
    references,     \* what source_dependencies() finds in a Zig text
    pending,        \* the files still to look at, a stack
    visited,        \* nodes that were looked at
    hashed,         \* files whose hash is in the fingerprint
    outcome         \* "walking", "exact" or "tree"

walkVars == <<references, pending, visited, hashed, outcome>>

WalkInit ==
    /\ references \in
          [ZigFiles -> {S \in SUBSET References : Cardinality(S) <= MaxReferences}]
    /\ pending = <<Start>>
    /\ visited = {}
    /\ hashed = {}
    /\ outcome = "walking"

-----------------------------------------------------------------------------

Top == pending[Len(pending)]
Rest == SubSeq(pending, 1, Len(pending) - 1)

\* the source itself is in the key as the text of the resource
Hash(n) == IF visited = {} THEN hashed ELSE hashed \cup {n.file}

\* an import by a bare name is taken for a module unless it ends in ".zig"
Skipped(r) == r.kind = "name" /\ r.file \notin ZigFiles

\* what is pushed for a file; one that is not Zig (imported, a ZON file) has no
\* calls that the scanner could find
Followed(f) ==
    IF f \in ZigFiles THEN {Node(r) : r \in {q \in references[f] : ~Skipped(q)}} ELSE {}

\* they are pushed in the order of the text, which is any order
Readings(S) == Bijection(1..Cardinality(S), S)

\* popped before as the same kind of dependency
SkipVisited ==
    /\ outcome = "walking" /\ pending # <<>>
    /\ Top \in visited
    /\ pending' = Rest
    /\ UNCHANGED <<references, visited, hashed, outcome>>

\* an embedded file is data: nothing in it is followed
VisitEmbedded ==
    /\ outcome = "walking" /\ pending # <<>>
    /\ Top \notin visited /\ ~Top.import
    /\ visited' = visited \cup {Top}
    /\ hashed' = Hash(Top)
    /\ pending' = Rest
    /\ UNCHANGED <<references, outcome>>

\* mutant: a file that was embedded counts as visited when it is imported
VisitImportedOnce ==
    /\ outcome = "walking" /\ pending # <<>>
    /\ Top \notin visited /\ Top.import
    /\ visited' = visited \cup {Top}
    /\ hashed' = Hash(Top)
    /\ \E order \in Readings(Followed(Top.file)) :
          pending' = IF \E n \in visited : n.file = Top.file
                     THEN Rest ELSE Rest \o order
    /\ UNCHANGED <<references, outcome>>

\* an imported file is scanned for its own dependencies
VisitImported ==
    /\ outcome = "walking" /\ pending # <<>>
    /\ Top \notin visited /\ Top.import
    /\ visited' = visited \cup {Top}
    /\ hashed' = Hash(Top)
    /\ \E order \in Readings(Followed(Top.file)) : pending' = Rest \o order
    /\ UNCHANGED <<references, outcome>>

\* the hash or the scan of a file fails: the fingerprint so far is dropped
WalkFails ==
    /\ outcome = "walking" /\ pending # <<>>
    /\ Top \notin visited
    /\ outcome' = "tree"
    /\ pending' = <<>> /\ visited' = {} /\ hashed' = {}
    /\ UNCHANGED references

\* nothing is left to look at
WalkEnds ==
    /\ outcome = "walking" /\ pending = <<>>
    /\ outcome' = "exact"
    /\ UNCHANGED <<references, pending, visited, hashed>>

WalkNext == SkipVisited \/ VisitEmbedded \/ VisitImported \/ WalkFails \/ WalkEnds

WalkSpec == WalkInit /\ [][WalkNext]_walkVars

-----------------------------------------------------------------------------
(* Properties                                                              *)

\* The variables have their types.
WalkTypeOK ==
    /\ references \in [ZigFiles -> SUBSET References]
    /\ pending \in Seq(Nodes)
    /\ visited \subseteq Nodes
    /\ hashed \subseteq Files
    /\ outcome \in {"walking", "exact", "tree"}

\* a set of nodes that holds the source and whatever its imports refer to, but
\* for bare names of files that are not Zig
Closed(S) ==
    /\ Start \in S
    /\ \A n \in S : n.import /\ n.file \in ZigFiles =>
          \A r \in references[n.file] :
              r.kind # "name" \/ r.file \in ZigFiles => Node(r) \in S

\* By whatever mixture and cycle of imports and embedded files one is reached
\* from the source, its hash is in the key, and no other file's is.  Excepted
\* is a file that the compiler reads all the same: one that is not Zig and that
\* is only imported by its bare name (@import("x.zon") of a sibling).
KeyCoversReachable ==
    /\ \A S \in SUBSET Nodes : Closed(S) => visited \subseteq S
    /\ outcome = "exact" =>
          /\ Closed(visited)
          /\ {n.file : n \in visited} \ {Root} \subseteq hashed

=============================================================================
