--------------------------- MODULE MCGzModuleCache ---------------------------
(* What a file goes through, in four parts that share no state: a script   *)
(* is saved (GzSave), its text is scanned for imports (GzImportScanner),   *)
(* they are followed (GzDependencyWalk), and a module is compiled and      *)
(* cached under the key that results (GzModuleCache).  A behaviour is one  *)
(* of one part.                                                            *)
EXTENDS GzModuleCache, GzImportScanner, GzDependencyWalk, GzSave, TLC

CONSTANTS p1, p2, i1, i2, i3, f1, f2, f3, v1, v2

VARIABLE part

\* the processes that compile are interchangeable
ProcSymmetry == Permutations({p1, p2})

FilesInit ==
    /\ part \in {"cache", "scan", "walk", "save"}
    /\ Init /\ ScannerInit /\ SaveInit
    /\ WalkInit
    /\ part # "walk" => references = [f \in ZigFiles |-> {}]

FilesNext ==
    \/ /\ part = "cache" /\ Next
       /\ UNCHANGED <<part, scannerVars, walkVars, saveVars>>
    \/ /\ part = "scan" /\ ScannerNext
       /\ UNCHANGED <<part, vars, walkVars, saveVars>>
    \/ /\ part = "walk" /\ WalkNext
       /\ UNCHANGED <<part, vars, scannerVars, saveVars>>
    \/ /\ part = "save" /\ SaveNext
       /\ UNCHANGED <<part, vars, scannerVars, walkVars>>
    \* a walk that has ended is no deadlock
    \/ /\ part = "walk" /\ outcome # "walking"
       /\ UNCHANGED <<part, vars, scannerVars, walkVars, saveVars>>

FilesSpec == FilesInit /\ [][FilesNext]_<<part, vars, scannerVars, walkVars, saveVars>>

\* The variables of the four parts have their types.
TypesOK == TypeOK /\ ScannerTypeOK /\ WalkTypeOK /\ SaveTypeOK
=============================================================================
