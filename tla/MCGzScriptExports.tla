-------------------------- MODULE MCGzScriptExports --------------------------
(* A script in three parts that share no state: a module's library is      *)
(* loaded and checked (GzCompiledModule), modules are published while      *)
(* instances run and the editor shows their exports (GzScriptExports), and *)
(* the exported values of one instance (GzExportedState).  A behaviour is  *)
(* one of one part.                                                        *)
EXTENDS GzScriptExports, GzExportedState, GzCompiledModule

VARIABLE part

partVars == <<part, exportVars, stateVars, loaderVars>>

\* the initial state of a part that takes no steps
LoadParked ==
    /\ LoaderInit
    /\ descriptor = [broken |-> "library", names |-> <<>>, entries |-> <<>>]
    /\ elsewhere = 0
ExportsParked ==
    /\ ExportsInit
    /\ inEditor /\ \A m \in 1..MaxModules : exports[m] = exports[1]
    /\ exports[1] = CHOOSE s \in Schemas : TRUE
StateParked == StateInit /\ \A p \in Properties : layout[p].type = "none"

PartsInit ==
    \/ part = "load" /\ ExportsParked /\ StateParked /\ LoaderInit
    \/ part = "script" /\ LoadParked /\ StateParked /\ ExportsInit
    \/ part = "state" /\ LoadParked /\ ExportsParked /\ StateInit

PartsNext ==
    \/ part = "load" /\ LoaderNext /\ UNCHANGED <<part, exportVars, stateVars>>
    \/ part = "script" /\ ExportsNext /\ UNCHANGED <<part, stateVars, loaderVars>>
    \/ part = "state" /\ StateNext /\ UNCHANGED <<part, exportVars, loaderVars>>

PartsSpec == PartsInit /\ [][PartsNext]_partVars /\ Fairness

\* The variables of the three parts have their types.
TypesOK == TypeOK /\ ExportsTypeOK /\ StateTypeOK /\ LoaderTypeOK
=============================================================================
