------------------------- MODULE MCGzDiagnosticPath -------------------------
(* Diagnostics in two parts that share no state: the keys of documents     *)
(* (GzDiagnosticPath), and the store that is indexed by them               *)
(* (GzDiagnosticStore).  A behaviour is one of one part.                   *)
EXTENDS MCGzDiagnosticStore, GzDiagnosticPath

VARIABLE part

DiagnosticsInit ==
    \/ part = "store" /\ Init /\ path = <<"a">>
    \/ part = "path" /\ Init /\ PathInit

DiagnosticsNext ==
    \/ part = "store" /\ Next /\ UNCHANGED <<part, path>>
    \/ part = "path" /\ PathNext /\ UNCHANGED <<part, vars>>

DiagnosticsSpec == DiagnosticsInit /\ [][DiagnosticsNext]_<<part, vars, path>>
=============================================================================
