------------------------- MODULE MCGzDiagnosticStore -------------------------
(* Small instances of GzDiagnosticStore. *)
EXTENDS GzDiagnosticStore, TLC

CONSTANTS d1, d2, zls, zig, e1, p1, p2

\* documents and producers are interchangeable
StoreSymmetry ==
    Permutations({d1, d2}) \cup Permutations({p1, p2})
=============================================================================
