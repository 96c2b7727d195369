-------------------------- MODULE MCGzBuildManager --------------------------
(* Small instances of GzBuildManager. *)
EXTENDS GzBuildManager, TLC

CONSTANTS a, b, s1, s2, i1, i2

\* scripts are interchangeable
ScriptSymmetry == Permutations({s1, s2})

SafetySpec == Init /\ [][Next]_vars
=============================================================================
