---------------------------- MODULE ContentCache ----------------------------
(***************************************************************************)
(* What the module cache promises: "content-addressed native modules".  An *)
(* entry is absent or holds what was built from exactly the inputs it is   *)
(* filed under; it may be lost at any time, and it never turns into        *)
(* anything else.                                                          *)
(***************************************************************************)
CONSTANTS Inputs, Absent

VARIABLE entry      \* [Inputs -> Inputs \cup {Absent}]

Init == entry = [k \in Inputs |-> Absent]

Fill(k) ==
    /\ entry[k] = Absent
    /\ entry' = [entry EXCEPT ![k] = k]

\* damage to the files and power failures may strike several entries at once
Lose(K) ==
    entry' = [k \in Inputs |-> IF k \in K THEN Absent ELSE entry[k]]

Next == (\E k \in Inputs : Fill(k)) \/ (\E K \in SUBSET Inputs : Lose(K))

Spec == Init /\ [][Next]_entry
=============================================================================
