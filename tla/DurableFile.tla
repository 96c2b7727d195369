----------------------------- MODULE DurableFile -----------------------------
(***************************************************************************)
(* What saving a script promises of the file at its path: readers see one  *)
(* whole text after another, and what a power failure can bring back is    *)
(* the text of the last acknowledged save or of one that came after it.    *)
(***************************************************************************)
EXTENDS Naturals

CONSTANT Texts

VARIABLES
    content,    \* the text that readers of the path see
    survivors,  \* the texts that a power failure can leave at the path
    saves       \* how many saves were acknowledged

fileVars == <<content, survivors, saves>>

Init == content \in Texts /\ survivors = {content} /\ saves = 0

Replace(t) ==
    /\ content' = t
    /\ survivors' = survivors \cup {t}
    /\ UNCHANGED saves

\* the path may have been replaced again since
Acknowledge ==
    /\ survivors' = {content}
    /\ saves' = saves + 1
    /\ UNCHANGED content

PowerFailure ==
    /\ content' \in survivors
    /\ survivors' = {content'}
    /\ UNCHANGED saves

Next == (\E t \in Texts : Replace(t)) \/ Acknowledge \/ PowerFailure

Spec == Init /\ [][Next]_fileVars
=============================================================================
