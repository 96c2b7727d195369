--------------------------- MODULE MCGzLspClient ---------------------------
(* The language server client in two parts that share no state: how it     *)
(* cuts the server's bytes into messages (GzLspFraming), and what it does  *)
(* with them (GzLspClient).  A behaviour is one of one part.               *)
EXTENDS GzLspClient, GzLspFraming

CONSTANTS d1, d2, t1, t2

VARIABLE part

ClientInit == part \in {"client", "framing"} /\ Init /\ FramingInit

ClientNext ==
    \/ part = "client" /\ Next /\ UNCHANGED <<part, framingVars>>
    \/ part = "framing" /\ FramingNext /\ UNCHANGED <<part, vars>>

ClientSpec ==
    ClientInit /\ [][ClientNext]_<<part, vars, framingVars>> /\ Fairness

\* The variables of the two parts have their types.
TypesOK == TypeOK /\ FramingTypeOK
=============================================================================
