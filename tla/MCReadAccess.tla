---------------------------- MODULE MCReadAccess ----------------------------
(* ReadAccess on small instances.                                          *)
EXTENDS ReadAccess, TLC
CONSTANTS s1, s2, a, b, alice
MCShapeOf == [s \in Stream |-> IF s = s1 THEN a ELSE b]
\* A known account that waits for approval, and an unknown one approved for one shape.
MCStarting == {[granted |-> {}, known |-> {alice}], [granted |-> {<<alice, a>>}, known |-> {}]}
=============================================================================
