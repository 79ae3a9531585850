---------------------------- MODULE MCDialogGate ----------------------------
(* A finite instance of DialogGate: row 2 forges a presentation of the first *)
(* message (row 1), rows 3 and 4 are a chain of answers to it.               *)
EXTENDS DialogGate, TLC

CONSTANTS k1, k2, k3, al, bo, l1, l2

MCKeyOf == [r \in Row |-> CASE r \in {1, 2} -> k1 [] r = 3 -> k2 [] r = 4 -> k3]
MCAuthorOf == [r \in Row |-> IF r \in {1, 2} THEN al ELSE bo]
MCRefs == [r \in Row |-> CASE r = 3 -> {k1} [] r = 4 -> {k2} [] OTHER -> {}]
=============================================================================
