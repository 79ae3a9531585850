------------------------------ MODULE MCOutbox ------------------------------
(* A finite instance of Outbox: e2 needs e1, both of one shape.             *)
EXTENDS Outbox, TLC

CONSTANTS t1, t2, e1, e2, dialog

MCShapeOf == [e \in Entry |-> dialog]
MCPrerequisites == [e \in Entry |-> IF e = e2 THEN {e1} \intersect Entry ELSE {}]
SymmetricTabs == Permutations(Tab)
=============================================================================
