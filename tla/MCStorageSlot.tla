--------------------------- MODULE MCStorageSlot ---------------------------
(* Finite instances of StorageSlot.                                         *)
EXTENDS StorageSlot, TLC

CONSTANTS a, b, p1, p2, x

Symmetric == Permutations(Edit) \union Permutations(Pass) \union Permutations(Foreign)
=============================================================================
