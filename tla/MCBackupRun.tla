---------------------------- MODULE MCBackupRun ----------------------------
(* BackupRun on small instances.                                           *)
EXTENDS BackupRun, TLC
CONSTANTS d1, d2, g1, n1, n2
Symmetric == Permutations({d1, d2}) \union Permutations({n1, n2})
=============================================================================
