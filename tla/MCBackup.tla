------------------------------ MODULE MCBackup ------------------------------
(* Backup with crond and one operator, who may change places.              *)
EXTENDS Backup, TLC

Symmetry == Permutations(Runners)
==============================================================================
