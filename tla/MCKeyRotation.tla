---------------------------- MODULE MCKeyRotation ----------------------------
(* Small instances of KeyRotation.  Columns are interchangeable.            *)
EXTENDS KeyRotation, TLC

ColumnSymmetry == Permutations(Columns)
=============================================================================
