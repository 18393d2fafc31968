---------------------------- MODULE MCKeyRotation ----------------------------
(* Small instances of KeyRotation for TLC.                                  *)
EXTENDS KeyRotation, TLC

Symmetric == Permutations(Keys) \cup Permutations(Instances)

=============================================================================
