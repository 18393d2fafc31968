---------------------------- MODULE MCProofReplay ----------------------------
(* Small instances of ProofReplay for TLC.                                  *)
EXTENDS ProofReplay

\* One client, whose requests reach one of two instances.
MCOwner == [p \in Proofs |-> CHOOSE cl \in Clients : TRUE]

MCHome == [cl \in Clients |-> CHOOSE i \in Instances : TRUE]

=============================================================================
