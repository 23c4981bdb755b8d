--------------------------- MODULE MCOracleExecutor ---------------------------
(* Instances of OracleExecutor for TLC. *)
EXTENDS OracleExecutor

AllOracles == KemOracles \cup SigOracles

\* Every contract that can make a difference: what a pair's metadata permits
\* of a KEM, and of a signature scheme.
SigContracts == SUBSET {"public_key_exchange", "signature_exchange"}
AllContracts == SUBSET (Permissions \ {"signature_exchange"}) \cup SigContracts
=============================================================================
