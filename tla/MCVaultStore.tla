---------------------------- MODULE MCVaultStore ----------------------------
(* Instances of VaultStore for TLC.                                         *)
EXTENDS VaultStore, TLC

CONSTANTS w1, w2, w3, d1

\* Every call works on the project record.
OneVault == [m \in Mutators |-> "project"]
\* w3 works on the global record, beside the others.
BothVaults == [m \in Mutators |-> IF m = w3 THEN "global" ELSE "project"]
=============================================================================
