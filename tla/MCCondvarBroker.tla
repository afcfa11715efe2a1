--------------------------- MODULE MCCondvarBroker --------------------------
(* The instance of CondvarBroker for TLC.  No symmetry: it is not sound for   *)
(* the liveness properties.                                                   *)
EXTENDS CondvarBroker
=============================================================================
