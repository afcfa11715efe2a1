---------------------------- MODULE MCFileBroker ----------------------------
(* Instances of FileBroker for TLC.                                         *)
EXTENDS FileBroker, TLC

CONSTANTS r1, r2, c1, c2, p1

\* Both requests in one process.
OneProcess == (r1 :> p1) @@ (r2 :> p1)
=============================================================================
