----------------------------- MODULE MCExchange -----------------------------
(* Instances of Exchange for TLC.                                           *)
EXTENDS Exchange

CONSTANTS opened, guarded, live

Budget(commands, formats, seals, ticks, opens, edits) ==
  [commands |-> commands, formats |-> formats, seals |-> seals, ticks |-> ticks, opens |-> opens, edits |-> edits]

\* Key commands around one record; two packages; time that passes; a key, or a
\* record, that changes under an import; two imports of one package.
SomeBudgets ==
  {Budget(4, 0, 0, 0, 0, 1), Budget(1, 1, 2, 0, 1, 0), Budget(1, 1, 1, 1, 1, 0),
   Budget(2, 1, 1, 0, 1, 0), Budget(1, 1, 1, 0, 1, 1), Budget(1, 1, 1, 0, 2, 0)}
=============================================================================
