----------------------- MODULE MCWorkspaceTransaction -----------------------
(* Instances of WorkspaceTransaction for TLC. *)
EXTENDS WorkspaceTransaction

CONSTANTS patch, other, undo    \* model values for transactions

\* Two patches of the same files, and the rollback of the first.
Inverses == [t \in Txns |-> IF t = undo THEN patch ELSE NoTxn]
=============================================================================
