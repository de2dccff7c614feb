-------------------------- MODULE MCStdioConnection --------------------------
(* Two calls carry the same JSON-RPC id, a third its own. *)
EXTENDS StdioConnection

CONSTANTS first, again, other

SharedId == [c \in {first, again, other} |-> IF c = other THEN 2 ELSE 1]
=============================================================================
