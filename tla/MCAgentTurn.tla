---------------------------- MODULE MCAgentTurn ----------------------------
(* Instances of AgentTurn for TLC. *)
EXTENDS AgentTurn

\* Every kind of call, alone or next to one that changes what happens to it.
EveryKind == {<<>>, <<"action">>, <<"guarded">>, <<"rejected">>, <<"ask", "action">>,
              <<"read", "query">>, <<"read", "read">>, <<"write", "query", "read">>}

\* The calls the gateway owns, and nothing to do.
GatewayCalls == {<<>>, <<"action">>, <<"query">>}

\* A question and, in another step, an action.
AskThenAct == {<<>>, <<"ask">>, <<"action">>}

OneAction == {<<>>, <<"action">>}
=============================================================================
