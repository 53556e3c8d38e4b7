-------------------------- MODULE MCAgentTriggers ---------------------------
(* Small instances of AgentTriggers.                                        *)
EXTENDS AgentTriggers

CONSTANTS a1, a2

Pair == {a1, a2}
=============================================================================
