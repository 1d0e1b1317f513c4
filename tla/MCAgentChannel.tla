--------------------------- MODULE MCAgentChannel ---------------------------
(* The instance for TLC: model values for the operations.                  *)
EXTENDS AgentChannel
=============================================================================
