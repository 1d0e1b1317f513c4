--------------------------- MODULE MCAgentSession ---------------------------
(* The instance for TLC: model values for the messages.                    *)
EXTENDS AgentSession
=============================================================================
