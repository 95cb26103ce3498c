------------------------- MODULE MCAgentConversation -------------------------
(* Small instances of AgentConversation for TLC.                            *)
EXTENDS AgentConversation
=============================================================================
