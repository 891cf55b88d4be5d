----------------------------- MODULE MCAgentHub -----------------------------
(* AgentHub on a small instance: one device, whose agent connects twice      *)
(* while API handlers send it commands.                                      *)
EXTENDS AgentHub

CONSTANT d1

MCDeviceOf == [c \in Conns |-> d1]
=============================================================================
