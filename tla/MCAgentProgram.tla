--------------------------- MODULE MCAgentProgram ---------------------------
(* Controllers that know nothing of each other: each believes what GetInfo *)
(* told it and uses every slot of the agent.                               *)
EXTENDS AgentProgram

Honest == [c \in Controllers |-> Slots]
=============================================================================
