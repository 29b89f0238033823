---------------------- MODULE MCAgentWorkspaceLiveness ----------------------
(* Small instances of AgentWorkspaceLiveness for TLC.                      *)
EXTENDS AgentWorkspaceLiveness

CONSTANTS p1, p2, s1, s2, s3, c1, c2
=============================================================================
