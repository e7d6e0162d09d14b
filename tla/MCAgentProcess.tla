--------------------------- MODULE MCAgentProcess ---------------------------
(* An instance of AgentProcess for TLC.                                      *)
EXTENDS AgentProcess

CONSTANTS p1, p2

TwoIds == {p1, p2}
=============================================================================
