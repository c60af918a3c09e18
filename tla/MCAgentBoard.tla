---------------------------- MODULE MCAgentBoard ----------------------------
EXTENDS AgentBoard

CONSTANTS a1, a2, q1, q2

(* SIP/101 of a1 contains SIP/10 of a2; a2 serves two queues.              *)
MCRows == << <<a1, q1>>, <<a2, q1>>, <<a2, q2>> >>
MCIncludes == { <<a1, a2>> }
=============================================================================
