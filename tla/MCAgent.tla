------------------------------ MODULE MCAgent ------------------------------
(* Two clients of the agent, with requests it handles and ones it drops.   *)
EXTENDS AgentPipe, TLC

CONSTANTS a, b

\* A request of the agent's own key, a foreign one, one of another version,
\* and one that is larger than the agent's buffer.
MCRequests ==
    {[payload |-> 1, version |-> 1, key |-> "k"], [payload |-> 1, version |-> 1, key |-> "other"],
     [payload |-> 1, version |-> 2, key |-> "k"], [payload |-> 9, version |-> 1, key |-> "k"]}
=============================================================================
