--------------------------- MODULE MCAgentRuntime ---------------------------
(***************************************************************************)
(* Instances of AgentRuntime for TLC.                                      *)
(***************************************************************************)
EXTENDS AgentRuntime

CONSTANTS tool, network

\* A Tool call and a connection need approvals in one Task; in the other the
\* Tool call needs none and the connection is denied.
NetworkSpec == [key |-> "k1", valid |-> TRUE, granted |-> {"tool", "host"},
                required_for |-> {"run", "connect"}]
OpenSpec == [key |-> "k2", valid |-> TRUE, granted |-> {"tool"},
             required_for |-> {}]

ToolRequest == [resource |-> "tool", action |-> "run", well_formed |-> TRUE]
NetworkRequest ==
  [resource |-> "host", action |-> "connect", well_formed |-> TRUE]

OneSpec == {NetworkSpec}
BothSpecs == {NetworkSpec, OpenSpec}
BothRequests == {ToolRequest, NetworkRequest}
BothGates == {tool, network}
RequestsOfGate ==
  [g \in BothGates |-> IF g = tool THEN {ToolRequest} ELSE {NetworkRequest}]

=============================================================================
