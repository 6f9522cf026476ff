---------------------------- MODULE MCSupervisor ----------------------------
(***************************************************************************)
(* Instances of Supervisor for TLC.                                        *)
(***************************************************************************)
EXTENDS SupervisorProperties

Spec1 == [key |-> "k1", valid |-> TRUE, granted |-> {"tool"},
          required_for |-> {"run"}]
Spec2 == [key |-> "k2", valid |-> TRUE, granted |-> {"tool", "file"},
          required_for |-> {"run"}]
BadSpec == [key |-> "k3", valid |-> FALSE, granted |-> {},
            required_for |-> {}]

\* "tool" needs an approval, "file" is allowed to Spec2 and denied to Spec1.
ToolRequest == [resource |-> "tool", action |-> "run", well_formed |-> TRUE]
FileRequest == [resource |-> "file", action |-> "read", well_formed |-> TRUE]

TwoSpecs == {Spec1, Spec2}
OneSpec == {Spec1}
AllSpecs == {Spec1, Spec2, BadSpec}
OneRequest == {ToolRequest}
AllRequests == {ToolRequest, FileRequest}

=============================================================================
