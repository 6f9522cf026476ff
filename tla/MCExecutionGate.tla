-------------------------- MODULE MCExecutionGate --------------------------
(***************************************************************************)
(* Instances of ExecutionGate for TLC.                                     *)
(***************************************************************************)
EXTENDS ExecutionGate

\* The one request needs an approval in two Tasks and none in the third.
GuardedSpec == [key |-> "k1", valid |-> TRUE, granted |-> {"tool"},
                required_for |-> {"run"}]
OtherGuardedSpec == [GuardedSpec EXCEPT !.key = "k2"]
OpenSpec == [GuardedSpec EXCEPT !.key = "k3", !.required_for = {}]

ToolRequest == [resource |-> "tool", action |-> "run", well_formed |-> TRUE]

GuardedSpecs == {GuardedSpec, OtherGuardedSpec}
AllSpecs == {GuardedSpec, OtherGuardedSpec, OpenSpec}
OneRequest == {ToolRequest}

=============================================================================
