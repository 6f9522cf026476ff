------------------------------ MODULE TaskState ------------------------------
(***************************************************************************)
(* The lifecycle of a Task: aios-core/src/state.rs.                        *)
(***************************************************************************)

TaskState ==
  {"Submitted", "Validating", "Rejected", "Queued", "Running",
   "WaitingApproval", "Succeeded", "Failed", "Cancelled"}

Terminal == {"Rejected", "Succeeded", "Failed", "Cancelled"}

\* Mutant: a Task that was cancelled can be cancelled again.
IsTerminalBut(state) == state \in Terminal \ {"Cancelled"}
IsTerminal(state) == state \in Terminal

CanTransitionTo(state, next) ==
  \/ <<state, next>> \in
       {<<"Submitted", "Validating">>, <<"Validating", "Rejected">>,
        <<"Validating", "Queued">>, <<"Queued", "Running">>,
        <<"Running", "WaitingApproval">>, <<"Running", "Succeeded">>,
        <<"Running", "Failed">>, <<"WaitingApproval", "Running">>,
        <<"WaitingApproval", "Failed">>}
  \/ ~IsTerminal(state) /\ next = "Cancelled"

==============================================================================
