--------------------------- MODULE MCRecoverLoop ----------------------------
(***************************************************************************)
(* An instance of RecoverLoop for TLC: one event of every kind that the    *)
(* loop tells apart, and every transition between the states below.        *)
(***************************************************************************)
EXTENDS RecoverLoop

SomeStates ==
  {"Submitted", "Validating", "Queued", "Running", "WaitingApproval", "Failed"}

SomeKinds ==
  {Submitted, ValidationFailed, TaskFailed("RuntimeRestarted"),
   OperationAllowed}
  \cup {ApprovalEvent(type, 1, 1) :
          type \in {"ApprovalRequested", "ApprovalGranted", "ApprovalRevoked"}}
  \cup {StateTransitioned(from, to) : from \in SomeStates, to \in SomeStates}

=============================================================================
