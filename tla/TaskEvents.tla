----------------------------- MODULE TaskEvents -----------------------------
(***************************************************************************)
(* The events of the audit log, aios-runtime/src/event.rs, and the state   *)
(* that the log of one Task stands for: recover_snapshot of                *)
(* aios-storage-sqlite/src/lib.rs.                                         *)
(*                                                                         *)
(* A log is the sequence of the event kinds of one Task.  An event's       *)
(* sequence number is its position, which is what both stores assign;      *)
(* its timestamp is left out.                                              *)
(***************************************************************************)
EXTENDS TaskState, Naturals, Sequences

TaskId == Nat
ApprovalId == Nat
OperationId == Nat

Submitted == [type |-> "Submitted"]
StateTransitioned(from, to) ==
  [type |-> "StateTransitioned", from |-> from, to |-> to]
ValidationFailed == [type |-> "ValidationFailed"]
TaskFailed(code) == [type |-> "TaskFailed", code |-> code]
OperationAllowed == [type |-> "OperationAllowed"]
OperationDenied == [type |-> "OperationDenied"]

ApprovalEventType ==
  {"ApprovalRequested", "ApprovalGranted", "ApprovalDenied",
   "ApprovalExpired", "ApprovalRevoked", "ApprovalConsumed"}
ApprovalEvent(type, approval, operation) ==
  [type |-> type, approval |-> approval, operation |-> operation]

ErrorCode == {"RuntimeRestarted", "BudgetExceeded"}

TaskEventKind ==
  [type : {"Submitted", "ValidationFailed", "OperationAllowed",
           "OperationDenied"}]
    \cup [type : {"StateTransitioned"}, from : TaskState, to : TaskState]
    \cup [type : {"TaskFailed"}, code : ErrorCode]
    \cup [type : ApprovalEventType, approval : ApprovalId,
          operation : OperationId]

-----------------------------------------------------------------------------
(***************************************************************************)
(* recover_snapshot is a loop; module RecoverLoop has it step by step and  *)
(* shows that it computes RecoverSnapshot below.  Only Submitted and       *)
(* StateTransitioned assign to the loop's state, so the state in front of  *)
(* an event is where the last of those left it.                            *)
(***************************************************************************)
Moves(events, n) ==
  {i \in 1..n : events[i].type \in {"Submitted", "StateTransitioned"}}
Target(e) == IF e.type = "Submitted" THEN "Submitted" ELSE e.to

StateAfter(events, n) ==
  LET M == Moves(events, n)
  IN  IF M = {} THEN "None"
      ELSE Target(events[CHOOSE m \in M : \A k \in M : k <= m])

\* The guards of the match over the kinds of event.
Accepts(state, e) ==
  CASE e.type = "Submitted" -> state = "None"
    [] e.type = "StateTransitioned" ->
         state = e.from /\ CanTransitionTo(e.from, e.to)
    [] e.type = "ValidationFailed" -> state = "Validating"
    [] e.type = "TaskFailed" -> state \in TaskState \ Terminal
    [] e.type \in {"OperationAllowed", "OperationDenied",
                   "ApprovalRequested", "ApprovalConsumed"} ->
         state = "Running"
    [] e.type \in {"ApprovalGranted", "ApprovalDenied", "ApprovalExpired"} ->
         state = "WaitingApproval"
    [] e.type = "ApprovalRevoked" -> state \in {"Running", "WaitingApproval"}

\* A TaskFailed event must be followed at once by the transition to Failed,
\* which is then not held against the state machine.
\* Mutant: it is.
AcceptedStrictly(events, i) ==
  Accepts(StateAfter(events, i - 1), events[i])
Accepted(events, i) ==
  IF i > 1 /\ events[i - 1].type = "TaskFailed"
  THEN events[i] = StateTransitioned(StateAfter(events, i - 1), "Failed")
  ELSE Accepts(StateAfter(events, i - 1), events[i])

WellFormed(events) ==
  /\ events # <<>>
  /\ events[Len(events)].type # "TaskFailed"
  /\ \A i \in 1..Len(events) : Accepted(events, i)

RecoverSnapshot(events) ==
  IF WellFormed(events) THEN StateAfter(events, Len(events)) ELSE "Corrupt"

=============================================================================
