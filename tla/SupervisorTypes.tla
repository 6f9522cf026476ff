--------------------------- MODULE SupervisorTypes ---------------------------
(***************************************************************************)
(* The type invariant of the supervisor is inductive, for every set of     *)
(* specifications and requests and every value of the limits.              *)
(***************************************************************************)
EXTENDS Supervisor, TLAPS

-----------------------------------------------------------------------------
(***************************************************************************)
(* Typing of the events and of an append.                                  *)
(***************************************************************************)
LEMMA EventTypes ==
  /\ \A s, u \in TaskState : StateTransitioned(s, u) \in TaskEventKind
  /\ \A type \in ApprovalEventType, a \in ApprovalId, o \in OperationId :
       ApprovalEvent(type, a, o) \in TaskEventKind
  /\ \A code \in ErrorCode : TaskFailed(code) \in TaskEventKind
  /\ {Submitted, ValidationFailed, OperationAllowed, OperationDenied}
       \subseteq TaskEventKind
BY DEF StateTransitioned, ApprovalEvent, TaskFailed, Submitted,
   ValidationFailed, OperationAllowed, OperationDenied, TaskEventKind

\* append_batch keeps the store a map from Task ids to sequences of events.
LEMMA AppendTyped ==
  ASSUME TasksTypeOK, NEW t \in TaskId, NEW batch \in Seq(TaskEventKind),
         AppendBatch(t, batch)
  PROVE  /\ DOMAIN log' \subseteq TaskId
         /\ \A u \in DOMAIN log' : log'[u] \in Seq(TaskEventKind)
<1>1. Events(t) \o batch \in Seq(TaskEventKind)
  BY DEF TasksTypeOK, Events
<1> QED BY <1>1 DEF TasksTypeOK, AppendBatch, Insert

\* task_state of a known Task is a state.
LEMMA StateOfTyped ==
  ASSUME TasksTypeOK, NEW t \in Known
  PROVE  StateOf(t) \in TaskState /\ t \in TaskId
BY DEF TasksTypeOK, Known, StateOf, TaskRecord

\* The batch of submit and the state it leads to are well typed.
LEMMA SubmissionTyped ==
  ASSUME NEW spec \in Specs
  PROVE  /\ SubmissionEvents(spec) \in Seq(TaskEventKind)
         /\ SubmittedState(spec) \in TaskState
<1>1. {"Submitted", "Validating", "Queued", "Rejected"} \subseteq TaskState
  BY DEF TaskState
<1> QED BY <1>1, EventTypes DEF SubmissionEvents, SubmittedState

\* So is the batch of revocation_events.
LEMMA RevocationTyped ==
  ASSUME TypeOK, NEW t,
         NEW pending \in Ascending(PendingOf(t)),
         NEW approved \in Ascending(ApprovedOf(t))
  PROVE  RevocationEvents(pending, approved) \in Seq(TaskEventKind)
<1> DEFINE P == [i \in DOMAIN pending |->
                   ApprovalEvent("ApprovalRevoked", pending[i],
                                 pending_operations[pending[i]].operation)]
           Q == [i \in DOMAIN approved |->
                   ApprovalEvent("ApprovalRevoked",
                     approved_operations[approved[i]].grant.approval,
                     approved[i])]
<1>1. issued \in Nat
  BY DEF TypeOK, CallTypeOK
<1>2. PendingOf(t) \subseteq 1..issued /\ ApprovedOf(t) \subseteq 1..issued
  BY DEF TypeOK, ApprovalsTypeOK, PendingOf, ApprovedOf
<1>3. P \in Seq(TaskEventKind)
  <2>1. PICK n \in 0..MaxApprovalId : pending \in [1..n -> PendingOf(t)]
    BY DEF Ascending
  <2>2. n \in Nat
    BY <2>1, BoundsAssumption
  <2>3. \A a \in PendingOf(t) :
          a \in ApprovalId /\ pending_operations[a].operation \in OperationId
    BY <1>1, <1>2 DEF PendingOf, TypeOK, ApprovalsTypeOK, PendingOperation,
       ApprovalId
  <2>4. \A i \in 1..n : P[i] \in TaskEventKind
    BY <2>1, <2>3, EventTypes DEF ApprovalEventType
  <2>5. DOMAIN P = 1..n /\ P = [i \in 1..n |-> P[i]]
    BY <2>1
  <2> HIDE DEF P
  <2> QED BY <2>2, <2>4, <2>5
<1>4. Q \in Seq(TaskEventKind)
  <2>1. PICK n \in 0..MaxApprovalId : approved \in [1..n -> ApprovedOf(t)]
    BY DEF Ascending
  <2>2. n \in Nat
    BY <2>1, BoundsAssumption
  <2>3. \A o \in ApprovedOf(t) :
          /\ o \in OperationId
          /\ approved_operations[o].grant.approval \in ApprovalId
    BY <1>1, <1>2 DEF ApprovedOf, TypeOK, ApprovalsTypeOK, ApprovedOperation,
       Grant, OperationId
  <2>4. \A i \in 1..n : Q[i] \in TaskEventKind
    BY <2>1, <2>3, EventTypes DEF ApprovalEventType
  <2>5. DOMAIN Q = 1..n /\ Q = [i \in 1..n |-> Q[i]]
    BY <2>1
  <2> HIDE DEF Q
  <2> QED BY <2>2, <2>4, <2>5
<1> HIDE DEF P, Q
<1>5. P \o Q \in Seq(TaskEventKind)
  BY <1>3, <1>4
<1> QED BY <1>5 DEF P, Q, RevocationEvents

\* apply_transition_with_failure keeps the types.
LEMMA ApplyTransitionTyped ==
  ASSUME TypeOK, NEW t \in Known, NEW next \in TaskState,
         NEW failure \in Seq(TaskEventKind), ApplyTransition(t, next, failure)
  PROVE  TypeOK'
<1>1. StateOf(t) \in TaskState /\ t \in TaskId
  BY StateOfTyped DEF TypeOK
<1>2. PICK pending \in Ascending(PendingOf(t)),
           approved \in Ascending(ApprovedOf(t)) :
        AppendBatch(t, (IF IsTerminal(next)
                        THEN RevocationEvents(pending, approved) ELSE <<>>)
                       \o failure
                       \o <<StateTransitioned(StateOf(t), next)>>)
  BY DEF ApplyTransition
<1> DEFINE revoked == IF IsTerminal(next)
                      THEN RevocationEvents(pending, approved) ELSE <<>>
           last == <<StateTransitioned(StateOf(t), next)>>
<1>3. revoked \in Seq(TaskEventKind)
  BY RevocationTyped
<1>4. last \in Seq(TaskEventKind)
  BY <1>1, EventTypes
<1> HIDE DEF revoked, last
<1>5. revoked \o failure \o last \in Seq(TaskEventKind)
  BY <1>3, <1>4
<1>6. DOMAIN log' \subseteq TaskId
      /\ \A u \in DOMAIN log' : log'[u] \in Seq(TaskEventKind)
  <2>1. AppendBatch(t, revoked \o failure \o last)
    BY <1>2 DEF revoked, last
  <2> QED BY Zenon, <1>1, <1>5, <2>1, AppendTyped DEF TypeOK
<1>7. TasksTypeOK'
  <2>1. UNCHANGED idempotency_index
    BY DEF ApplyTransition
  <2>2. CASE t \in DOMAIN tasks
    <3>1. tasks' = [tasks EXCEPT ![t].state = next] /\ UNCHANGED recovered_tasks
      BY <2>2 DEF ApplyTransition, SetTaskState
    <3> QED BY <1>6, <2>1, <2>2, <3>1 DEF TypeOK, TasksTypeOK, TaskRecord
  <2>3. CASE t \notin DOMAIN tasks
    <3>1. /\ recovered_tasks' = [recovered_tasks EXCEPT ![t] = next]
          /\ UNCHANGED tasks
      BY <2>3 DEF ApplyTransition
    <3> QED BY <1>6, <2>1, <3>1 DEF TypeOK, TasksTypeOK
  <2> QED BY <2>2, <2>3
<1>8. ApprovalsTypeOK'
  <2>1. issued' = issued
    BY DEF ApplyTransition, clock
  <2>2. CASE IsTerminal(next)
    <3>1. InvalidateApprovals(t)
      BY <2>2 DEF ApplyTransition
    <3>2. authority'.pending = Without(authority.pending, PendingOf(t))
      BY <3>1 DEF InvalidateApprovals
    <3> QED BY <2>1, <3>1, <3>2
            DEF InvalidateApprovals, TypeOK, ApprovalsTypeOK, Without
  <2>3. CASE ~IsTerminal(next)
    <3>1. UNCHANGED approvals
      BY <2>3 DEF ApplyTransition
    <3> QED BY <2>1, <3>1 DEF approvals, TypeOK, ApprovalsTypeOK
  <2> QED BY <2>2, <2>3
<1>9. CallTypeOK'
  BY DEF ApplyTransition, TypeOK, CallTypeOK, clock
<1> QED BY <1>7, <1>8, <1>9 DEF TypeOK

\* What a call that leaves the approvals alone leaves typed.
LEMMA UntouchedTyped ==
  ASSUME ApprovalsTypeOK, CallTypeOK,
         UNCHANGED <<mode, approvals, call, expired, clock>>
  PROVE  ApprovalsTypeOK' /\ CallTypeOK'
<1>1. ApprovalsTypeOK'
  BY DEF ApprovalsTypeOK, approvals, clock
<1>2. CallTypeOK'
  BY DEF CallTypeOK, clock
<1> QED BY <1>1, <1>2

-----------------------------------------------------------------------------
(***************************************************************************)
(* Type correctness.                                                       *)
(***************************************************************************)
LEMMA RestartTyped == TypeOK /\ Restart => TypeOK'
<1> SUFFICES ASSUME TypeOK, Restart PROVE TypeOK'
  OBVIOUS
<1> USE DEF TypeOK
<1>1. CASE Crash
  <2>1. TasksTypeOK' /\ CallTypeOK'
    BY <1>1 DEF Crash, TasksTypeOK, CallTypeOK, EmptyMap
  <2>2. ApprovalsTypeOK'
    BY <1>1 DEF Crash, ApprovalsTypeOK, EmptyAuthority, EmptyMap
  <2> QED BY <2>1, <2>2
<1>2. CASE RecoverSnapshots
  <2>1. \A t \in DOMAIN log : RecoverSnapshot(log[t]) \in TaskState
    BY <1>2 DEF RecoverSnapshots
  <2>2. TasksTypeOK'
    BY <1>2, <2>1 DEF RecoverSnapshots, TasksTypeOK
  <2> QED BY <1>2, <2>2
          DEF RecoverSnapshots, ApprovalsTypeOK, CallTypeOK, approvals, clock
<1>3. ASSUME NEW t \in TaskIds, RecoverInterrupted(t) PROVE TypeOK'
  <2>1. t \in TaskId /\ recovered_tasks[t] \in TaskState
    BY <1>3 DEF RecoverInterrupted, Interrupted, TasksTypeOK
  <2>2. <<TaskFailed("RuntimeRestarted"),
          StateTransitioned(recovered_tasks[t], "Failed")>>
          \in Seq(TaskEventKind)
    BY <2>1, EventTypes DEF ErrorCode, TaskState
  <2>3. DOMAIN log' \subseteq TaskId
        /\ \A u \in DOMAIN log' : log'[u] \in Seq(TaskEventKind)
    BY Zenon, <1>3, <2>1, <2>2, AppendTyped DEF RecoverInterrupted
  <2>4. TasksTypeOK'
    BY <1>3, <2>3 DEF RecoverInterrupted, TasksTypeOK, TaskState
  <2>5. UNCHANGED <<mode, approvals, call, expired, clock>>
    BY <1>3 DEF RecoverInterrupted
  <2> QED BY <2>4, <2>5, UntouchedTyped
<1>4. CASE RecoveryDone
  BY <1>4 DEF RecoveryDone, TasksTypeOK, ApprovalsTypeOK, CallTypeOK,
     volatile, clock
<1> QED BY <1>1, <1>2, <1>3, <1>4 DEF Restart

\* submit, start, succeed, fail, fail_budget_exceeded and cancel.
LEMMA LifecycleTyped == TypeOK /\ Lifecycle => TypeOK'
<1> SUFFICES ASSUME TypeOK, NEW t \in TaskIds,
                    \/ \E spec \in Specs : Submit(t, spec)
                    \/ Start(t)
                    \/ Succeed(t)
                    \/ Fail(t)
                    \/ FailBudgetExceeded(t)
                    \/ Cancel(t)
             PROVE  TypeOK'
  BY DEF Lifecycle
<1> USE DEF TypeOK
<1>1. t \in TaskId
  BY BoundsAssumption DEF TaskIds, TaskId
<1>2. ASSUME NEW spec \in Specs, Submit(t, spec) PROVE TypeOK'
  <2>1. DOMAIN log' \subseteq TaskId
        /\ \A u \in DOMAIN log' : log'[u] \in Seq(TaskEventKind)
    BY <1>1, <1>2, AppendTyped, SubmissionTyped DEF Submit
  <2>2. SubmittedTask(spec) \in TaskRecord
    BY SubmissionTyped DEF TaskRecord, SubmittedTask
  <2>3. TasksTypeOK'
    <3>1. /\ tasks' = Insert(tasks, t, SubmittedTask(spec))
          /\ idempotency_index' = Insert(idempotency_index, spec.key, t)
          /\ UNCHANGED recovered_tasks
      BY Zenon, <1>2 DEF Submit
    <3> QED BY <1>1, <2>1, <2>2, <3>1 DEF TasksTypeOK, Insert
  <2>4. UNCHANGED <<mode, approvals, call, expired, clock>>
    BY <1>2 DEF Submit
  <2> QED BY <2>3, <2>4, UntouchedTyped
<1>3. CASE Start(t)
  <2>1. StateOf(t) \in TaskState
    BY <1>3, StateOfTyped DEF Start, Known
  <2>2. <<StateTransitioned(StateOf(t), "Running")>> \in Seq(TaskEventKind)
    BY SMTT(60), <2>1, EventTypes DEF TaskState
  <2>3. DOMAIN log' \subseteq TaskId
        /\ \A u \in DOMAIN log' : log'[u] \in Seq(TaskEventKind)
    BY Zenon, <1>1, <1>3, <2>2, AppendTyped DEF Start
  <2>4. TasksTypeOK'
    BY <1>3, <2>3 DEF Start, SetTaskState, TasksTypeOK, TaskRecord, TaskState
  <2>5. UNCHANGED <<mode, approvals, call, expired, clock>>
    BY <1>3 DEF Start
  <2> QED BY <2>4, <2>5, UntouchedTyped
<1>4. <<>> \in Seq(TaskEventKind)
      /\ {"Succeeded", "Failed", "Cancelled"} \subseteq TaskState
  BY DEF TaskState
<1>5. CASE Succeed(t)
  BY Zenon, <1>4, <1>5, ApplyTransitionTyped DEF Succeed, Transition
<1>6. CASE Fail(t)
  BY Zenon, <1>4, <1>6, ApplyTransitionTyped DEF Fail, Transition
<1>7. CASE FailBudgetExceeded(t)
  <2>1. <<TaskFailed("BudgetExceeded")>> \in Seq(TaskEventKind)
    BY EventTypes DEF ErrorCode
  <2> QED BY <1>4, <1>7, <2>1, ApplyTransitionTyped DEF FailBudgetExceeded
<1>8. CASE Cancel(t)
  BY Zenon, <1>4, <1>8, ApplyTransitionTyped DEF Cancel
<1> QED BY <1>2, <1>3, <1>5, <1>6, <1>7, <1>8

==============================================================================
